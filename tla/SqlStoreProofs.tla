---------------------------- MODULE SqlStoreProofs ----------------------------
(***************************************************************************)
(* What SqlStoreHistory promises of reads, writes, deletes and iterators   *)
(* holds for any callers, keys, deadlines and batches.  The argument       *)
(* needs, beside the types: that a call's time is not in the future; that  *)
(* every row in the table is on record, under the number of the write that *)
(* made it; and that no two writes under way have one number.              *)
(*                                                                         *)
(* The last part is about TableStart: what starts of any number of         *)
(* adapters, of the SQL servers or of DynamoDB, make of any table of an    *)
(* earlier version.                                                        *)
(***************************************************************************)
EXTENDS SqlStoreHistory, TableStart, FiniteSetTheorems, WellFoundedInduction, TLAPS

Places == {"idle", "select", "purge", "upsert", "remove", "ask", "fetch", "done", "failed"}

Typed == /\ clock \in Nat /\ writes \in Nat
         /\ rows \in [Keys -> Row \cup {None}]
         /\ pc \in [Clients -> Places] /\ kind \in [Clients -> AllKinds]
         /\ todo \in [Clients -> SUBSET Keys] /\ expired \in [Clients -> SUBSET Keys]
         /\ result \in [Clients -> SUBSET Keys]
         /\ now \in [Clients -> Nat] /\ row \in [Clients -> Row]
         /\ found \in [Clients -> [Keys -> Row \cup {None}]]

\* Which operations come to which statement, and what they leave to do.
Ordered == \A c \in Clients :
  /\ now[c] <= clock
  /\ pc[c] \in {"select", "purge"} => kind[c] \in ReadKinds
  /\ pc[c] = "upsert" => kind[c] \in WriteKinds
  /\ pc[c] = "remove" => kind[c] \in DeleteKinds
  /\ pc[c] \in {"ask", "fetch"} => kind[c] = "iterator"
  /\ kind[c] \in WriteKinds => pc[c] \in {"upsert", "done"}
  /\ pc[c] = "done" /\ kind[c] \in ReadKinds => todo[c] = {}

Base == Typed /\ Ordered

LEMMA InitBase == Init => Base
BY SpecialValues
   DEF Init, Base, Typed, Ordered, NoRows, Blank, Row, Deadline, Places, AllKinds, ReadKinds,
       WriteKinds, DeleteKinds

LEMMA BeginBase ==
  ASSUME NEW c \in Clients, Base, Begin(c)
  PROVE  Base'
<1> USE DEF Base
<1> DEFINE begun(k, ks, life) ==
             /\ kind' = [kind EXCEPT ![c] = k]
             /\ todo' = [todo EXCEPT ![c] = ks]
             /\ writes' = IF k \in WriteKinds THEN writes + 1 ELSE writes
             /\ row' = [row EXCEPT ![c] =
                          IF k \in WriteKinds
                          THEN [val |-> writes + 1,
                                expires |-> IF life = Never THEN Never ELSE clock + life]
                          ELSE Blank]
             /\ pc' = [pc EXCEPT ![c] = FirstPlace(k)]
<1>0. PICK k \in Kinds[c] : \E ks \in Arguments(k), life \in Lifetimes : begun(k, ks, life)
  BY DEF Begin
<1>1. PICK ks \in Arguments(k), life \in Lifetimes : begun(k, ks, life)
  BY <1>0
<1>2. k \in AllKinds /\ ks \in SUBSET Keys /\ life \in Deadline
  BY KindsAssumption, LifeAssumption DEF Arguments
<1>3. FirstPlace(k) = IF k \in ReadKinds THEN "select" ELSE IF k \in WriteKinds THEN "upsert"
                      ELSE IF k \in DeleteKinds THEN "remove" ELSE "ask"
  BY DEF FirstPlace, ReadKinds, WriteKinds, DeleteKinds
<1>4. row' \in [Clients -> Row]
  BY <1>1, <1>2, SpecialValues DEF Typed, Row, Deadline, Blank
<1>5. Typed'
  BY <1>1, <1>2, <1>3, <1>4 DEF Begin, Typed, Places, NoRows
<1>6. Ordered'
  BY <1>1, <1>2, <1>3
     DEF Begin, Typed, Ordered, Places, ReadKinds, WriteKinds, DeleteKinds, AllKinds
<1> QED BY <1>5, <1>6

LEMMA StepBase == Base /\ [Next]_vars => Base'
<1> SUFFICES ASSUME Base, [Next]_vars PROVE Base'
  OBVIOUS
<1> USE DEF Base, data
<1>1. CASE Tick
  BY <1>1 DEF Tick, Typed, Ordered
<1>2. ASSUME NEW c \in Clients, Begin(c) PROVE Base'
  BY <1>2, BeginBase
<1>3. ASSUME NEW c \in Clients, Select(c) PROVE Base'
  <2>1. PICK batch \in Batches(todo[c], ReadBatch) :
          LET gone_ == {k \in batch : Dead(rows[k], now[c])}
              left  == todo[c] \ batch
          IN  /\ found'   = [found EXCEPT ![c] = Keep(batch \ gone_, @)]
              /\ expired' = [expired EXCEPT ![c] = gone_]
              /\ todo'    = [todo EXCEPT ![c] = left]
              /\ pc'      = [pc EXCEPT ![c] = IF gone_ # {} THEN "purge"
                                              ELSE IF left # {} THEN "select"
                                              ELSE "done"]
    BY <1>3 DEF Select
  <2>2. batch \subseteq Keys
    BY DEF Batches, kSubset, Typed
  <2>3. Typed'
    BY <1>3, <2>1, <2>2 DEF Select, Typed, Places, Keep
  <2>4. Ordered'
    BY <1>3, <2>1, <2>2 DEF Select, Typed, Ordered, Places, ReadKinds, WriteKinds, DeleteKinds
  <2> QED BY <2>3, <2>4
<1>4. ASSUME NEW c \in Clients, Purge(c) PROVE Base'
  BY <1>4 DEF Purge, Without, Typed, Ordered, Places, ReadKinds, WriteKinds, DeleteKinds
<1>5. ASSUME NEW c \in Clients, Upsert(c) PROVE Base'
  BY <1>5 DEF Upsert, Batches, kSubset, Typed, Ordered, Places, ReadKinds, WriteKinds, DeleteKinds
<1>6. ASSUME NEW c \in Clients, UpsertFails(c) PROVE Base'
  BY <1>6 DEF UpsertFails, Batches, kSubset, Typed, Ordered, Places, ReadKinds, WriteKinds,
              DeleteKinds
<1>7. ASSUME NEW c \in Clients, Remove(c) PROVE Base'
  <2>1. PICK batch \in Batches(todo[c], RemoveSize(c)) :
          /\ rows'   = Without(Hit(c, batch))
          /\ result' = [result EXCEPT ![c] = @ \cup Returned(c, batch)]
          /\ todo'   = [todo EXCEPT ![c] = @ \ batch]
          /\ pc'     = [pc EXCEPT ![c] = IF todo[c] = batch THEN "done" ELSE @]
    BY <1>7 DEF Remove
  <2>2. Returned(c, batch) \subseteq Keys /\ Without(Hit(c, batch)) \in [Keys -> Row \cup {None}]
    BY DEF Batches, kSubset, Typed, Returned, Hit, Without
  <2> QED BY <1>7, <2>1, <2>2
          DEF Remove, Typed, Ordered, Places, ReadKinds, WriteKinds, DeleteKinds
<1>8. ASSUME NEW c \in Clients, Ask(c) PROVE Base'
  BY <1>8 DEF Ask, Typed, Ordered, Places, ReadKinds, WriteKinds, DeleteKinds
<1>9. ASSUME NEW c \in Clients, Fetch(c) PROVE Base'
  BY <1>9 DEF Fetch, Typed, Ordered, Places, ReadKinds, WriteKinds, DeleteKinds
<1>10. ASSUME NEW c \in Clients, Fails(c) PROVE Base'
  BY <1>10 DEF Fails, Typed, Ordered, Places, ReadKinds, WriteKinds, DeleteKinds
<1>11. CASE UNCHANGED vars
  BY <1>11 DEF vars, Typed, Ordered
<1> QED BY <1>1, <1>2, <1>3, <1>4, <1>5, <1>6, <1>7, <1>8, <1>9, <1>10, <1>11
        DEF Next, Step, Answer

-----------------------------------------------------------------------------
(* The record. *)

Recorded == /\ stored \subseteq Keys \X (0 .. writes)
            /\ \A k \in Keys : rows[k] # None => <<k, rows[k].val>> \in stored

\* A write's number is its own.
Numbered == \A c, d \in Clients :
  kind[c] \in WriteKinds =>
    /\ row[c].val \in 1 .. writes
    /\ c # d /\ kind[d] \in WriteKinds => row[c].val # row[d].val

\* What a write has answered for so far is stored, what it has yet to do is not,
\* and when answers are not lost it has answered for all it stored.
Writing == \A c \in Clients : kind[c] \in WriteKinds => \A k \in Keys :
  /\ k \in result[c] => <<k, row[c].val>> \in stored
  /\ pc[c] = "upsert" /\ k \in todo[c] => <<k, row[c].val>> \notin stored
  /\ ~LostAnswers /\ <<k, row[c].val>> \in stored => k \in result[c]

\* A key a read has come past and found nothing for was without a live row.
Reading == /\ asked \in [Clients -> SUBSET Keys] /\ gone \in [Clients -> SUBSET Keys]
           /\ \A c \in Clients : kind[c] \in ReadKinds /\ pc[c] \in {"select", "purge", "done"} =>
                \A k \in asked[c] \ todo[c] : found[c][k] = None => k \in gone[c]

\* A step that only takes rows away adds nothing to the record.
LEMMA TakingAway ==
  ASSUME Typed, Recorded, Observe, writes' \in Nat, writes' >= writes,
         \A k \in Keys : rows'[k] \in {rows[k], None}
  PROVE  stored' = stored /\ Recorded'
<1>1. \A k \in Keys : rows'[k] # None => <<k, rows'[k].val>> \in stored
  BY DEF Recorded
<1>2. stored' = stored
  BY <1>1 DEF Observe
<1> QED BY <1>1, <1>2 DEF Recorded, Typed

\* A step that stores a row under some keys adds these.
LEMMA Storing ==
  ASSUME Typed, Recorded, Observe, UNCHANGED writes, NEW r \in Row, r.val \in 0 .. writes,
         NEW batch \in SUBSET Keys, rows' = [k \in Keys |-> IF k \in batch THEN r ELSE rows[k]]
  PROVE  stored' = stored \cup (batch \X {r.val}) /\ Recorded'
<1>1. \A k \in batch : rows'[k] = r /\ r # None
  BY SpecialValues
<1>2. \A k \in Keys \ batch : rows'[k] = rows[k]
  OBVIOUS
<1>3. stored' = stored \cup {<<k, rows'[k].val>> : k \in {key \in Keys : rows'[key] # None}}
  BY DEF Observe
<1>4. stored' \subseteq stored \cup (batch \X {r.val})
  BY <1>1, <1>2, <1>3 DEF Recorded
<1>5. stored \cup (batch \X {r.val}) \subseteq stored'
  <2>1. ASSUME NEW k \in batch PROVE <<k, r.val>> \in stored'
    <3>1. rows'[k] # None /\ k \in Keys /\ rows'[k] = r
      BY <1>1, <2>1
    <3> QED BY <1>3, <3>1
  <2> QED BY <1>3, <2>1
<1>6. stored' = stored \cup (batch \X {r.val})
  BY <1>4, <1>5
<1>7. Recorded'
  BY <1>1, <1>2, <1>6 DEF Recorded
<1> QED BY <1>6, <1>7

Untouched(d) == /\ kind'[d] = kind[d] /\ row'[d] = row[d] /\ result'[d] = result[d]
                /\ todo'[d] = todo[d] /\ pc'[d] = pc[d]

\* Writes do not care what others do who store nothing.
LEMMA Bystanding ==
  ASSUME Recorded, Numbered, Writing, stored' = stored, UNCHANGED writes,
         \A d \in Clients : kind'[d] \in WriteKinds => Untouched(d)
  PROVE  Numbered' /\ Writing'
<1>1. Numbered'
  BY DEF Numbered, Untouched
<1>2. Writing'
  BY DEF Writing, Untouched
<1> QED BY <1>1, <1>2

\* A call that begins, with its number if it is a write.
LEMMA BeginRecorded ==
  ASSUME NEW c \in Clients, Base, Begin(c), Observe, Recorded, Numbered, Writing
  PROVE  Recorded' /\ Numbered' /\ Writing' /\ stored' = stored
<1>1. PICK k \in Kinds[c] :
        /\ kind' = [kind EXCEPT ![c] = k]
        /\ writes' = IF k \in WriteKinds THEN writes + 1 ELSE writes
        /\ \E e : row' = [row EXCEPT ![c] =
             IF k \in WriteKinds THEN [val |-> writes + 1, expires |-> e] ELSE Blank]
        /\ \A d \in Clients \ {c} : todo'[d] = todo[d] /\ pc'[d] = pc[d]
  BY DEF Begin, Base, Typed
<1>2. k \in AllKinds /\ result' = [result EXCEPT ![c] = {}] /\ UNCHANGED rows
  BY KindsAssumption DEF Begin
<1>3. stored' = stored /\ Recorded'
  BY <1>1, <1>2, TakingAway DEF Base, Typed
<1>4. \A d \in Clients \ {c} : Untouched(d)
  BY <1>1, <1>2 DEF Untouched, Base, Typed
<1>5. k \in WriteKinds => row'[c].val = writes + 1 /\ writes' = writes + 1
  BY <1>1 DEF Base, Typed
<1>6. kind'[c] = k /\ result'[c] = {}
  BY <1>1, <1>2 DEF Base, Typed
<1>7. writes \in Nat
  BY DEF Base, Typed
<1>8. Numbered'
  BY <1>1, <1>4, <1>5, <1>6, <1>7 DEF Numbered, Untouched
<1>9. \A j \in Keys : k \in WriteKinds => <<j, row'[c].val>> \notin stored
  BY <1>5, <1>7 DEF Recorded
<1>10. Writing'
  <2> SUFFICES ASSUME NEW d \in Clients, kind'[d] \in WriteKinds, NEW j \in Keys
               PROVE  /\ j \in result'[d] => <<j, row'[d].val>> \in stored'
                      /\ pc'[d] = "upsert" /\ j \in todo'[d] => <<j, row'[d].val>> \notin stored'
                      /\ ~LostAnswers /\ <<j, row'[d].val>> \in stored' => j \in result'[d]
    BY DEF Writing
  <2>1. CASE d = c
    BY <1>3, <1>6, <1>9, <2>1
  <2>2. CASE d # c
    BY <1>3, <1>4, <2>2 DEF Writing, Untouched
  <2> QED BY <2>1, <2>2
<1> QED BY <1>3, <1>8, <1>10

\* A batch that is stored, whether its answer is lost or not.
LEMMA BatchRecorded ==
  ASSUME NEW c \in Clients, Base, Observe, Recorded, Numbered, Writing,
         pc[c] = "upsert", NEW batch \in SUBSET todo[c], UNCHANGED <<kind, row, writes>>,
         rows' = [k \in Keys |-> IF k \in batch THEN row[c] ELSE rows[k]],
         todo' = [todo EXCEPT ![c] = @ \ batch], \A d \in Clients \ {c} : pc'[d] = pc[d],
         \/ result' = [result EXCEPT ![c] = @ \cup batch]
         \/ result' = result /\ LostAnswers
  PROVE  /\ Recorded' /\ Numbered' /\ Writing'
         /\ stored' = stored \cup (batch \X {row[c].val})
         /\ \A k \in batch : <<k, row[c].val>> \notin stored
<1> DEFINE v == row[c].val
<1>1. kind[c] \in WriteKinds /\ batch \subseteq Keys /\ v \in 0 .. writes /\ row[c] \in Row
  BY DEF Base, Typed, Ordered, Numbered
<1>2. stored' = stored \cup (batch \X {v}) /\ Recorded'
  BY <1>1, Storing DEF Base
<1>3. \A k \in batch : <<k, v>> \notin stored
  BY <1>1 DEF Writing
<1>4. Numbered'
  BY DEF Numbered
<1>5. todo'[c] = todo[c] \ batch /\ \A d \in Clients \ {c} : todo'[d] = todo[d]
  BY DEF Base, Typed
<1>6. Writing'
  <2> SUFFICES ASSUME NEW d \in Clients, kind[d] \in WriteKinds, NEW j \in Keys
               PROVE  /\ j \in result'[d] => <<j, row[d].val>> \in stored'
                      /\ pc'[d] = "upsert" /\ j \in todo'[d] => <<j, row[d].val>> \notin stored'
                      /\ ~LostAnswers /\ <<j, row[d].val>> \in stored' => j \in result'[d]
    BY DEF Writing
  <2>1. CASE d = c
    <3>1. result'[c] = result[c] \cup batch \/ (result'[c] = result[c] /\ LostAnswers)
      BY DEF Base, Typed
    <3>2. <<j, v>> \in stored' <=> <<j, v>> \in stored \/ j \in batch
      BY <1>2
    <3> QED BY <1>1, <1>5, <2>1, <3>1, <3>2 DEF Writing
  <2>2. CASE d # c
    <3>1. row[d].val # v
      BY <1>1, <2>2 DEF Numbered
    <3>2. <<j, row[d].val>> \in stored' <=> <<j, row[d].val>> \in stored
      BY <1>2, <3>1
    <3>3. result'[d] = result[d]
      BY <2>2 DEF Base, Typed
    <3> HIDE DEF v
    <3> QED BY <1>5, <2>2, <3>2, <3>3 DEF Writing
  <2> QED BY <2>1, <2>2
<1> QED BY <1>2, <1>3, <1>4, <1>6

\* The other steps store nothing and leave the writes alone.
Sparing == /\ UNCHANGED writes /\ \A k \in Keys : rows'[k] \in {rows[k], None}
           /\ \A d \in Clients : kind'[d] \in WriteKinds => Untouched(d)

LEMMA OtherStepsSpare ==
  ASSUME Base, NEW c \in Clients,
         Select(c) \/ Purge(c) \/ Remove(c) \/ Ask(c) \/ Fetch(c) \/ Fails(c)
  PROVE  Sparing
<1> USE DEF Base, Typed, data, Sparing, Untouched
<1>1. CASE Select(c)
  <2>1. UNCHANGED <<rows, writes, kind, row, result>> /\ kind[c] \in ReadKinds
    BY <1>1 DEF Select, Ordered
  <2>2. \A d \in Clients \ {c} : todo'[d] = todo[d] /\ pc'[d] = pc[d]
    BY <1>1 DEF Select
  <2> QED BY <2>1, <2>2 DEF ReadKinds, WriteKinds
<1>2. CASE Purge(c)
  BY <1>2 DEF Purge, Without, Ordered, ReadKinds, WriteKinds
<1>3. CASE Remove(c)
  <2>1. /\ UNCHANGED <<writes, kind, row>> /\ kind[c] \in DeleteKinds
        /\ \A k \in Keys : rows'[k] \in {rows[k], None}
    BY <1>3 DEF Remove, Without, Ordered
  <2>2. \A d \in Clients \ {c} : todo'[d] = todo[d] /\ pc'[d] = pc[d] /\ result'[d] = result[d]
    BY <1>3 DEF Remove
  <2> QED BY <2>1, <2>2 DEF DeleteKinds, WriteKinds
<1>4. CASE Ask(c)
  BY <1>4 DEF Ask, Ordered, WriteKinds
<1>5. CASE Fetch(c)
  BY <1>5 DEF Fetch, Ordered, WriteKinds
<1>6. CASE Fails(c)
  BY <1>6 DEF Fails, Ordered, WriteKinds, ReadKinds, DeleteKinds
<1> QED BY <1>1, <1>2, <1>3, <1>4, <1>5, <1>6

\* What Upsert and UpsertFails do.
Batching(c, batch) ==
  /\ pc[c] = "upsert" /\ UNCHANGED <<kind, row, writes>>
  /\ todo' = [todo EXCEPT ![c] = @ \ batch] /\ \A d \in Clients \ {c} : pc'[d] = pc[d]
  /\ \/ /\ rows' = [k \in Keys |-> IF k \in batch THEN row[c] ELSE rows[k]]
        /\ \/ result' = [result EXCEPT ![c] = @ \cup batch]
           \/ result' = result /\ LostAnswers
     \/ UNCHANGED <<rows, result>>

LEMMA BatchedSteps ==
  ASSUME Base, NEW c \in Clients, Upsert(c) \/ UpsertFails(c)
  PROVE  \E batch \in SUBSET todo[c] : Batching(c, batch)
<1>1. CASE Upsert(c)
  <2>1. PICK batch \in Batches(todo[c], WriteBatch) :
          /\ rows'   = [k \in Keys |-> IF k \in batch THEN row[c] ELSE rows[k]]
          /\ result' = [result EXCEPT ![c] = @ \cup batch]
          /\ todo'   = [todo EXCEPT ![c] = @ \ batch]
          /\ pc'     = [pc EXCEPT ![c] = IF todo[c] = batch THEN "done" ELSE @]
    BY <1>1 DEF Upsert
  <2>2. batch \in SUBSET todo[c]
    BY DEF Batches, kSubset
  <2>3. Batching(c, batch)
    BY <1>1, <2>1 DEF Upsert, Batching, data, Base, Typed
  <2> QED BY <2>2, <2>3
<1>2. CASE UpsertFails(c)
  <2>1. PICK batch \in Batches(todo[c], WriteBatch) :
          /\ todo' = [todo EXCEPT ![c] = @ \ batch]
          /\ pc'   = [pc EXCEPT ![c] = IF todo[c] = batch THEN "done" ELSE @]
          /\ \/ UNCHANGED rows
             \/ LostAnswers /\ rows' = [k \in Keys |-> IF k \in batch THEN row[c]
                                                                      ELSE rows[k]]
    BY <1>2 DEF UpsertFails
  <2>2. batch \in SUBSET todo[c]
    BY DEF Batches, kSubset
  <2>3. Batching(c, batch)
    BY <1>2, <2>1 DEF UpsertFails, Batching, data, Base, Typed
  <2> QED BY <2>2, <2>3
<1> QED BY <1>1, <1>2

Records == Recorded /\ Numbered /\ Writing

LEMMA SparingRecords ==
  ASSUME Base, Records, Observe, Sparing
  PROVE  Records' /\ stored' = stored
<1>1. Recorded' /\ stored' = stored
  BY TakingAway DEF Base, Typed, Records, Sparing
<1> QED BY <1>1, Bystanding DEF Records, Sparing

LEMMA BatchingRecords ==
  ASSUME NEW c \in Clients, Base, Records, Observe, NEW batch \in SUBSET todo[c],
         Batching(c, batch)
  PROVE  Records'
<1>1. CASE UNCHANGED <<rows, result>>
  <2>1. Recorded' /\ stored' = stored
    BY <1>1, TakingAway DEF Base, Typed, Records, Batching
  <2>2. Numbered'
    BY DEF Records, Numbered, Batching
  <2>3. \A d \in Clients : (pc'[d] = "upsert" => pc[d] = "upsert") /\ todo'[d] \subseteq todo[d]
    BY DEF Batching, Base, Typed
  <2>4. Writing'
    BY <1>1, <2>1, <2>3 DEF Records, Writing, Batching
  <2> QED BY <2>1, <2>2, <2>4 DEF Records
<1>2. CASE ~UNCHANGED <<rows, result>>
  BY <1>2, BatchRecorded DEF Batching, Records
<1> QED BY <1>1, <1>2

LEMMA StepRecords == Base /\ Records /\ [HNext]_hvars => Records'
<1> SUFFICES ASSUME Base, Records, [HNext]_hvars PROVE Records'
  OBVIOUS
<1>1. CASE UNCHANGED hvars
  BY <1>1 DEF hvars, Records, Recorded, Numbered, Writing
<1>2. CASE HNext
  <2>1. ASSUME NEW c \in Clients, Begin(c) PROVE Records'
    BY <1>2, <2>1, BeginRecorded DEF HNext, Records
  <2>2. ASSUME NEW c \in Clients, Upsert(c) \/ UpsertFails(c) PROVE Records'
    BY <1>2, <2>2, BatchedSteps, BatchingRecords DEF HNext
  <2>3. ASSUME NEW c \in Clients,
               Select(c) \/ Purge(c) \/ Remove(c) \/ Ask(c) \/ Fetch(c) \/ Fails(c)
        PROVE  Records'
    BY <1>2, <2>3, OtherStepsSpare, SparingRecords DEF HNext
  <2>4. CASE Tick
    <3>1. Sparing
      BY <2>4 DEF Tick, Sparing, Untouched
    <3> QED BY <1>2, <3>1, SparingRecords DEF HNext
  <2> QED BY <1>2, <2>1, <2>2, <2>3, <2>4 DEF HNext, Next, Step, Answer
<1> QED BY <1>1, <1>2

LEMMA InitRecords == HInit => Records
BY SpecialValues DEF HInit, Init, Records, Recorded, Numbered, Writing, NoRows, WriteKinds

\* set and setMany answer true exactly for the rows they stored, whoever else
\* writes, deletes or cleans up between their batches, and a statement that
\* failed costs a true only when its answer was lost.
THEOREM WritesAnswerTruly == HSpec => []WritesTruthful
<1>1. HInit => Base /\ Records
  BY InitBase, InitRecords DEF HInit
<1>2. Base /\ Records /\ [HNext]_hvars => (Base /\ Records)'
  <2>1. [HNext]_hvars => [Next]_vars
    BY DEF HNext, hvars, vars
  <2> QED BY <2>1, StepBase, StepRecords
<1>3. Base /\ Records => WritesTruthful
  <2> SUFFICES ASSUME Base, Records, NEW c \in Clients, pc[c] = "done", kind[c] \in WriteKinds,
                      NEW k \in asked[c]
               PROVE  /\ k \in result[c] => <<k, row[c].val>> \in stored
                      /\ <<k, row[c].val>> \in stored => k \in result[c] \/ LostAnswers
    BY DEF WritesTruthful
  <2>1. k \in result[c] \/ <<k, row[c].val>> \in stored => k \in Keys
    BY DEF Base, Typed, Records, Recorded
  <2> QED BY <2>1 DEF Records, Writing
<1> QED BY <1>1, <1>2, <1>3, PTL DEF HSpec

-----------------------------------------------------------------------------
(* Clean-up. *)

LEMMA StepKeepsLiveRows ==
  ASSUME GuardedDelete, Base, [Next]_vars, NEW k \in Keys, Live(k), rows'[k] = None
  PROVE  \E c \in Clients : /\ pc[c] = "remove" /\ kind[c] # "clearExpired"
                            /\ k \in todo[c] /\ k \notin todo'[c]
<1>1. rows[k] # None /\ rows[k] \in Row /\ \A t \in Nat : t <= clock => ~Dead(rows[k], t)
  BY SpecialValues DEF Live, Dead, Base, Typed, Row, Deadline
<1>2. \A c \in Clients : ~Dead(rows[k], now[c]) /\ ~Lapsed(rows[k], now[c])
  BY <1>1 DEF Base, Typed, Ordered, Dead, Lapsed, Row, Deadline
<1>3. rows' # rows
  BY <1>1
<1>4. ASSUME NEW c \in Clients, Purge(c) PROVE FALSE
  BY <1>1, <1>2, <1>4 DEF Purge, Purged, Without
<1>5. ASSUME NEW c \in Clients, Upsert(c) \/ UpsertFails(c) PROVE FALSE
  <2>1. row[c] # None
    BY SpecialValues DEF Base, Typed
  <2> QED BY <1>1, <1>5, <2>1 DEF Upsert, UpsertFails
<1>6. ASSUME NEW c \in Clients, Remove(c)
      PROVE  /\ pc[c] = "remove" /\ kind[c] # "clearExpired"
             /\ k \in todo[c] /\ k \notin todo'[c]
  <2>1. PICK batch \in Batches(todo[c], RemoveSize(c)) :
          rows' = Without(Hit(c, batch)) /\ todo' = [todo EXCEPT ![c] = @ \ batch]
    BY <1>6 DEF Remove
  <2>2. k \in Hit(c, batch)
    BY <1>1, <2>1 DEF Without
  <2>3. kind[c] # "clearExpired" /\ k \in batch
    BY <1>2, <2>2 DEF Hit
  <2>4. batch \subseteq todo[c]
    BY DEF Batches, kSubset
  <2> QED BY <1>6, <2>1, <2>3, <2>4 DEF Remove, Base, Typed
<1> QED BY <1>3, <1>4, <1>5, <1>6
        DEF Next, Step, Answer, Tick, Begin, Select, Ask, Fetch, Fails, vars

\* With the expiry condition repeated in the clean-up DELETE, as mysql does,
\* no read and no clearExpired() ever takes a row that somebody stored in the
\* meantime: only delete, deleteMany and clear take live rows away.
THEOREM CleanUpSparesLiveRows ==
  ASSUME GuardedDelete
  PROVE  HSpec => LiveRowsKept
<1>1. HInit => Base
  BY InitBase DEF HInit
<1>2. [HNext]_hvars => [Next]_vars
  BY DEF HNext, hvars, vars
<1>3. Base /\ [HNext]_hvars => Base'
  BY <1>2, StepBase
<1>4. Base /\ [HNext]_hvars =>
        [\A k \in Keys : Live(k) /\ rows'[k] = None
           => \E c \in Clients : /\ pc[c] = "remove" /\ kind[c] # "clearExpired"
                                 /\ k \in todo[c] /\ k \notin todo'[c]]_hvars
  BY <1>2, StepKeepsLiveRows
<1> QED BY <1>1, <1>3, <1>4, PTL DEF HSpec, LiveRowsKept

-----------------------------------------------------------------------------
(* Reads. *)

ReadPlaces == {"select", "purge", "done"}

\* The step is none of this call's if it is a read.
Aside(d) == kind'[d] \in ReadKinds /\ pc'[d] \in ReadPlaces =>
  /\ kind[d] = kind'[d] /\ pc[d] \in ReadPlaces /\ ~Begins(d)
  /\ todo'[d] = todo[d] /\ found'[d] = found[d]

LEMMA ObservedTypes ==
  ASSUME Base', Reading, Observe
  PROVE  asked' \in [Clients -> SUBSET Keys] /\ gone' \in [Clients -> SUBSET Keys]
<1>1. \A d \in Clients : todo'[d] \in SUBSET Keys /\ asked[d] \in SUBSET Keys
                         /\ gone[d] \in SUBSET Keys
  BY DEF Base, Typed, Reading
<1>2. DeadKeys \subseteq Keys /\ DeadKeys' \subseteq Keys
  BY DEF DeadKeys
<1> QED BY <1>1, <1>2 DEF Observe

LEMMA ReadsAside ==
  ASSUME Reading, Observe, NEW d \in Clients, Aside(d),
         kind'[d] \in ReadKinds, pc'[d] \in ReadPlaces
  PROVE  \A k \in asked'[d] \ todo'[d] : found'[d][k] = None => k \in gone'[d]
<1>1. asked'[d] = asked[d] /\ gone[d] \subseteq gone'[d]
  BY DEF Observe, Aside
<1>2. pc[d] \in {"select", "purge", "done"} /\ kind[d] \in ReadKinds
  BY DEF Aside, ReadPlaces
<1> QED BY <1>1, <1>2 DEF Aside, Reading

LEMMA SelectReads ==
  ASSUME Base, Reading, Observe, NEW c \in Clients, Select(c)
  PROVE  \A k \in asked'[c] \ todo'[c] : found'[c][k] = None => k \in gone'[c]
<1>1. PICK batch \in Batches(todo[c], ReadBatch) :
        LET gone_ == {k \in batch : Dead(rows[k], now[c])}
        IN  /\ found' = [found EXCEPT ![c] = Keep(batch \ gone_, @)]
            /\ todo'  = [todo EXCEPT ![c] = todo[c] \ batch]
  BY DEF Select
<1>2. batch \subseteq todo[c] /\ todo[c] \subseteq Keys
  BY DEF Batches, kSubset, Base, Typed
<1>3. /\ pc[c] = "select" /\ UNCHANGED <<clock, rows>> /\ asked'[c] = asked[c]
      /\ gone'[c] = gone[c] \cup (todo[c] \cap DeadKeys')
  BY DEF Select, Observe, Begins, Pending
<1>4. todo'[c] = todo[c] \ batch
      /\ found'[c] = Keep(batch \ {k \in batch : Dead(rows[k], now[c])}, found[c])
  BY <1>1 DEF Base, Typed
<1> SUFFICES ASSUME NEW k \in asked[c] \ todo'[c], found'[c][k] = None PROVE k \in gone'[c]
  BY <1>3
<1>5. k \in Keys
  BY DEF Reading
<1>6. CASE k \in batch
  <2>1. Dead(rows[k], now[c]) \/ rows[k] = None
    BY <1>4, <1>5, <1>6 DEF Keep
  <2>2. ~Live(k)
    BY <2>1, <1>5, SpecialValues DEF Live, Dead, Base, Typed, Ordered, Row, Deadline
  <2>3. k \in DeadKeys'
    BY <1>3, <1>5, <2>2 DEF DeadKeys, Live
  <2> QED BY <1>2, <1>3, <1>6, <2>3
<1>7. CASE k \notin batch
  <2>1. k \in asked[c] \ todo[c] /\ found[c][k] = None
    BY <1>4, <1>5, <1>7 DEF Keep
  <2>2. kind[c] \in ReadKinds
    BY <1>3 DEF Base, Ordered
  <2> QED BY <1>3, <2>1, <2>2 DEF Reading
<1> QED BY <1>6, <1>7

LEMMA OtherStepsAside ==
  ASSUME Base, Next, NEW d \in Clients
  PROVE  Aside(d) \/ Begins(d) \/ Select(d)
<1> USE DEF Base, Typed, data, Aside, Begins, ReadPlaces
<1>1. CASE Tick
  BY <1>1 DEF Tick, Places
<1>2. ASSUME NEW c \in Clients, Begin(c) PROVE Aside(d) \/ Begins(d)
  <2>1. CASE c = d
    <3>1. PICK k \in Kinds[c] : pc' = [pc EXCEPT ![c] = FirstPlace(k)]
      BY <1>2 DEF Begin
    <3>2. FirstPlace(k) \notin {"idle", "done", "failed"}
      BY DEF FirstPlace
    <3> QED BY <1>2, <2>1, <3>1, <3>2 DEF Begin
  <2>2. CASE c # d
    <3>1. /\ kind'[d] = kind[d] /\ pc'[d] = pc[d] /\ todo'[d] = todo[d]
          /\ found'[d] = found[d]
      BY <1>2, <2>2 DEF Begin
    <3> QED BY <3>1
  <2> QED BY <2>1, <2>2
<1>3. ASSUME NEW c \in Clients, Select(c) PROVE Aside(d) \/ Select(d)
  <2>1. CASE c = d
    BY <1>3, <2>1
  <2>2. CASE c # d
    <3>1. /\ kind'[d] = kind[d] /\ pc'[d] = pc[d] /\ todo'[d] = todo[d]
          /\ found'[d] = found[d]
      BY <1>3, <2>2 DEF Select
    <3> QED BY <3>1
  <2> QED BY <2>1, <2>2
<1>4. ASSUME NEW c \in Clients, Purge(c) PROVE Aside(d)
  BY <1>4 DEF Purge
<1>5. ASSUME NEW c \in Clients, Upsert(c) \/ UpsertFails(c) PROVE Aside(d)
  <2>1. /\ pc[c] = "upsert" /\ kind' = kind /\ found' = found /\ kind[c] \notin ReadKinds
        /\ c # d => pc'[d] = pc[d] /\ todo'[d] = todo[d]
    BY <1>5 DEF Upsert, UpsertFails, Ordered, WriteKinds, ReadKinds
  <2> QED BY <2>1
<1>6. ASSUME NEW c \in Clients, Remove(c) PROVE Aside(d)
  <2>1. /\ pc[c] = "remove" /\ kind' = kind /\ found' = found /\ kind[c] \notin ReadKinds
        /\ c # d => pc'[d] = pc[d] /\ todo'[d] = todo[d]
    BY <1>6 DEF Remove, Ordered, DeleteKinds, ReadKinds
  <2> QED BY <2>1
<1>7. ASSUME NEW c \in Clients, Ask(c) \/ Fetch(c) PROVE Aside(d)
  BY <1>7 DEF Ask, Fetch, Ordered, ReadKinds
<1>8. ASSUME NEW c \in Clients, Fails(c) PROVE Aside(d)
  BY <1>8 DEF Fails, Ordered, ReadKinds
<1> QED BY <1>1, <1>2, <1>3, <1>4, <1>5, <1>6, <1>7, <1>8 DEF Next, Step, Answer

LEMMA StepReading == Base /\ Reading /\ [HNext]_hvars => Reading'
<1> SUFFICES ASSUME Base, Reading, [HNext]_hvars PROVE Reading'
  OBVIOUS
<1>1. CASE UNCHANGED hvars
  BY <1>1 DEF hvars, Reading
<1>2. CASE HNext
  <2>1. Base'
    BY <1>2, StepBase DEF HNext
  <2>2. asked' \in [Clients -> SUBSET Keys] /\ gone' \in [Clients -> SUBSET Keys]
    BY <1>2, <2>1, ObservedTypes DEF HNext
  <2>3. ASSUME NEW d \in Clients, kind'[d] \in ReadKinds, pc'[d] \in {"select", "purge", "done"}
        PROVE  \A k \in asked'[d] \ todo'[d] : found'[d][k] = None => k \in gone'[d]
    <3>1. CASE Aside(d)
      BY <1>2, <2>3, <3>1, ReadsAside DEF HNext, ReadPlaces
    <3>2. CASE Begins(d)
      BY <1>2, <3>2 DEF HNext, Observe
    <3>3. CASE Select(d)
      BY <1>2, <3>3, SelectReads DEF HNext
    <3> QED BY <1>2, <3>1, <3>2, <3>3, OtherStepsAside DEF HNext
  <2> QED BY <2>2, <2>3 DEF Reading
<1> QED BY <1>1, <1>2

\* A read reports a key missing only if at some moment of the call there was
\* no live row under it, for any batches and any interleaving with writers,
\* deleters and other readers' clean-up.
THEOREM MissesAreJustified == HSpec => []MissesJustified
<1>1. HInit => Base /\ Reading
  BY InitBase DEF HInit, Init, Reading
<1>2. Base /\ Reading /\ [HNext]_hvars => (Base /\ Reading)'
  <2>1. [HNext]_hvars => [Next]_vars
    BY DEF HNext, hvars, vars
  <2> QED BY <2>1, StepBase, StepReading
<1>3. Base /\ Reading => MissesJustified
  <2> SUFFICES ASSUME Base, Reading, NEW c \in Clients, pc[c] = "done", kind[c] \in ReadKinds
               PROVE  \A k \in asked[c] : found[c][k] = None => k \in gone[c]
    BY DEF MissesJustified
  <2>1. todo[c] = {}
    BY DEF Base, Ordered
  <2> QED BY <2>1 DEF Reading
<1> QED BY <1>1, <1>2, <1>3, PTL DEF HSpec

-----------------------------------------------------------------------------
(* Deletes.  A row in the table is one that no delete has answered for yet. *)

Under(pairs, k) == {p \in pairs : p[1] = k}
Here(r)         == IF r = None THEN 0 ELSE 1
NewTrues(k)     == {c \in Clients : k \in NewlyTrue(c)}

Conserved == /\ answered \in [Keys -> Nat]
             /\ \A k \in Keys : answered[k] + Here(rows[k]) <= Cardinality(Under(stored, k))

LEMMA UnderFinite ==
  ASSUME Base, Recorded, NEW k \in Keys
  PROVE  IsFiniteSet(Under(stored, k)) /\ Cardinality(Under(stored, k)) \in Nat
<1>1. IsFiniteSet(Keys \X (0 .. writes))
  <2>1. writes \in Int
    BY DEF Base, Typed
  <2>2. IsFiniteSet(0 .. writes)
    BY <2>1, FS_Interval
  <2> QED BY <2>2, KeysAssumption, FS_Product
<1>2. Under(stored, k) \subseteq Keys \X (0 .. writes)
  BY DEF Under, Recorded
<1> QED BY <1>1, <1>2, FS_Subset, FS_CardinalityType

\* The step answers true for no delete.
LEMMA SameAnswers ==
  ASSUME Conserved, Observe, \A k \in Keys : NewTrues(k) = {}
  PROVE  answered' = answered
<1>1. \A k \in Keys : answered'[k] = answered[k] + 0
  BY FS_EmptySet DEF Observe, NewTrues
<1>2. answered' = [k \in Keys |-> answered'[k]] /\ answered = [k \in Keys |-> answered[k]]
  BY DEF Conserved, Observe
<1>3. \A k \in Keys : answered'[k] = answered[k]
  BY <1>1 DEF Conserved
<1> QED BY <1>2, <1>3

LEMMA NothingAnswered ==
  ASSUME Base, Recorded, Conserved, Observe, stored' = stored,
         \A k \in Keys : rows'[k] \in {rows[k], None}, \A k \in Keys : NewTrues(k) = {}
  PROVE  Conserved'
<1>1. answered' = answered
  BY SameAnswers
<1>2. ASSUME NEW k \in Keys
      PROVE  answered[k] + Here(rows'[k]) <= Cardinality(Under(stored, k))
  <2>1. Here(rows'[k]) \in Nat /\ Here(rows[k]) \in Nat /\ Here(rows'[k]) <= Here(rows[k])
    BY DEF Here
  <2>2. answered[k] \in Nat /\ Cardinality(Under(stored, k)) \in Nat
        /\ answered[k] + Here(rows[k]) <= Cardinality(Under(stored, k))
    BY UnderFinite DEF Conserved
  <2> QED BY <2>1, <2>2
<1> QED BY <1>1, <1>2 DEF Conserved

\* A delete answers true for the rows it takes away.
LEMMA RemoveConserves ==
  ASSUME Base, Recorded, Conserved, Observe, NEW c \in Clients, Remove(c), stored' = stored
  PROVE  Conserved'
<1>1. PICK batch \in Batches(todo[c], RemoveSize(c)) :
        /\ rows'   = Without(Hit(c, batch))
        /\ result' = [result EXCEPT ![c] = @ \cup Returned(c, batch)]
  BY DEF Remove
<1>2. ASSUME NEW k \in Keys
      PROVE  /\ answered'[k] \in Nat
             /\ answered'[k] + Here(rows'[k]) <= Cardinality(Under(stored, k))
  <2>1. NewTrues(k) \subseteq {c}
    BY <1>1 DEF NewTrues, NewlyTrue, Base, Typed
  <2>2. c \in NewTrues(k) => rows[k] # None /\ rows'[k] = None
    BY <1>1 DEF NewTrues, NewlyTrue, Returned, Hit, Without, Base, Typed
  <2>3. rows'[k] \in {rows[k], None}
    BY <1>1 DEF Without
  <2>4. answered'[k] = answered[k] + Cardinality(NewTrues(k))
    BY DEF Observe, NewTrues
  <2>5. answered[k] \in Nat /\ Cardinality(Under(stored, k)) \in Nat
        /\ answered[k] + Here(rows[k]) <= Cardinality(Under(stored, k))
    BY UnderFinite DEF Conserved
  <2>6. CASE NewTrues(k) = {}
    BY <2>3, <2>4, <2>5, <2>6, FS_EmptySet DEF Here
  <2>7. CASE NewTrues(k) = {c}
    <3>1. Cardinality(NewTrues(k)) = 1
      BY <2>7, FS_Singleton
    <3> QED BY <2>2, <2>4, <2>5, <2>7, <3>1 DEF Here
  <2> QED BY <2>1, <2>6, <2>7
<1> QED BY <1>2 DEF Conserved, Observe

\* A batch that is stored puts one pair on record for each of its keys.
LEMMA BatchConserves ==
  ASSUME Base, Recorded, Conserved, Observe, NEW c \in Clients, NEW batch \in SUBSET Keys,
         row[c] # None, rows' = [k \in Keys |-> IF k \in batch THEN row[c] ELSE rows[k]],
         stored' = stored \cup (batch \X {row[c].val}),
         \A k \in batch : <<k, row[c].val>> \notin stored,
         \A k \in Keys : NewTrues(k) = {}
  PROVE  Conserved'
<1> DEFINE v == row[c].val
<1>1. answered' = answered
  BY SameAnswers
<1>2. ASSUME NEW k \in Keys
      PROVE  answered[k] + Here(rows'[k]) <= Cardinality(Under(stored', k))
  <2>1. IsFiniteSet(Under(stored, k)) /\ Cardinality(Under(stored, k)) \in Nat
        /\ answered[k] \in Nat /\ answered[k] + Here(rows[k]) <= Cardinality(Under(stored, k))
    BY UnderFinite DEF Conserved
  <2>2. CASE k \in batch
    <3>1. Under(stored', k) = Under(stored, k) \cup {<<k, v>>}
      BY <2>2 DEF Under
    <3>2. <<k, v>> \notin Under(stored, k)
      BY <2>2 DEF Under
    <3>3. Cardinality(Under(stored', k)) = Cardinality(Under(stored, k)) + 1
      BY <2>1, <3>1, <3>2, FS_AddElement
    <3> QED BY <2>1, <3>3 DEF Here
  <2>3. CASE k \notin batch
    <3>1. Under(stored', k) = Under(stored, k)
      BY <2>3 DEF Under
    <3> QED BY <2>1, <2>3, <3>1
  <2> QED BY <2>2, <2>3
<1> QED BY <1>1, <1>2 DEF Conserved

LEMMA BatchingConserves ==
  ASSUME Base, Records, Conserved, Observe, NEW c \in Clients, NEW batch \in SUBSET todo[c],
         Batching(c, batch)
  PROVE  Conserved'
<1>1. kind[c] \notin DeleteKinds /\ row[c] \in Row /\ batch \subseteq Keys
  BY DEF Batching, Base, Typed, Ordered, WriteKinds, DeleteKinds
<1>2. \A k \in Keys : NewTrues(k) = {}
  BY <1>1 DEF NewTrues, NewlyTrue, Batching, DeleteKinds, Base, Typed
<1>3. CASE UNCHANGED <<rows, result>>
  <2>1. stored' = stored
    BY <1>3, TakingAway DEF Base, Typed, Records, Batching
  <2> QED BY <1>2, <1>3, <2>1, NothingAnswered DEF Records
<1>4. CASE ~UNCHANGED <<rows, result>>
  <2>1. /\ stored' = stored \cup (batch \X {row[c].val})
        /\ \A k \in batch : <<k, row[c].val>> \notin stored
    BY <1>4, BatchRecorded DEF Batching, Records
  <2>2. row[c] # None
    BY <1>1, SpecialValues
  <2>3. rows' = [k \in Keys |-> IF k \in batch THEN row[c] ELSE rows[k]]
    BY <1>4 DEF Batching
  <2> QED BY <1>1, <1>2, <2>1, <2>2, <2>3, BatchConserves DEF Records
<1> QED BY <1>3, <1>4

LEMMA StepConserves == Base /\ Records /\ Conserved /\ [HNext]_hvars => Conserved'
<1> SUFFICES ASSUME Base, Records, Conserved, [HNext]_hvars PROVE Conserved'
  OBVIOUS
<1>1. CASE UNCHANGED hvars
  BY <1>1 DEF hvars, Conserved, Under, Here
<1>2. CASE HNext
  <2>1. ASSUME NEW c \in Clients, Begin(c) PROVE Conserved'
    <3>1. stored' = stored /\ rows' = rows
      BY <1>2, <2>1, BeginRecorded DEF HNext, Records, Begin
    <3>2. Begins(c)
      <4>1. PICK k \in Kinds[c] : pc' = [pc EXCEPT ![c] = FirstPlace(k)]
        BY <2>1 DEF Begin
      <4>2. FirstPlace(k) \notin {"idle", "done", "failed"}
        BY DEF FirstPlace
      <4> QED BY <2>1, <4>1, <4>2 DEF Begin, Begins, Base, Typed
    <3>3. \A d \in Clients \ {c} : result'[d] = result[d]
      BY <2>1 DEF Begin
    <3>4. \A k \in Keys : NewTrues(k) = {}
      BY <3>2, <3>3 DEF NewTrues, NewlyTrue
    <3> QED BY <1>2, <3>1, <3>4, NothingAnswered DEF HNext, Records
  <2>2. ASSUME NEW c \in Clients, Upsert(c) \/ UpsertFails(c) PROVE Conserved'
    BY <1>2, <2>2, BatchedSteps, BatchingConserves DEF HNext
  <2>3. ASSUME NEW c \in Clients, Remove(c) PROVE Conserved'
    <3>1. stored' = stored
      BY <1>2, <2>3, OtherStepsSpare, SparingRecords DEF HNext
    <3> QED BY <1>2, <2>3, <3>1, RemoveConserves DEF HNext, Records
  <2>4. ASSUME NEW c \in Clients, Select(c) \/ Purge(c) \/ Ask(c) \/ Fetch(c) \/ Fails(c)
        PROVE  Conserved'
    <3>1. Sparing
      BY <2>4, OtherStepsSpare
    <3>2. stored' = stored /\ result' = result
      BY <1>2, <2>4, <3>1, SparingRecords DEF HNext, Select, Purge, Ask, Fetch, Fails
    <3>3. \A k \in Keys : NewTrues(k) = {}
      BY <3>2 DEF NewTrues, NewlyTrue
    <3> QED BY <1>2, <3>1, <3>2, <3>3, NothingAnswered DEF HNext, Records, Sparing
  <2>5. CASE Tick
    <3>1. Sparing
      BY <2>5 DEF Tick, Sparing, Untouched
    <3>2. stored' = stored /\ result' = result
      BY <1>2, <2>5, <3>1, SparingRecords DEF HNext, Tick
    <3>3. \A k \in Keys : NewTrues(k) = {}
      BY <3>2 DEF NewTrues, NewlyTrue
    <3> QED BY <1>2, <3>1, <3>2, <3>3, NothingAnswered DEF HNext, Records, Sparing
  <2> QED BY <1>2, <2>1, <2>2, <2>3, <2>4, <2>5 DEF HNext, Next, Step, Answer
<1> QED BY <1>1, <1>2

LEMMA InitConserved == HInit => Conserved
<1> SUFFICES ASSUME HInit PROVE Conserved
  OBVIOUS
<1>1. answered = [j \in Keys |-> 0]
  BY DEF HInit
<1>2. \A k \in Keys : Under(stored, k) = {} /\ rows[k] = None
  BY DEF HInit, Init, Under, NoRows
<1> QED BY <1>1, <1>2, FS_EmptySet DEF Conserved, Here

\* No two deletes take credit for one row: of all the deletes of a key, in any
\* number of callers, no more answer true than rows were stored under it.
THEOREM DeletesCreditOnce == HSpec => []DeletesConserved
<1>1. HInit => Base /\ Records /\ Conserved
  BY InitBase, InitRecords, InitConserved DEF HInit
<1>2. Base /\ Records /\ Conserved /\ [HNext]_hvars => (Base /\ Records /\ Conserved)'
  <2>1. [HNext]_hvars => [Next]_vars
    BY DEF HNext, hvars, vars
  <2> QED BY <2>1, StepBase, StepRecords, StepConserves
<1>3. Base /\ Records /\ Conserved => DeletesConserved
  <2> SUFFICES ASSUME Base, Records, Conserved, NEW k \in Keys
               PROVE  answered[k] <= Cardinality({p \in stored : p[1] = k})
    BY DEF DeletesConserved
  <2>1. answered[k] \in Nat /\ Here(rows[k]) \in Nat /\ Cardinality(Under(stored, k)) \in Nat
        /\ answered[k] + Here(rows[k]) <= Cardinality(Under(stored, k))
    BY UnderFinite DEF Conserved, Here, Records
  <2>2. answered[k] <= Cardinality(Under(stored, k))
    BY <2>1
  <2> QED BY <2>2 DEF Under
<1> QED BY <1>1, <1>2, <1>3, PTL DEF HSpec

-----------------------------------------------------------------------------
(* Iterators.  Pages are cut off by the number of keys below a key; that a   *)
(* page that is not full is the last needs a least key beyond it, and that   *)
(* a page has a last key, which becomes the cursor, a greatest.              *)

\* A set of numbers with a member has a least one.
LEMMA Least ==
  ASSUME NEW T \in SUBSET Nat, T # {}
  PROVE  \E n \in T : \A m \in T : n <= m
<1> DEFINE R == {ss \in Nat \X Nat : ss[1] < ss[2]}
<1>1. IsWellFoundedOn(R, Nat)
  BY NatLessThanWellFounded, Zenon DEF OpToRel
<1>2. PICK n \in T : \A m \in T : <<m, n>> \notin R
  <2> HIDE DEF R
  <2> QED BY <1>1, WFMin
<1>3. \A m \in T : ~(m < n)
  BY <1>2
<1> QED BY <1>3

Topped(T) == \E n \in T : \A m \in T : n >= m

\* A finite set of numbers with a member has a greatest one: a smallest set
\* without one would have one as soon as a member is put aside.
LEMMA Greatest ==
  ASSUME NEW S \in SUBSET Nat, IsFiniteSet(S), S # {}
  PROVE  Topped(S)
<1> DEFINE Sizes == {n \in Nat : \E T \in SUBSET S : T # {} /\ ~Topped(T) /\ Cardinality(T) = n}
<1> SUFFICES ASSUME ~Topped(S) PROVE FALSE
  OBVIOUS
<1>1. Cardinality(S) \in Sizes
  BY FS_CardinalityType
<1>2. PICK n \in Sizes : \A m \in Sizes : n <= m
  <2> HIDE DEF Sizes
  <2>1. Sizes \in SUBSET Nat
    BY DEF Sizes
  <2> QED BY <1>1, <2>1, Least
<1>3. PICK T \in SUBSET S : T # {} /\ ~Topped(T) /\ Cardinality(T) = n
  OBVIOUS
<1>4. PICK x \in T : TRUE
  BY <1>3
<1>5. IsFiniteSet(T) /\ IsFiniteSet(T \ {x}) /\ T \ {x} \in SUBSET S
  BY FS_Subset
<1>6. Cardinality(T \ {x}) = n - 1 /\ n \in Nat /\ Cardinality(T \ {x}) \in Nat
  BY <1>3, <1>4, <1>5, FS_RemoveElement, FS_CardinalityType
<1>7. ~(n <= n - 1)
  BY <1>6
<1>8. Cardinality(T \ {x}) \notin Sizes
  <2> HIDE DEF Sizes
  <2> QED BY <1>2, <1>6, <1>7
<1>9. T \ {x} = {} \/ Topped(T \ {x})
  BY <1>5, <1>6, <1>8
<1>10. x \in Nat /\ T \subseteq Nat
  OBVIOUS
<1>11. CASE T \ {x} = {}
  BY <1>3, <1>4, <1>10, <1>11 DEF Topped
<1>12. CASE Topped(T \ {x})
  <2>1. PICK m \in T \ {x} : \A y \in T \ {x} : m >= y
    BY <1>12 DEF Topped
  <2>2. CASE m >= x
    BY <1>3, <1>10, <2>1, <2>2 DEF Topped
  <2>3. CASE ~(m >= x)
    <3>1. \A y \in T : x >= y
      BY <1>10, <2>1, <2>3
    <3> QED BY <1>3, <1>4, <3>1 DEF Topped
  <2> QED BY <2>2, <2>3
<1> QED BY <1>9, <1>11, <1>12

\* The keys a listing has yet to come to, below k.
Below(c, k) == {j \in After(c) : j < k}

LEMMA BelowFinite ==
  ASSUME NEW c \in Clients, NEW k
  PROVE  /\ IsFiniteSet(Below(c, k)) /\ Cardinality(Below(c, k)) \in Nat
         /\ IsFiniteSet(Page(c)) /\ Cardinality(Page(c)) \in Nat
         /\ After(c) \in SUBSET Nat /\ Page(c) \in SUBSET Nat
<1>1. Below(c, k) \subseteq Keys /\ Page(c) \subseteq Keys /\ After(c) \subseteq Keys
  BY DEF Below, After, Page
<1> QED BY <1>1, KeysAssumption, FS_Subset, FS_CardinalityType

LEMMA LastOfPage ==
  ASSUME NEW c \in Clients, Page(c) # {}
  PROVE  Max(Page(c)) \in Page(c) /\ \A k \in Page(c) : Max(Page(c)) >= k
<1>1. Page(c) \in SUBSET Nat /\ IsFiniteSet(Page(c))
  BY BelowFinite
<1>2. Topped(Page(c))
  BY <1>1, Greatest
<1> HIDE DEF Page
<1> QED BY <1>2 DEF Topped, Max

\* A page goes up to its last key without a gap.
LEMMA PageHasNoGap ==
  ASSUME NEW c \in Clients, Page(c) # {}, NEW k \in After(c), k <= Max(Page(c))
  PROVE  k \in Page(c)
<1>1. Page(c) \in SUBSET Nat /\ IsFiniteSet(Page(c)) /\ k \in Nat /\ Limit \in Nat
  BY BelowFinite, SizeAssumption
<1> DEFINE m == Max(Page(c))
<1>3. m \in Page(c)
  BY LastOfPage
<1>4. m \in Nat
  BY <1>1, <1>3
<1>5. Below(c, k) \subseteq Below(c, m)
  <2> SUFFICES ASSUME NEW j \in After(c), j < k PROVE j < m
    BY DEF Below
  <2>1. j \in Nat /\ k <= m
    BY BelowFinite
  <2> HIDE DEF m
  <2> QED BY <1>1, <1>4, <2>1
<1>6. Cardinality(Below(c, m)) < Limit
  <2> HIDE DEF m
  <2> QED BY <1>3 DEF Page, Below
<1> HIDE DEF m
<1>7. Cardinality(Below(c, k)) <= Cardinality(Below(c, m))
  BY <1>5, BelowFinite, FS_Subset
<1>8. Cardinality(Below(c, k)) < Limit
  BY <1>1, <1>6, <1>7, BelowFinite
<1> QED BY <1>8 DEF Page, Below

\* A page that is not full has all the keys there are: the least key beyond it
\* would have had a place on it.
LEMMA ShortPageIsLast ==
  ASSUME NEW c \in Clients, Cardinality(Page(c)) < Limit
  PROVE  After(c) \subseteq Page(c)
<1> DEFINE Beyond == After(c) \ Page(c)
<1> SUFFICES ASSUME Beyond # {} PROVE FALSE
  OBVIOUS
<1>1. Beyond \in SUBSET Nat
  BY BelowFinite
<1>2. PICK k \in Beyond : \A m \in Beyond : k <= m
  <2> HIDE DEF Beyond
  <2> QED BY <1>1, Least
<1>3. Below(c, k) \subseteq Page(c)
  <2> SUFFICES ASSUME NEW j \in After(c), j < k, j \notin Page(c) PROVE FALSE
    BY DEF Below
  <2>1. j \in Beyond /\ j \in Nat /\ k \in Nat
    BY <1>1
  <2> HIDE DEF Beyond
  <2> QED BY <1>2, <2>1
<1>4. Cardinality(Below(c, k)) <= Cardinality(Page(c))
  BY <1>3, BelowFinite, FS_Subset
<1>5. Limit \in Nat
  BY SizeAssumption
<1>6. Cardinality(Below(c, k)) < Limit
  BY <1>4, <1>5, BelowFinite
<1> QED BY <1>6 DEF Page, Below

\* An error ends an iterator with an error (mysql), or there are none.
ErrorsSurface == GuardedDelete \/ ~QueriesFail

Cursors == cursor \in [Clients -> Nat] /\ yielded \in [Clients -> SUBSET Keys]

\* Up to its cursor an iterator has yielded all that stayed, beyond it nothing.
PagedAt(d) ==
  /\ gone[d] \in SUBSET Keys
  /\ \A k \in yielded[d] : k <= cursor[d]
  /\ twice[d] = {}
  /\ pc[d] \in {"ask", "fetch"} =>
       /\ DeadKeys \subseteq gone[d]
       /\ \A k \in Keys \ gone[d] : k <= cursor[d] => k \in yielded[d]
  /\ pc[d] = "done" /\ kind[d] = "iterator" => Keys \ gone[d] \subseteq yielded[d]

Paging == Cursors /\ \A c \in Clients : PagedAt(c)

\* What c does is nothing to an iterator of d.
Elsewhere(d) == /\ kind'[d] = kind[d] /\ cursor'[d] = cursor[d] /\ yielded'[d] = yielded[d]
                /\ pc[d] \in {"idle", "done", "failed"} => pc'[d] = pc[d]
                /\ \/ pc'[d] = pc[d]
                   \/ pc[d] = "ask" /\ pc'[d] = "fetch"
                   \/ kind[d] # "iterator" /\ pc[d] \notin {"ask", "fetch"}
                        /\ pc'[d] \notin {"ask", "fetch"}
                   \/ pc'[d] = "failed"

LEMMA StepsElsewhere ==
  ASSUME ErrorsSurface, Base, Next, NEW d \in Clients
  PROVE  Elsewhere(d) \/ Begin(d) \/ Fetch(d)
<1> USE DEF Base, Typed, data, Elsewhere
<1>1. CASE Tick
  BY <1>1 DEF Tick
<1>2. ASSUME NEW c \in Clients, Begin(c) PROVE Elsewhere(d) \/ Begin(d)
  <2>1. CASE c # d
    <3>1. /\ kind'[d] = kind[d] /\ pc'[d] = pc[d] /\ cursor'[d] = cursor[d]
          /\ yielded'[d] = yielded[d]
      BY <1>2, <2>1 DEF Begin
    <3> QED BY <3>1
  <2> QED BY <1>2, <2>1
<1>3. ASSUME NEW c \in Clients, Select(c) PROVE Elsewhere(d)
  <2>1. kind[c] # "iterator" /\ pc[c] = "select" /\ pc'[c] \in {"purge", "select", "done"}
    BY <1>3 DEF Select, Ordered, ReadKinds
  <2>2. UNCHANGED <<kind, cursor, yielded>> /\ (c # d => pc'[d] = pc[d])
    BY <1>3 DEF Select
  <2> QED BY <2>1, <2>2
<1>4. ASSUME NEW c \in Clients, Purge(c) PROVE Elsewhere(d)
  BY <1>4 DEF Purge, Ordered, ReadKinds
<1>5. ASSUME NEW c \in Clients, Upsert(c) \/ UpsertFails(c) \/ Remove(c) PROVE Elsewhere(d)
  <2>1. kind[c] # "iterator" /\ pc[c] \in {"upsert", "remove"} /\ pc'[c] \in {"done", pc[c]}
    BY <1>5 DEF Upsert, UpsertFails, Remove, Ordered, WriteKinds, DeleteKinds
  <2>2. UNCHANGED <<kind, cursor, yielded>> /\ (c # d => pc'[d] = pc[d])
    BY <1>5 DEF Upsert, UpsertFails, Remove
  <2> QED BY <2>1, <2>2
<1>6. ASSUME NEW c \in Clients, Ask(c) PROVE Elsewhere(d)
  BY <1>6 DEF Ask
<1>7. ASSUME NEW c \in Clients, Fetch(c) PROVE Elsewhere(d) \/ Fetch(d)
  <2>1. CASE c # d
    <3>1. /\ kind' = kind /\ pc'[d] = pc[d] /\ cursor'[d] = cursor[d]
          /\ yielded'[d] = yielded[d]
      BY <1>7, <2>1 DEF Fetch
    <3> QED BY <3>1
  <2> QED BY <1>7, <2>1
<1>8. ASSUME NEW c \in Clients, Fails(c) PROVE Elsewhere(d)
  BY <1>8 DEF Fails, ErrorsSurface
<1> QED BY <1>1, <1>2, <1>3, <1>4, <1>5, <1>6, <1>7, <1>8 DEF Next, Step, Answer

LEMMA ElsewherePages ==
  ASSUME Base, Base', Paging, Observe, NEW d \in Clients, Elsewhere(d), ~Begins(d)
  PROVE  PagedAt(d)'
<1>1. gone'[d] = gone[d] \cup (Pending(d) \cap DeadKeys')
  BY DEF Observe
<1>2. DeadKeys' \subseteq Keys
  BY DEF DeadKeys
<1>3. PagedAt(d)
  BY DEF Paging
<1>4. cursor'[d] = cursor[d] /\ yielded'[d] = yielded[d] /\ kind'[d] = kind[d]
  BY DEF Elsewhere
<1>5. twice'[d] = {}
  <2>1. twice'[d] = Delivered(d) \cap yielded[d]
    BY <1>3 DEF Observe, PagedAt
  <2>2. ASSUME NEW k \in Page(d) PROVE k \notin yielded[d]
    <3>1. k \in Nat /\ cursor[d] \in Nat /\ k > cursor[d]
      BY KeysAssumption DEF Page, After, Paging, Cursors
    <3> QED BY <1>3, <3>1 DEF PagedAt
  <2> QED BY <2>1, <2>2 DEF Delivered
<1>6. ASSUME pc'[d] \in {"ask", "fetch"}
      PROVE  /\ DeadKeys' \subseteq gone'[d]
             /\ \A k \in Keys \ gone'[d] : k <= cursor[d] => k \in yielded[d]
  <2>1. pc[d] \in {"ask", "fetch"}
    BY <1>6 DEF Elsewhere
  <2>2. gone'[d] = gone[d] \cup DeadKeys'
    BY <1>1, <1>2, <2>1 DEF Pending
  <2> QED BY <1>3, <2>1, <2>2 DEF PagedAt
<1>7. ASSUME pc'[d] = "done", kind[d] = "iterator" PROVE Keys \ gone'[d] \subseteq yielded[d]
  <2>1. pc[d] = "done"
    BY <1>7 DEF Elsewhere
  <2> QED BY <1>1, <1>3, <1>7, <2>1 DEF PagedAt
<1>8. gone'[d] \in SUBSET Keys
  BY <1>1, <1>2, <1>3 DEF PagedAt
<1> QED BY <1>3, <1>4, <1>5, <1>6, <1>7, <1>8 DEF PagedAt

LEMMA BeginPages ==
  ASSUME Base, Paging, Observe, NEW d \in Clients, Begin(d)
  PROVE  PagedAt(d)'
<1>1. PICK k \in Kinds[d] : pc' = [pc EXCEPT ![d] = FirstPlace(k)]
  BY DEF Begin
<1>2. FirstPlace(k) \notin {"idle", "done", "failed"}
  BY DEF FirstPlace
<1>3. Begins(d) /\ pc'[d] \notin {"idle", "done", "failed"}
  BY <1>1, <1>2 DEF Begins, Begin, Base, Typed
<1>4. gone'[d] = DeadKeys /\ twice'[d] = {}
  BY <1>3 DEF Observe
<1>5. cursor'[d] = 0 /\ yielded'[d] = {} /\ DeadKeys' = DeadKeys
  BY DEF Begin, Paging, Cursors, DeadKeys, Live
<1>6. \A k1 \in Keys : ~(k1 <= 0)
  BY KeysAssumption
<1> QED BY <1>3, <1>4, <1>5, <1>6 DEF PagedAt, DeadKeys

LEMMA FetchPages ==
  ASSUME Base, Paging, Observe, NEW d \in Clients, Fetch(d)
  PROVE  PagedAt(d)'
<1>1. PagedAt(d) /\ pc[d] = "fetch"
  BY DEF Paging, Fetch
<1>2. /\ yielded'[d] = yielded[d] \cup Page(d)
      /\ cursor'[d] = IF Page(d) = {} THEN cursor[d] ELSE Max(Page(d))
      /\ pc'[d] = IF Cardinality(Page(d)) < Limit THEN "done" ELSE "ask"
  BY DEF Fetch, Paging, Cursors, Base, Typed
<1>3. gone'[d] = gone[d] \cup (Keys \cap DeadKeys') /\ gone[d] \subseteq gone'[d]
  BY <1>1 DEF Observe, Begins, Pending
<1>4. ASSUME NEW k \in Keys \ gone'[d], k > cursor[d] PROVE k \in After(d)
  <2>1. k \notin DeadKeys
    BY <1>1, <1>3, <1>4 DEF PagedAt
  <2>2. rows[k] # None /\ ~Dead(rows[k], clock) /\ rows[k] \in Row \cup {None}
    BY <2>1, <1>4 DEF DeadKeys, Live, Base, Typed
  <2>3. ~Dead(rows[k], now[d])
    BY <2>2, SpecialValues DEF Dead, Row, Deadline, Base, Typed, Ordered
  <2> QED BY <1>4, <2>2, <2>3 DEF After
<1>5. \A k \in Page(d) : k \in After(d) /\ k \in Nat /\ k \in Keys /\ k > cursor[d]
  BY KeysAssumption DEF Page, After
<1>6. cursor[d] \in Nat /\ yielded[d] \in SUBSET Keys /\ Keys \subseteq Nat
  BY KeysAssumption DEF Paging, Cursors
<1>7. Page(d) # {} => Max(Page(d)) \in Page(d) /\ \A k \in Page(d) : Max(Page(d)) >= k
  BY LastOfPage
<1>8. cursor'[d] \in Nat /\ cursor'[d] >= cursor[d]
  BY <1>2, <1>5, <1>6, <1>7
<1>9. \A k \in yielded'[d] : k <= cursor'[d]
  <2>1. ASSUME NEW k \in yielded[d] PROVE k <= cursor'[d]
    <3>1. k \in Nat /\ k <= cursor[d]
      BY <1>1, <1>6 DEF PagedAt
    <3> QED BY <1>6, <1>8, <3>1
  <2>2. ASSUME NEW k \in Page(d) PROVE k <= cursor'[d]
    BY <1>2, <1>5, <1>7
  <2> QED BY <1>2, <2>1, <2>2
<1>10. twice'[d] = {}
  <2>1. ASSUME NEW k \in Page(d) PROVE k \notin yielded[d]
    BY <1>1, <1>5, <1>6 DEF PagedAt
  <2> QED BY <1>1, <2>1 DEF Observe, Delivered, Begins, PagedAt
<1>11. ASSUME NEW k \in Keys \ gone'[d], k <= cursor'[d] PROVE k \in yielded'[d]
  <2>1. CASE k <= cursor[d]
    BY <1>1, <1>2, <1>3, <2>1 DEF PagedAt
  <2>2. CASE k > cursor[d]
    <3>1. Page(d) # {} /\ cursor'[d] = Max(Page(d))
      BY <1>2, <1>6, <1>11, <2>2
    <3>2. k \in After(d) /\ k <= Max(Page(d))
      BY <1>4, <1>11, <2>2, <3>1
    <3>3. k \in Page(d)
      BY <3>1, <3>2, PageHasNoGap
    <3> QED BY <1>2, <3>3
  <2> QED BY <1>6, <2>1, <2>2
<1>12. ASSUME pc'[d] = "done" PROVE Keys \ gone'[d] \subseteq yielded'[d]
  <2> SUFFICES ASSUME NEW k \in Keys \ gone'[d] PROVE k \in yielded'[d]
    OBVIOUS
  <2>1. CASE k <= cursor[d]
    BY <1>1, <1>2, <1>3, <2>1 DEF PagedAt
  <2>2. CASE k > cursor[d]
    <3>1. k \in After(d) /\ Cardinality(Page(d)) < Limit
      BY <1>2, <1>4, <1>12, <2>2
    <3> QED BY <1>2, <3>1, ShortPageIsLast
  <2> QED BY <1>6, <2>1, <2>2
<1>13. gone'[d] \in SUBSET Keys /\ DeadKeys' \subseteq gone'[d]
  BY <1>1, <1>3 DEF DeadKeys, PagedAt
<1> QED BY <1>9, <1>10, <1>11, <1>12, <1>13 DEF PagedAt

\* cursor and yielded change by Begin and Fetch alone.
LEMMA StepCursors ==
  ASSUME Base, Paging, Next
  PROVE  Cursors'
<1> USE DEF Paging, Cursors
<1>1. CASE UNCHANGED <<cursor, yielded>>
  BY <1>1
<1>2. ASSUME NEW c \in Clients, Begin(c) PROVE Cursors'
  BY <1>2 DEF Begin
<1>3. ASSUME NEW c \in Clients, Fetch(c) PROVE Cursors'
  <2>1. Page(c) \subseteq Keys /\ Page(c) \subseteq Nat
    BY KeysAssumption DEF Page, After
  <2>2. Page(c) # {} => Max(Page(c)) \in Nat
    BY <2>1, LastOfPage
  <2> QED BY <1>3, <2>1, <2>2 DEF Fetch
<1>4. Next => UNCHANGED <<cursor, yielded>> \/ \E c \in Clients : Begin(c) \/ Fetch(c)
  BY DEF Next, Step, Answer, Tick, Select, Purge, Upsert, Remove, Ask, UpsertFails, Fails
<1> QED BY <1>1, <1>2, <1>3, <1>4

LEMMA StepPaging ==
  ASSUME ErrorsSurface, Base, Paging, [HNext]_hvars
  PROVE  Paging'
<1>1. CASE UNCHANGED hvars
  BY <1>1 DEF hvars, Paging, Cursors, PagedAt, DeadKeys, Live
<1>2. CASE HNext
  <2>1. Base' /\ Cursors' /\ Next /\ Observe
    BY <1>2, StepBase, StepCursors DEF HNext
  <2>2. ASSUME NEW d \in Clients PROVE PagedAt(d)'
    <3>1. CASE Begin(d)
      BY <2>1, <3>1, BeginPages
    <3>2. CASE Fetch(d)
      BY <2>1, <3>2, FetchPages
    <3>3. CASE Elsewhere(d)
      <4>1. ~Begins(d)
        BY <3>3 DEF Begins, Elsewhere
      <4> QED BY <2>1, <3>3, <4>1, ElsewherePages
    <3> QED BY <2>1, <3>1, <3>2, <3>3, StepsElsewhere
  <2> QED BY <2>1, <2>2 DEF Paging
<1> QED BY <1>1, <1>2

\* An iterator that came to its end has yielded every key that was live all
\* along, and none twice, for any limit of a page and however often others put, delete or refresh
\* rows between two pages; unless the adapter ends it quietly on an error.
THEOREM IteratorsComplete ==
  ASSUME ErrorsSurface
  PROVE  HSpec => []IteratorComplete
<1>1. HInit => Base /\ Paging
  <2>1. HInit => Paging
    BY DEF HInit, Init, Paging, Cursors, PagedAt
  <2> QED BY <2>1, InitBase DEF HInit
<1>2. Base /\ Paging /\ [HNext]_hvars => (Base /\ Paging)'
  <2>1. [HNext]_hvars => [Next]_vars
    BY DEF HNext, hvars, vars
  <2> QED BY <2>1, StepBase, StepPaging
<1>3. Paging => IteratorComplete
  BY DEF Paging, PagedAt, IteratorComplete
<1> QED BY <1>1, <1>2, <1>3, PTL DEF HSpec

-----------------------------------------------------------------------------
(* TableStart.  Each server has an invariant of its own: what the table has  *)
(* when an adapter comes to a statement, and who will see to what it lacks.  *)
(* The Means lemmas say what a statement does; the Step lemmas that it keeps *)
(* the invariant.                                                            *)

\* A table is a record of these, whatever its rows.
Fields == {"status", "columns", "text", "byId", "unique", "expiresIndex", "ttl", "rows", "renamed",
           "aside"}
Shaped(d) == d = [f \in Fields |-> d[f]]

Tabled(s, d) ==
  /\ Shaped(d) /\ d.columns \subseteq Columns
  /\ {d.byId, d.expiresIndex, d.ttl, d.renamed} \subseteq BOOLEAN
  /\ d.status \in {"none", "active"} \cup (IF s = "dynamo" THEN {"creating"} ELSE {})

Started ==
  /\ scene \in Scenes /\ Tabled(store, db)
  /\ at = [a \in Adapters |-> at[a]] /\ err = [a \in Adapters |-> err[a]]
  /\ seen = [a \in Adapters |-> seen[a]]
  /\ starts \in Nat /\ crashes \in Nat /\ refusals \in Nat
  /\ \A a \in Adapters : err[a] = "refused" => refusals > 0
  /\ starts = 0 => \A a \in Adapters : at[a] = "off"
  /\ starts > 0 /\ crashes = 0 => \E a \in Adapters : at[a] # "off"

\* Of all but the adapter that acts.
Beside(a) ==
  /\ scene' = scene /\ starts' = starts /\ crashes' = crashes /\ refusals' \in Nat
  /\ refusals' >= refusals /\ (err'[a] = "refused" => refusals' > 0)
  /\ at' = [b \in Adapters |-> at'[b]] /\ err' = [b \in Adapters |-> err'[b]]
  /\ seen' = [b \in Adapters |-> seen'[b]]
  /\ \A b \in Adapters \ {a} : at'[b] = at[b] /\ err'[b] = err[b] /\ seen'[b] = seen[b]
  /\ clash => clash'
  /\ ~clash' /\ store = "sqlite" /\ Migrating(at'[a]) => \A b \in Adapters \ {a} : ~Migrating(at[b])

Over == IF store \in {"postgres", "dynamo"} THEN "ready" ELSE "failed"

\* A statement of a that is executed, though its answer may be lost; one that is refused, or
\* fails; and a look at the table.
Does(a, here, effect, place) ==
  /\ at[a] = here /\ db' = effect
  /\ at'[a] = place \/ (at'[a] = Over /\ err'[a] = "refused")
FailsAt(a, here, why) == at[a] = here /\ db' = db /\ at'[a] = Over /\ err'[a] = why
Sees(a, here, place) == at[a] = here /\ db' = db /\ at'[a] = place

LEMMA GoesOn ==
  ASSUME Started, NEW a \in Adapters, NEW place, Goes(a, place)
  PROVE  /\ at' = [b \in Adapters |-> at'[b]] /\ err' = [b \in Adapters |-> err'[b]]
         /\ at'[a] = place /\ err'[a] = err[a]
         /\ \A b \in Adapters \ {a} : at'[b] = at[b] /\ err'[b] = err[b]
BY DEF Goes, Started

LEMMA ThrowsOut ==
  ASSUME Started, NEW a \in Adapters, NEW why, Throws(a, why)
  PROVE  /\ at' = [b \in Adapters |-> at'[b]] /\ err' = [b \in Adapters |-> err'[b]]
         /\ at'[a] = Over /\ err'[a] = why
         /\ \A b \in Adapters \ {a} : at'[b] = at[b] /\ err'[b] = err[b]
BY DEF Throws, Started, Over

LEMMA ActsAlters ==
  ASSUME NEW a, NEW here, NEW can, NEW code, NEW effect, NEW place,
         Alters(a, here, can, code, effect, place)
  PROVE  /\ seen' = seen
         /\ Goes(a, place) \/ Throws(a, "refused") \/ Throws(a, "clash")
BY DEF Alters, Executed

LEMMA ActsIfMissing ==
  ASSUME NEW a, NEW here, NEW making, NEW there, NEW effect, NEW place, NEW race,
         IfMissing(a, here, making, there, effect, place, race)
  PROVE  /\ seen' = seen
         /\ Goes(a, place) \/ Goes(a, making) \/ Throws(a, "refused") \/ Throws(a, race)
BY DEF IfMissing, Looks, Executed

LEMMA Acts ==
  ASSUME NEW a \in Adapters, Statement(a)
  PROVE  /\ (\E p : Goes(a, p)) \/ (\E w : Throws(a, w))
         /\ seen' = seen \/ \E t : seen' = [seen EXCEPT ![a] = t]
<1> DEFINE Out == /\ (\E p : Goes(a, p)) \/ (\E w : Throws(a, w))
                  /\ seen' = seen \/ \E t : seen' = [seen EXCEPT ![a] = t]
<1>1. ASSUME seen' = seen, NEW p, NEW w, Goes(a, p) \/ Throws(a, w) PROVE Out
  BY <1>1
<1> HIDE DEF Out
<1>2. ASSUME Refused(a) PROVE Out
  BY <1>1, <1>2 DEF Refused
<1>3. ASSUME Sqlite(a) PROVE Out
  BY <1>1, <1>3, ActsAlters DEF Sqlite, SqliteInspect, Looks
<1>4. ASSUME Postgres(a) PROVE Out
  BY <1>1, <1>4, ActsAlters, ActsIfMissing DEF Postgres
<1>5. ASSUME Mysql(a) PROVE Out
  <2>1. ASSUME MysqlTypes(a) PROVE Out
    BY <2>1 DEF MysqlTypes, Out
  <2>2. ASSUME NEW h, NEW p, Looks(a, h, p) PROVE Out
    BY <1>1, <2>2 DEF Looks
  <2>3. ASSUME MysqlIndex(a) PROVE Out
    BY <2>2, <2>3 DEF MysqlIndex
  <2>4. \/ MysqlTypes(a) \/ MysqlIndex(a)
        \/ seen' = seen /\ \E p : Goes(a, p)
        \/ seen' = seen /\ \E w : Throws(a, w)
    BY <1>5 DEF Mysql, Alters, Executed, Looks
  <2> QED BY <1>1, <2>1, <2>3, <2>4
<1>6. ASSUME Dynamo(a) PROVE Out
  BY <1>1, <1>6 DEF Dynamo, Describe, Wait, Looks, Executed
<1>7. Out
  BY <1>2, <1>3, <1>4, <1>5, <1>6 DEF Statement
<1> QED BY <1>7 DEF Out

LEMMA StatementBeside ==
  ASSUME Started, NEW a \in Adapters, Statement(a)
  PROVE  Beside(a)
<1>1. /\ at' = [b \in Adapters |-> at'[b]] /\ err' = [b \in Adapters |-> err'[b]]
      /\ \A b \in Adapters \ {a} : at'[b] = at[b] /\ err'[b] = err[b]
  BY Acts, GoesOn, ThrowsOut
<1>2. /\ seen' = [b \in Adapters |-> seen'[b]]
      /\ \A b \in Adapters \ {a} : seen'[b] = seen[b]
  BY Acts DEF Started
<1>3. /\ refusals' \in Nat /\ refusals' >= refusals /\ (err'[a] = "refused" => refusals' > 0)
      /\ scene' = scene /\ starts' = starts /\ crashes' = crashes
  BY DEF Statement, Started
<1>4. /\ clash => clash'
      /\ ~clash' /\ store = "sqlite" /\ Migrating(at'[a]) => \A b \in Adapters \ {a} : ~Migrating(at[b])
  BY DEF Statement
<1> QED BY <1>1, <1>2, <1>3, <1>4 DEF Beside

\* What the statements that change one thing leave of the table.
LEMMA AddsColumn ==
  ASSUME Tabled(store, db), NEW c \in Columns, db' = [db EXCEPT !.columns = db.columns \cup {c}]
  PROVE  /\ Tabled(store, db') /\ db'.columns = db.columns \cup {c}
         /\ db'.status = db.status /\ db'.text = db.text /\ db'.byId = db.byId
         /\ db'.unique = db.unique /\ db'.expiresIndex = db.expiresIndex /\ db'.ttl = db.ttl
         /\ db'.rows = db.rows /\ db'.renamed = db.renamed /\ db'.aside = db.aside
BY DEF Tabled, Shaped, Fields

LEMMA ChangesText ==
  ASSUME Tabled(store, db), NEW t, db' = [db EXCEPT !.text = t]
  PROVE  /\ Tabled(store, db') /\ db'.text = t
         /\ db'.status = db.status /\ db'.columns = db.columns /\ db'.byId = db.byId
         /\ db'.unique = db.unique /\ db'.expiresIndex = db.expiresIndex /\ db'.ttl = db.ttl
         /\ db'.rows = db.rows /\ db'.renamed = db.renamed /\ db'.aside = db.aside
BY DEF Tabled, Shaped, Fields

LEMMA DropsPrimary ==
  ASSUME Tabled(store, db), db' = [db EXCEPT !.byId = FALSE]
  PROVE  /\ Tabled(store, db') /\ db'.byId = FALSE
         /\ db'.status = db.status /\ db'.columns = db.columns /\ db'.text = db.text
         /\ db'.unique = db.unique /\ db'.expiresIndex = db.expiresIndex /\ db'.ttl = db.ttl
         /\ db'.rows = db.rows /\ db'.renamed = db.renamed /\ db'.aside = db.aside
BY DEF Tabled, Shaped, Fields

LEMMA MakesIndex ==
  ASSUME Tabled(store, db), db' = [db EXCEPT !.unique = "right"]
  PROVE  /\ Tabled(store, db') /\ db'.unique = "right"
         /\ db'.status = db.status /\ db'.columns = db.columns /\ db'.text = db.text
         /\ db'.byId = db.byId /\ db'.expiresIndex = db.expiresIndex /\ db'.ttl = db.ttl
         /\ db'.rows = db.rows /\ db'.renamed = db.renamed /\ db'.aside = db.aside
BY DEF Tabled, Shaped, Fields

LEMMA MakesExpiresIndex ==
  ASSUME Tabled(store, db), db' = [db EXCEPT !.expiresIndex = TRUE]
  PROVE  /\ Tabled(store, db') /\ db'.expiresIndex = TRUE
         /\ db'.status = db.status /\ db'.columns = db.columns /\ db'.text = db.text
         /\ db'.byId = db.byId /\ db'.unique = db.unique /\ db'.ttl = db.ttl
         /\ db'.rows = db.rows /\ db'.renamed = db.renamed /\ db'.aside = db.aside
BY DEF Tabled, Shaped, Fields

LEMMA AddsRows ==
  ASSUME Tabled(store, db), NEW more, db' = [db EXCEPT !.rows = db.rows \cup more]
  PROVE  /\ Tabled(store, db') /\ db'.rows = db.rows \cup more
         /\ db'.status = db.status /\ db'.columns = db.columns /\ db'.text = db.text
         /\ db'.byId = db.byId /\ db'.unique = db.unique /\ db'.expiresIndex = db.expiresIndex
         /\ db'.ttl = db.ttl /\ db'.renamed = db.renamed /\ db'.aside = db.aside
BY DEF Tabled, Shaped, Fields

-----------------------------------------------------------------------------
(* sqlite *)

Whole == db.status = "active" /\ db.columns = Columns

SqliteAt(a) ==
  /\ at[a] = "create" => db.status = "none" \/ Whole
  /\ at[a] = "rename" => db.status = "active" /\ "namespace" \notin db.columns /\ ~db.renamed
  /\ at[a] = "recreate" => db.renamed
  /\ at[a] \in {"copy", "drop"} => db.renamed /\ Whole
  /\ at[a] = "addExpires" => /\ db.status = "active" /\ "namespace" \in db.columns
                             /\ "expires" \notin db.columns
  /\ at[a] = "index" => Whole
  /\ at[a] = "ready" => Whole /\ db.expiresIndex
  /\ at[a] = "failed" => err[a] = "refused"

SqliteTable ==
  /\ db.renamed => db.status = "none" \/ Whole
  /\ db.status = "active" /\ "namespace" \in db.columns => db.unique = "right" /\ ~db.byId
  /\ db.status = "none" => db.columns = {} /\ ~db.byId
  /\ db.text = {}

OneMigrates == \A a, b \in Adapters : a # b => ~(Migrating(at[a]) /\ Migrating(at[b]))

SqliteOk == ~clash => OneMigrates /\ SqliteTable /\ \A a \in Adapters : SqliteAt(a)

\* What a statement of a start may be.
LEMMA SqliteMeans ==
  ASSUME Started, store = "sqlite", NEW a \in Adapters, Statement(a)
  PROVE  \/ \E here : FailsAt(a, here, "refused")
         \/ at[a] = "inspect" /\ db' = db /\ at'[a] = 
              (IF db.status = "none" THEN "create"
                      ELSE IF "namespace" \notin db.columns THEN "rename"
                      ELSE IF "expires" \notin db.columns THEN "addExpires" ELSE "index")
         \/ Does(a, "create", IfNotExists, "index")
         \/ /\ db.status # "none" /\ ~db.renamed
            /\ Does(a, "rename", [Absent EXCEPT !.renamed = TRUE, !.aside = db.rows], "recreate")
         \/ ~(db.status # "none" /\ ~db.renamed) /\ FailsAt(a, "rename", "clash")
         \/ Does(a, "recreate", IfNotExists, "copy")
         \/ /\ db.status # "none" /\ db.renamed
            /\ Does(a, "copy", [db EXCEPT !.rows = db.rows \cup {Split(r) : r \in db.aside}], "drop")
         \/ ~(db.status # "none" /\ db.renamed) /\ FailsAt(a, "copy", "clash")
         \/ db.renamed /\ Does(a, "drop", [db EXCEPT !.renamed = FALSE, !.aside = {}], "index")
         \/ ~db.renamed /\ FailsAt(a, "drop", "clash")
         \/ /\ db.status # "none" /\ "expires" \notin db.columns
            /\ Does(a, "addExpires", [db EXCEPT !.columns = db.columns \cup {"expires"}], "index")
         \/ /\ ~(db.status # "none" /\ "expires" \notin db.columns)
            /\ FailsAt(a, "addExpires", "clash")
         \/ db.status # "none" /\ Does(a, "index", [db EXCEPT !.expiresIndex = TRUE], "ready")
         \/ db.status = "none" /\ FailsAt(a, "index", "clash")
<1>1. CASE Refused(a)
  BY <1>1, ThrowsOut DEF Refused, FailsAt
<1>2. CASE SqliteInspect(a)
  BY <1>2, GoesOn DEF SqliteInspect, Looks
<1>3. ASSUME NEW here, NEW can, NEW effect, NEW place, Alters(a, here, can, 1, effect, place)
      PROVE  (can /\ Does(a, here, effect, place)) \/ (~can /\ FailsAt(a, here, "clash"))
  BY <1>3, GoesOn, ThrowsOut DEF Alters, Executed, Does, FailsAt, Tolerated
<1>4. CASE Sqlite(a) /\ ~SqliteInspect(a)
  BY <1>3, <1>4 DEF Sqlite, Follows
<1> QED BY <1>1, <1>2, <1>4 DEF Statement

LEMMA MigratingPlaces ==
  \A p : Migrating(p) <=> p \in {"rename", "recreate", "copy", "drop", "addExpires"}
BY DEF Migrating, Follows

\* Whoever creates the table, it is today's.
LEMMA CreatesWhole ==
  ASSUME Started, store = "sqlite", db' = IfNotExists
  PROVE  /\ Tabled(store, db')
         /\ db.status # "none" => db' = db
         /\ db.status = "none" => /\ db'.status = "active" /\ db'.columns = Columns
                                  /\ db'.unique = "right" /\ db'.byId = db.byId
         /\ db'.text = db.text /\ db'.rows = db.rows /\ db'.renamed = db.renamed
         /\ db'.aside = db.aside /\ db'.expiresIndex = db.expiresIndex
BY DEF Started, Tabled, Shaped, Fields, IfNotExists, Created, Columns

LEMMA SqliteStep ==
  ASSUME Started, store = "sqlite", SqliteOk, NEW a \in Adapters, Statement(a)
  PROVE  Tabled(store, db') /\ SqliteOk'
<1> DEFINE Goal == /\ Tabled(store, db')
                   /\ ~clash' => SqliteTable' /\ SqliteAt(a)'
                   /\ ~clash' => \A b \in Adapters \ {a} : SqliteAt(b)'
<1>1. /\ \A b \in Adapters \ {a} : at'[b] = at[b] /\ err'[b] = err[b]
      /\ clash => clash'
      /\ ~clash' /\ Migrating(at'[a]) => \A b \in Adapters \ {a} : ~Migrating(at[b])
      /\ store' = store
  BY StatementBeside DEF Beside, store
<1>2. ~clash' => OneMigrates'
  BY <1>1 DEF SqliteOk, OneMigrates
<1>3. ~clash' => OneMigrates /\ SqliteTable /\ \A b \in Adapters : SqliteAt(b)
  BY <1>1 DEF SqliteOk
<1>4. Tabled(store, db)
  BY DEF Started
<1>5. \A b \in Adapters \ {a} : Migrating(at[a]) /\ ~clash' => ~Migrating(at[b])
  BY <1>1 DEF SqliteOk, OneMigrates
<1>6. ASSUME db' = db, SqliteAt(a)' \/ clash' PROVE Goal
  BY <1>1, <1>3, <1>4, <1>6 DEF SqliteTable, SqliteAt, Whole
<1>7. Goal
  <2>1. ASSUME NEW here, FailsAt(a, here, "refused") PROVE Goal
    BY <1>6, <2>1 DEF FailsAt, Over, SqliteAt
  <2>2. ASSUME at[a] = "inspect", db' = db, at'[a] = 
              (IF db.status = "none" THEN "create"
                      ELSE IF "namespace" \notin db.columns THEN "rename"
                      ELSE IF "expires" \notin db.columns THEN "addExpires" ELSE "index")
        PROVE Goal
    BY <1>3, <1>4, <1>6, <2>2 DEF SqliteTable, SqliteAt, Whole, Columns, Tabled
  <2>3. ASSUME Does(a, "create", IfNotExists, "index") PROVE Goal
    BY <1>1, <1>3, <1>4, <1>5, <2>3, CreatesWhole DEF Does, Over, SqliteTable, SqliteAt, Whole
  <2>4. ASSUME Does(a, "rename", [Absent EXCEPT !.renamed = TRUE, !.aside = db.rows], "recreate")
        PROVE Goal
    <3>1. /\ Tabled(store, db') /\ db'.renamed = TRUE /\ db'.status = "none" /\ db'.text = {}
          /\ db'.columns = {} /\ db'.byId = FALSE
      BY <1>4, <2>4 DEF Does, Tabled, Shaped, Fields, Absent
    <3>2. at[a] = "rename" /\ (at'[a] = "recreate" \/ (at'[a] = "failed" /\ err'[a] = "refused"))
      BY <2>4 DEF Does, Over
    <3>3. ~clash' => \A b \in Adapters \ {a} : at[b] \notin {"rename", "recreate", "copy", "drop", "addExpires"}
      BY <1>5, <3>2, MigratingPlaces
    <3>6. SqliteTable'
      BY <3>1 DEF SqliteTable
    <3>4. SqliteAt(a)'
      BY <3>1, <3>2 DEF SqliteAt
    <3>7. ~clash' => ~Whole
      BY <1>3, <3>2 DEF SqliteAt, Whole, Columns
    <3>5. ~clash' => \A b \in Adapters \ {a} : SqliteAt(b)'
      BY <1>1, <1>3, <3>1, <3>3, <3>7 DEF SqliteAt
    <3> QED BY <3>1, <3>4, <3>5, <3>6
  <2>5. ASSUME Does(a, "recreate", IfNotExists, "copy") PROVE Goal
    BY <1>1, <1>3, <1>4, <1>5, <2>5, CreatesWhole DEF Does, Over, SqliteTable, SqliteAt, Whole
  <2>6. ASSUME Does(a, "copy", [db EXCEPT !.rows = db.rows \cup {Split(r) : r \in db.aside}], "drop")
        PROVE Goal
    <3>1. /\ Tabled(store, db') /\ db'.renamed = db.renamed /\ db'.status = db.status
          /\ db'.columns = db.columns /\ db'.unique = db.unique /\ db'.byId = db.byId
          /\ db'.text = db.text /\ db'.expiresIndex = db.expiresIndex
      BY <1>4, <2>6, AddsRows DEF Does
    <3>2. at[a] = "copy" /\ (at'[a] = "drop" \/ (at'[a] = "failed" /\ err'[a] = "refused"))
      BY <2>6 DEF Does, Over
    <3>4. ~clash' => SqliteTable' /\ SqliteAt(a)'
      BY <1>3, <3>1, <3>2 DEF SqliteTable, SqliteAt, Whole
    <3>5. ~clash' => \A b \in Adapters \ {a} : SqliteAt(b)'
      BY <1>1, <1>3, <3>1, <3>2 DEF SqliteAt, Whole
    <3> QED BY <3>1, <3>4, <3>5
  <2>7. ASSUME Does(a, "drop", [db EXCEPT !.renamed = FALSE, !.aside = {}], "index") PROVE Goal
    <3>1. /\ Tabled(store, db') /\ ~db'.renamed /\ db'.status = db.status /\ db'.text = db.text
          /\ db'.columns = db.columns /\ db'.unique = db.unique /\ db'.byId = db.byId
          /\ db'.expiresIndex = db.expiresIndex
      BY <1>4, <2>7 DEF Does, Tabled, Shaped, Fields
    <3>2. at[a] = "drop" /\ (at'[a] = "index" \/ (at'[a] = "failed" /\ err'[a] = "refused"))
      BY <2>7 DEF Does, Over
    <3>3. ~clash' => \A b \in Adapters \ {a} : at[b] \notin {"rename", "recreate", "copy", "drop", "addExpires"}
      BY <1>5, <3>2, MigratingPlaces
    <3>4. ~clash' => SqliteTable' /\ SqliteAt(a)'
      BY <1>3, <3>1, <3>2 DEF SqliteTable, SqliteAt, Whole
    <3>5. ~clash' => \A b \in Adapters \ {a} : SqliteAt(b)'
      BY <1>1, <1>3, <3>1, <3>3 DEF SqliteAt, Whole
    <3> QED BY <3>1, <3>4, <3>5
  <2>8. ASSUME Does(a, "addExpires", [db EXCEPT !.columns = db.columns \cup {"expires"}], "index")
        PROVE Goal
    <3>1. /\ Tabled(store, db') /\ db'.renamed = db.renamed /\ db'.status = db.status
          /\ db'.columns = db.columns \cup {"expires"} /\ db'.unique = db.unique
          /\ db'.byId = db.byId /\ db'.text = db.text /\ db'.expiresIndex = db.expiresIndex
      BY <1>4, <2>8, AddsColumn DEF Does, Columns
    <3>2. at[a] = "addExpires" /\ (at'[a] = "index" \/ (at'[a] = "failed" /\ err'[a] = "refused"))
      BY <2>8 DEF Does, Over
    <3>3. ~clash' => \A b \in Adapters \ {a} : at[b] \notin {"rename", "recreate", "copy", "drop", "addExpires"}
      BY <1>5, <3>2, MigratingPlaces
    <3>6. ~clash' => db.status = "active" /\ db'.columns = Columns /\ "namespace" \in db.columns
      BY <1>3, <1>4, <3>1, <3>2 DEF SqliteAt, Columns, Tabled
    <3>7. db.columns = Columns => db'.columns = db.columns
      BY <3>1 DEF Columns
    <3>4. ~clash' => SqliteTable' /\ SqliteAt(a)'
      BY <1>3, <3>1, <3>2, <3>6, <3>7 DEF SqliteTable, SqliteAt, Whole
    <3>5. ~clash' => \A b \in Adapters \ {a} : SqliteAt(b)'
      BY <1>1, <1>3, <3>1, <3>3, <3>6, <3>7 DEF SqliteAt, Whole
    <3> QED BY <3>1, <3>4, <3>5
  <2>9. ASSUME Does(a, "index", [db EXCEPT !.expiresIndex = TRUE], "ready") PROVE Goal
    <3>1. /\ Tabled(store, db') /\ db'.renamed = db.renamed /\ db'.status = db.status
          /\ db'.columns = db.columns /\ db'.unique = db.unique /\ db'.byId = db.byId
          /\ db'.text = db.text /\ db'.expiresIndex
      BY <1>4, <2>9, MakesExpiresIndex DEF Does
    <3>2. at[a] = "index" /\ (at'[a] = "ready" \/ (at'[a] = "failed" /\ err'[a] = "refused"))
      BY <2>9 DEF Does, Over
    <3>4. ~clash' => SqliteTable' /\ SqliteAt(a)'
      BY <1>3, <3>1, <3>2 DEF SqliteTable, SqliteAt, Whole
    <3>5. ~clash' => \A b \in Adapters \ {a} : SqliteAt(b)'
      BY <1>1, <1>3, <3>1, <3>2 DEF SqliteAt, Whole
    <3> QED BY <3>1, <3>4, <3>5
  <2>10. ASSUME FailsAt(a, at[a], "clash"), ~clash' => FALSE PROVE Goal
    BY <1>6, <2>10 DEF FailsAt
  <2>11. ~clash' => /\ ~(~(db.status # "none" /\ ~db.renamed) /\ FailsAt(a, "rename", "clash"))
                    /\ ~(~(db.status # "none" /\ db.renamed) /\ FailsAt(a, "copy", "clash"))
                    /\ ~(~db.renamed /\ FailsAt(a, "drop", "clash"))
                    /\ ~(/\ ~(db.status # "none" /\ "expires" \notin db.columns)
                         /\ FailsAt(a, "addExpires", "clash"))
                    /\ ~(db.status = "none" /\ FailsAt(a, "index", "clash"))
    <3>1. \A here : FailsAt(a, here, "clash") => at[a] = here
      BY DEF FailsAt
    <3>2. ~clash' => SqliteAt(a)
      BY <1>3
    <3> QED BY <3>1, <3>2 DEF SqliteAt, Whole
  <2>12. FailsAt(a, "rename", "clash") \/ FailsAt(a, "copy", "clash") \/ FailsAt(a, "drop", "clash")
           \/ FailsAt(a, "addExpires", "clash") \/ FailsAt(a, "index", "clash")
         => FailsAt(a, at[a], "clash")
    BY DEF FailsAt
  <2> HIDE DEF Goal
  <2> QED BY SqliteMeans, <2>1, <2>2, <2>3, <2>4, <2>5, <2>6, <2>7, <2>8, <2>9, <2>10, <2>11, <2>12
<1> QED BY <1>1, <1>2, <1>7 DEF SqliteOk

\* Where a row of the table that was found is now.
There(r) ==
  \/ Owed(r) \in db.rows /\ db.status = "active" /\ "namespace" \in db.columns
  \/ /\ Owed(r) = Split(r) /\ r \in db.rows
     /\ db.status = "active" /\ "namespace" \notin db.columns
  \/ Owed(r) = Split(r) /\ r \in db.aside /\ db.renamed

SqliteRows ==
  ~clash => /\ \A r \in scene.db.rows : There(r)
            /\ \A a \in Adapters, r \in scene.db.rows : at[a] = "drop" => Owed(r) \in db.rows
            /\ Calm /\ db.renamed => \E a \in Adapters : at[a] \in {"recreate", "copy", "drop"}

LEMMA SqliteRowsStep ==
  ASSUME Started, store = "sqlite", SqliteOk, SqliteRows, NEW a \in Adapters, Statement(a)
  PROVE  SqliteRows'
<1> DEFINE Goal == ~clash' =>
              /\ \A r \in scene.db.rows : There(r)'
              /\ \A r \in scene.db.rows : at'[a] = "drop" => Owed(r) \in db'.rows
              /\ \A b \in Adapters \ {a} : at[b] = "drop" => \A r \in scene.db.rows : Owed(r) \in db'.rows
              /\ Calm' /\ db'.renamed => \E b \in Adapters : at'[b] \in {"recreate", "copy", "drop"}
<1>1. /\ \A b \in Adapters \ {a} : at'[b] = at[b]
      /\ clash => clash'
      /\ ~clash' /\ Migrating(at'[a]) => \A b \in Adapters \ {a} : ~Migrating(at[b])
      /\ Calm' => Calm /\ err'[a] # "refused"
      /\ scene' = scene
  BY StatementBeside DEF Beside, Calm, Started
<1>2. \A r : Owed(r)' = Owed(r)
  BY <1>1 DEF Owed, store
<1>3. ~clash' =>
        /\ SqliteTable /\ \A b \in Adapters : SqliteAt(b)
        /\ \A r \in scene.db.rows : There(r)
        /\ \A b \in Adapters, r \in scene.db.rows : at[b] = "drop" => Owed(r) \in db.rows
        /\ Calm /\ db.renamed => \E b \in Adapters : at[b] \in {"recreate", "copy", "drop"}
        /\ \A b \in Adapters \ {a} : Migrating(at[a]) => ~Migrating(at[b])
  BY <1>1 DEF SqliteOk, SqliteRows, OneMigrates
<1>4. Tabled(store, db) /\ Over = "failed"
  BY DEF Started, Over
<1>5. ASSUME db'.rows = db.rows, db'.aside = db.aside, db'.renamed = db.renamed,
             ~clash' => db'.status = db.status \/ (db.status = "none" /\ db'.status = "active"),
             ~clash' /\ db.status = "active" =>
               ("namespace" \in db'.columns <=> "namespace" \in db.columns),
             ~clash' /\ at'[a] = "drop" => at[a] = "drop",
             ~clash' /\ Calm' /\ db.renamed /\ at[a] \in {"recreate", "copy", "drop"}
               => at'[a] \in {"recreate", "copy", "drop"}
      PROVE  Goal
  BY <1>1, <1>2, <1>3, <1>5 DEF There
<1>6. Goal
  <2>1. ASSUME NEW here, FailsAt(a, here, "refused") PROVE Goal
    BY <1>1, <1>4, <1>5, <2>1 DEF FailsAt
  <2>2. ASSUME at[a] = "inspect", db' = db, at'[a] # "drop" PROVE Goal
    BY <1>5, <2>2
  <2>3. ASSUME Does(a, "create", IfNotExists, "index") PROVE Goal
    BY <1>1, <1>4, <1>5, <2>3, CreatesWhole DEF Does
  <2>4. ASSUME Does(a, "rename", [Absent EXCEPT !.renamed = TRUE, !.aside = db.rows], "recreate")
        PROVE Goal
    BY <1>1, <1>2, <1>3, <1>4, <2>4, MigratingPlaces DEF Does, There, SqliteAt, Absent, Calm
  <2>5. ASSUME Does(a, "recreate", IfNotExists, "copy") PROVE Goal
    BY <1>1, <1>4, <1>5, <2>5, CreatesWhole DEF Does
  <2>6. ASSUME Does(a, "copy", [db EXCEPT !.rows = db.rows \cup {Split(r) : r \in db.aside}], "drop")
        PROVE Goal
    <3>1. /\ db'.rows = db.rows \cup {Split(r) : r \in db.aside} /\ db'.status = db.status
          /\ db'.columns = db.columns /\ db'.renamed = db.renamed
      BY <1>4, <2>6 DEF Does, Tabled, Shaped, Fields
    <3>2. /\ at[a] = "copy" /\ at'[a] \in {"drop", "failed"}
          /\ Calm' => at'[a] = "drop"
      BY <1>1, <1>4, <2>6 DEF Does
    <3>3. ~clash' => \A r \in scene.db.rows : Owed(r) \in db'.rows /\ Whole'
      BY <1>3, <3>1, <3>2 DEF There, SqliteAt, Whole, Columns
    <3> QED BY <1>1, <1>2, <3>2, <3>3 DEF There, Whole, Columns
  <2>7. ASSUME Does(a, "drop", [db EXCEPT !.renamed = FALSE, !.aside = {}], "index") PROVE Goal
    <3>1. /\ db'.rows = db.rows /\ db'.status = db.status /\ db'.columns = db.columns /\ ~db'.renamed
      BY <1>4, <2>7 DEF Does, Tabled, Shaped, Fields
    <3>2. at[a] = "drop" /\ at'[a] # "drop"
      BY <1>4, <2>7 DEF Does
    <3> QED BY <1>1, <1>2, <1>3, <3>1, <3>2 DEF There, SqliteAt, Whole, Columns
  <2>8. ASSUME Does(a, "addExpires", [db EXCEPT !.columns = db.columns \cup {"expires"}], "index")
        PROVE Goal
    BY <1>4, <1>5, <2>8 DEF Does, Tabled, Shaped, Fields
  <2>9. ASSUME Does(a, "index", [db EXCEPT !.expiresIndex = TRUE], "ready") PROVE Goal
    BY <1>4, <1>5, <2>9 DEF Does, Tabled, Shaped, Fields
  <2>10. ASSUME NEW here, FailsAt(a, here, "clash"), ~clash' => here \notin {"recreate", "copy", "drop"}
         PROVE  Goal
    BY <1>4, <1>5, <2>10 DEF FailsAt
  <2>11. ~clash' => ~(at[a] = "drop" /\ ~db.renamed) /\ ~(at[a] = "copy" /\ ~(db.status # "none" /\ db.renamed))
    BY <1>3 DEF SqliteAt, Whole
  <2> HIDE DEF Goal
  <2> QED BY SqliteMeans, <2>1, <2>2, <2>3, <2>4, <2>5, <2>6, <2>7, <2>8, <2>9, <2>10, <2>11 DEF FailsAt
<1> QED BY <1>1, <1>2, <1>6 DEF SqliteRows, Calm

-----------------------------------------------------------------------------
(* postgres *)

PostgresAt(a) ==
  /\ at[a] # "failed"
  /\ at[a] = "addNamespace" => db.status = "active"
  /\ at[a] = "addExpires" => db.status = "active" /\ "namespace" \in db.columns
  /\ at[a] = "dropPrimary" => Whole
  /\ at[a] \in {"index", "indexing"} => Whole /\ ~db.byId
  /\ at[a] \in {"expiresIndex", "expiresIndexing"} => Whole /\ ~db.byId /\ db.unique = "right"
  /\ at[a] = "ready" /\ err[a] # "refused" =>
       /\ db.status = "active"
       /\ err[a] # "createRace" => Whole /\ ~db.byId /\ db.unique = "right"

PostgresTable ==
  /\ db.text = {} /\ db.unique \in {"none", "right"} /\ db.rows = scene.db.rows
  /\ db.status = "none" => ~db.byId /\ db.unique = "none"

\* While the table lacks something, there is one who will see to it, if nothing goes wrong.
Shaping  == {"create", "addNamespace", "addExpires", "dropPrimary"}
Indexing == Shaping \cup {"index", "indexing"}
Ending   == Shaping \cup {"index", "expiresIndex", "expiresIndexing"}
Somebody(P) == \E a \in Adapters : at[a] \in P

PostgresGoal ==
  Calm /\ starts > 0 /\ db.status = "active" =>
    /\ ~(db.columns = Columns /\ ~db.byId) => Somebody(Shaping)
    /\ db.unique = "none" => Somebody(Indexing)
    /\ ~db.expiresIndex /\ db.unique # "none" => Somebody(Ending)

PostgresOk == PostgresTable /\ (\A a \in Adapters : PostgresAt(a)) /\ PostgresGoal

LEMMA PostgresMeans ==
  ASSUME Started, store = "postgres", NEW a \in Adapters, Statement(a)
  PROVE  \/ \E here : FailsAt(a, here, "refused")
         \/ Sees(a, "create", IF db.status # "none" THEN "addNamespace" ELSE "creating")
         \/ db.status = "none" /\ Does(a, "creating", Created, "addNamespace")
         \/ db.status # "none" /\ FailsAt(a, "creating", "createRace")
         \/ Does(a, "addNamespace", [db EXCEPT !.columns = db.columns \cup {"namespace"}], "addExpires")
         \/ Does(a, "addExpires", [db EXCEPT !.columns = db.columns \cup {"expires"}], "dropPrimary")
         \/ Does(a, "dropPrimary", [db EXCEPT !.byId = FALSE], "index")
         \/ Sees(a, "index", IF db.unique # "none" THEN "expiresIndex" ELSE "indexing")
         \/ db.unique = "none" /\ Does(a, "indexing", [db EXCEPT !.unique = "right"], "expiresIndex")
         \/ db.unique # "none" /\ FailsAt(a, "indexing", "indexRace")
         \/ Sees(a, "expiresIndex", IF db.expiresIndex THEN "ready" ELSE "expiresIndexing")
         \/ ~db.expiresIndex /\ Does(a, "expiresIndexing", [db EXCEPT !.expiresIndex = TRUE], "ready")
         \/ db.expiresIndex /\ FailsAt(a, "expiresIndexing", "indexRace")
<1>1. CASE Refused(a)
  BY <1>1, ThrowsOut DEF Refused, FailsAt
<1>2. ASSUME NEW here, NEW effect, NEW place, Alters(a, here, TRUE, 1, effect, place)
      PROVE  Does(a, here, effect, place)
  BY <1>2, GoesOn, ThrowsOut DEF Alters, Executed, Does
<1>3. ASSUME NEW here, NEW making, NEW there, NEW effect, NEW place, NEW race,
             IfMissing(a, here, making, there, effect, place, race)
      PROVE  \/ Sees(a, here, IF there THEN place ELSE making)
             \/ ~there /\ Does(a, making, effect, place)
             \/ there /\ FailsAt(a, making, race)
  BY <1>3, GoesOn, ThrowsOut DEF IfMissing, Looks, Executed, Does, FailsAt, Sees
<1>4. CASE IfMissing(a, "create", "creating", db.status # "none", Created, "addNamespace", "createRace")
  BY <1>3, <1>4
<1>6. CASE IfMissing(a, "index", "indexing", db.unique # "none", [db EXCEPT !.unique = "right"],
                     "expiresIndex", "indexRace")
  BY <1>3, <1>6
<1>7. CASE IfMissing(a, "expiresIndex", "expiresIndexing", db.expiresIndex,
                     [db EXCEPT !.expiresIndex = TRUE], "ready", "indexRace")
  BY <1>3, <1>7
<1>5. CASE \/ Alters(a, "addNamespace", TRUE, 1, [db EXCEPT !.columns = @ \cup {"namespace"}], "addExpires")
           \/ Alters(a, "addExpires", TRUE, 1, [db EXCEPT !.columns = @ \cup {"expires"}], "dropPrimary")
           \/ Alters(a, "dropPrimary", TRUE, 1, [db EXCEPT !.byId = FALSE], "index")
  BY <1>2, <1>5
<1> QED BY <1>1, <1>4, <1>5, <1>6, <1>7 DEF Statement, Postgres

LEMMA PostgresStep ==
  ASSUME Started, store = "postgres", PostgresOk, NEW a \in Adapters, Statement(a)
  PROVE  Tabled(store, db') /\ PostgresOk'
<1> DEFINE Goal == /\ Tabled(store, db') /\ PostgresTable' /\ PostgresAt(a)'
                   /\ \A b \in Adapters \ {a} : PostgresAt(b)'
                   /\ PostgresGoal'
<1>1. /\ \A b \in Adapters \ {a} : at'[b] = at[b] /\ err'[b] = err[b]
      /\ Calm' => Calm /\ err'[a] # "refused"
      /\ store' = store /\ scene' = scene /\ starts' = starts
  BY StatementBeside DEF Beside, store, Calm, Started
<1>2. Tabled(store, db) /\ Over = "ready"
  BY DEF Started, Over
<1>3. PostgresTable /\ PostgresGoal /\ \A b \in Adapters : PostgresAt(b)
  BY DEF PostgresOk
<1>4. \A P : /\ (\E b \in Adapters \ {a} : at[b] \in P) => Somebody(P)'
             /\ at'[a] \in P => Somebody(P)'
             /\ Somebody(P) => at[a] \in P \/ \E b \in Adapters \ {a} : at[b] \in P
  BY <1>1 DEF Somebody
<1>5. Goal
  <2>1. ASSUME NEW here, FailsAt(a, here, "refused") PROVE Goal
    BY <1>1, <1>2, <1>3, <2>1 DEF FailsAt, PostgresTable, PostgresAt, PostgresGoal, Whole
  <2>2. ASSUME Sees(a, "create", IF db.status # "none" THEN "addNamespace" ELSE "creating") PROVE Goal
    BY <1>1, <1>2, <1>3, <1>4, <2>2 DEF Sees, PostgresTable, PostgresAt, PostgresGoal,
           Whole, Columns, Shaping, Indexing, Ending, Tabled, Shaped, Fields
  <2>3. ASSUME db.status = "none", Does(a, "creating", Created, "addNamespace") PROVE Goal
    BY <1>1, <1>2, <1>3, <1>4, <2>3 DEF Does, Created, PostgresTable, PostgresAt, PostgresGoal,
           Whole, Columns, Shaping, Indexing, Ending, Tabled, Shaped, Fields
  <2>4. ASSUME db.status # "none", FailsAt(a, "creating", "createRace") PROVE Goal
    BY <1>1, <1>2, <1>3, <1>4, <2>4 DEF FailsAt, PostgresTable, PostgresAt, PostgresGoal,
           Whole, Columns, Shaping, Indexing, Ending, Tabled, Shaped, Fields
  <2>5. ASSUME Does(a, "addNamespace", [db EXCEPT !.columns = db.columns \cup {"namespace"}], "addExpires")
        PROVE Goal
    <3>1. /\ Tabled(store, db') /\ db'.columns = db.columns \cup {"namespace"}
          /\ db'.status = db.status /\ db'.text = db.text /\ db'.byId = db.byId
          /\ db'.unique = db.unique /\ db'.expiresIndex = db.expiresIndex /\ db'.rows = db.rows
      BY <1>2, <2>5, AddsColumn DEF Does, Columns
    <3>2. /\ at[a] = "addNamespace" /\ at'[a] \in {"addExpires", "ready"}
          /\ at'[a] = "ready" => err'[a] = "refused"
      BY <1>2, <2>5 DEF Does
    <3>3. db.columns = Columns => db'.columns = db.columns
      BY <3>1 DEF Columns
    <3>4. PostgresGoal'
      BY <1>1, <1>3, <1>4, <3>1, <3>2, <3>3 DEF PostgresGoal, Shaping, Indexing, Ending
    <3> QED BY <1>1, <1>3, <3>1, <3>2, <3>3, <3>4 DEF PostgresAt, PostgresTable, Whole
  <2>6. ASSUME Does(a, "addExpires", [db EXCEPT !.columns = db.columns \cup {"expires"}], "dropPrimary")
        PROVE Goal
    <3>1. /\ Tabled(store, db') /\ db'.columns = db.columns \cup {"expires"} /\ db'.status = db.status
          /\ db'.byId = db.byId /\ db'.unique = db.unique /\ db'.text = db.text /\ db'.rows = db.rows
          /\ db'.expiresIndex = db.expiresIndex
      BY <1>2, <2>6, AddsColumn DEF Does, Columns
    <3>2. /\ at[a] = "addExpires" /\ at'[a] \in {"dropPrimary", "ready"}
          /\ at'[a] = "ready" => err'[a] = "refused"
      BY <1>2, <2>6 DEF Does
    <3>3. db'.columns = Columns /\ db.status = "active"
      BY <1>2, <1>3, <3>1, <3>2 DEF PostgresAt, Columns, Tabled
    <3>4. PostgresGoal'
      BY <1>1, <1>3, <1>4, <3>1, <3>2, <3>3 DEF PostgresGoal, Shaping, Indexing, Ending
    <3> QED BY <1>1, <1>3, <3>1, <3>2, <3>3, <3>4 DEF PostgresAt, PostgresTable, Whole
  <2>7. ASSUME Does(a, "dropPrimary", [db EXCEPT !.byId = FALSE], "index") PROVE Goal
    <3>1. /\ Tabled(store, db') /\ db'.byId = FALSE
          /\ db'.status = db.status /\ db'.columns = db.columns /\ db'.text = db.text
          /\ db'.unique = db.unique /\ db'.expiresIndex = db.expiresIndex /\ db'.rows = db.rows
      BY <1>2, <2>7, DropsPrimary DEF Does
    <3>2. /\ at[a] = "dropPrimary" /\ at'[a] \in {"index", "ready"}
          /\ at'[a] = "ready" => err'[a] = "refused"
      BY <1>2, <2>7 DEF Does
    <3>7. db.columns = Columns
      BY <1>3, <3>2 DEF PostgresAt, Whole
    <3>3. PostgresGoal'
      BY <1>1, <1>3, <1>4, <3>1, <3>2, <3>7 DEF PostgresGoal, Shaping, Indexing, Ending
    <3>4. PostgresTable'
      BY <1>1, <1>3, <3>1 DEF PostgresTable
    <3>5. PostgresAt(a)'
      BY <1>3, <3>1, <3>2 DEF PostgresAt, Whole
    <3>6. \A b \in Adapters \ {a} : PostgresAt(b)'
      BY <1>1, <1>3, <3>1 DEF PostgresAt, Whole
    <3> QED BY <3>1, <3>3, <3>4, <3>5, <3>6
  <2>8. ASSUME Sees(a, "index", IF db.unique # "none" THEN "expiresIndex" ELSE "indexing") PROVE Goal
    BY <1>1, <1>2, <1>3, <1>4, <2>8 DEF Sees, PostgresTable, PostgresAt, PostgresGoal,
           Whole, Columns, Shaping, Indexing, Ending, Tabled, Shaped, Fields
  <2>9. ASSUME db.unique = "none", Does(a, "indexing", [db EXCEPT !.unique = "right"], "expiresIndex")
        PROVE Goal
    <3>1. /\ Tabled(store, db') /\ db'.unique = "right"
          /\ db'.status = db.status /\ db'.columns = db.columns /\ db'.text = db.text
          /\ db'.byId = db.byId /\ db'.expiresIndex = db.expiresIndex /\ db'.rows = db.rows
      BY <1>2, <2>9, MakesIndex DEF Does
    <3>2. /\ at[a] = "indexing" /\ at'[a] \in {"expiresIndex", "ready"}
          /\ at'[a] = "ready" => err'[a] = "refused"
      BY <1>2, <2>9 DEF Does
    <3>3. PostgresGoal'
      BY <1>1, <1>3, <1>4, <3>1, <3>2, <2>9 DEF PostgresGoal, Shaping, Indexing, Ending
    <3> QED BY <1>1, <1>3, <3>1, <3>2, <3>3 DEF PostgresAt, PostgresTable, Whole
  <2>10. ASSUME db.unique # "none", FailsAt(a, "indexing", "indexRace") PROVE Goal
    BY <1>1, <1>2, <1>3, <1>4, <2>10 DEF FailsAt, PostgresTable, PostgresAt, PostgresGoal,
           Whole, Columns, Shaping, Indexing, Ending, Tabled, Shaped, Fields
  <2>11. ASSUME Sees(a, "expiresIndex", IF db.expiresIndex THEN "ready" ELSE "expiresIndexing") PROVE Goal
    BY <1>1, <1>2, <1>3, <1>4, <2>11 DEF Sees, PostgresTable, PostgresAt, PostgresGoal,
           Whole, Columns, Shaping, Indexing, Ending, Tabled, Shaped, Fields
  <2>12. ASSUME ~db.expiresIndex, Does(a, "expiresIndexing", [db EXCEPT !.expiresIndex = TRUE], "ready")
         PROVE Goal
    <3>1. /\ Tabled(store, db') /\ db'.expiresIndex = TRUE
          /\ db'.status = db.status /\ db'.columns = db.columns /\ db'.text = db.text
          /\ db'.byId = db.byId /\ db'.unique = db.unique /\ db'.rows = db.rows
      BY <1>2, <2>12, MakesExpiresIndex DEF Does
    <3>2. at[a] = "expiresIndexing" /\ at'[a] = "ready"
      BY <1>2, <2>12 DEF Does
    <3>3. PostgresGoal'
      BY <1>1, <1>3, <1>4, <3>1, <3>2 DEF PostgresGoal, Shaping, Indexing, Ending
    <3> QED BY <1>1, <1>3, <3>1, <3>2, <3>3 DEF PostgresAt, PostgresTable, Whole
  <2>13. ASSUME db.expiresIndex, FailsAt(a, "expiresIndexing", "indexRace") PROVE Goal
    BY <1>1, <1>2, <1>3, <1>4, <2>13 DEF FailsAt, PostgresTable, PostgresAt, PostgresGoal,
           Whole, Columns, Shaping, Indexing, Ending, Tabled, Shaped, Fields
  <2> HIDE DEF Goal
  <2> QED BY PostgresMeans, <2>1, <2>2, <2>3, <2>4, <2>5, <2>6, <2>7, <2>8, <2>9, <2>10, <2>11, <2>12,
             <2>13
<1> QED BY <1>1, <1>5 DEF PostgresOk

-----------------------------------------------------------------------------
(* mysql *)

Early    == {"off", "create", "columns", "addNamespace", "types"}
Retyping == {"toText", "toBinary"}
Last     == {"addExpires", "expiresIndex", "ready"}
Keyed    == Last \cup {"showIndex", "reorder", "createIndex"}
Named    == Keyed \cup Retyping \cup {"types", "dropPrimary"}

MysqlAt(a) ==
  /\ at[a] = "failed" => err[a] = "refused"
  /\ at[a] \in Named \cup {"columns", "addNamespace"} => db.status = "active"
  /\ at[a] \in Named => "namespace" \in db.columns
  /\ at[a] \in Keyed => ~db.byId
  /\ at[a] = "createIndex" => db.unique # "reversed"
  /\ at[a] \in Last => db.unique = "right"
  /\ at[a] \in {"expiresIndex", "ready"} => "expires" \in db.columns
  /\ at[a] = "ready" => db.expiresIndex

MysqlTable ==
  /\ db.rows = scene.db.rows /\ db.unique \in {"none", "right", "reversed"}
  /\ db.status = "none" => ~db.byId

\* A column that is text has been seen by one who will change it, or nobody has looked.
MysqlText ==
  Calm => \A x \in db.text : \/ \E a \in Adapters : at[a] \in Retyping /\ x \in seen[a]
                             \/ \A a \in Adapters : at[a] \in Early

MysqlOk == MysqlTable /\ (\A a \in Adapters : MysqlAt(a)) /\ MysqlText

MysqlDoes(a) ==
  \/ \E here : FailsAt(a, here, "refused")
  \/ Does(a, "create", IfNotExists, "columns")
  \/ Sees(a, "columns", IF "namespace" \in db.columns THEN "types" ELSE "addNamespace")
  \/ Does(a, "addNamespace", [db EXCEPT !.columns = db.columns \cup {"namespace"}], "types")
  \/ "namespace" \in db.columns /\ Sees(a, "addNamespace", "types")
  \/ Does(a, "toText", [db EXCEPT !.text = db.text \cup seen[a]], "toBinary")
  \/ Does(a, "toBinary", [db EXCEPT !.text = db.text \ seen[a]], "dropPrimary")
  \/ Does(a, "dropPrimary", [db EXCEPT !.byId = FALSE], "showIndex")
  \/ ~db.byId /\ Sees(a, "dropPrimary", "showIndex")
  \/ \E p \in {"addExpires", "reorder", "createIndex"} :
        /\ Sees(a, "showIndex", p)
        /\ (p = "addExpires" => db.unique = "right") /\ (p = "createIndex" => db.unique = "none")
  \/ Does(a, "reorder", [db EXCEPT !.unique = "right"], "addExpires")
  \/ Does(a, "createIndex", [db EXCEPT !.unique = "right"], "addExpires")
  \/ db.unique # "none" /\ Sees(a, "createIndex", "addExpires")
  \/ Does(a, "addExpires", [db EXCEPT !.columns = db.columns \cup {"expires"}], "expiresIndex")
  \/ "expires" \in db.columns /\ Sees(a, "addExpires", "expiresIndex")
  \/ Does(a, "expiresIndex", [db EXCEPT !.expiresIndex = TRUE], "ready")
  \/ db.expiresIndex /\ Sees(a, "expiresIndex", "ready")

LEMMA MysqlMeans ==
  ASSUME Started, store = "mysql", MysqlTable, NEW a \in Adapters, Statement(a)
  PROVE  \/ seen'[a] = seen[a] /\ MysqlDoes(a)
         \/ seen'[a] = db.text /\ Sees(a, "types", IF db.text = {} THEN "dropPrimary" ELSE "toText")
<1> DEFINE Means == \/ seen'[a] = seen[a] /\ MysqlDoes(a)
                    \/ /\ seen'[a] = db.text
                       /\ Sees(a, "types", IF db.text = {} THEN "dropPrimary" ELSE "toText")
<1>1. ASSUME Refused(a) PROVE seen' = seen /\ \E here : FailsAt(a, here, "refused")
  BY <1>1, ThrowsOut DEF Refused, FailsAt
<1>2. ASSUME NEW here, NEW can, NEW code, NEW effect, NEW place,
             Alters(a, here, can, code, effect, place), can \/ <<here, code>> \in Tolerated
      PROVE  seen' = seen /\ (Does(a, here, effect, place) \/ (~can /\ Sees(a, here, place)))
  BY <1>2, GoesOn, ThrowsOut DEF Alters, Executed, Does, Sees
<1>3. ASSUME MysqlTypes(a)
      PROVE  seen'[a] = db.text /\ Sees(a, "types", IF db.text = {} THEN "dropPrimary" ELSE "toText")
  BY <1>3, GoesOn DEF MysqlTypes, Sees, Started
<1>4. ASSUME MysqlIndex(a)
      PROVE  /\ seen' = seen
             /\ \E p \in {"addExpires", "reorder", "createIndex"} :
                  /\ Sees(a, "showIndex", p)
                  /\ (p = "addExpires" => db.unique = "right") /\ (p = "createIndex" => db.unique = "none")
  <2>1. PICK p \in {"addExpires", "reorder", "createIndex"} :
           /\ Looks(a, "showIndex", p)
           /\ (p = "addExpires" => db.unique = "right") /\ (p = "createIndex" => db.unique = "none")
    BY <1>4 DEF MysqlIndex, MysqlTable
  <2> QED BY <2>1, GoesOn DEF Looks, Sees
<1>5. ASSUME Looks(a, "columns", IF "namespace" \in db.columns THEN "types" ELSE "addNamespace")
      PROVE  seen' = seen /\ Sees(a, "columns", IF "namespace" \in db.columns THEN "types" ELSE "addNamespace")
  BY <1>5, GoesOn DEF Looks, Sees
<1>6. ASSUME Refused(a) \/ MysqlIndex(a) \/ Looks(a, "columns", IF "namespace" \in db.columns THEN "types" ELSE "addNamespace")
      PROVE  Means
  BY <1>1, <1>4, <1>5, <1>6 DEF MysqlDoes
<1>7. ASSUME Alters(a, "create", TRUE, 1, IfNotExists, "columns")
      PROVE  Means
  BY <1>2, <1>7 DEF MysqlDoes
<1>8. ASSUME Alters(a, "addNamespace", "namespace" \notin db.columns, 1060,
            [db EXCEPT !.columns = @ \cup {"namespace"}], "types")
      PROVE  Means
  <2>1. <<"addNamespace", 1060>> \in Tolerated
    BY DEF Tolerated
  <2>2. /\ seen' = seen
        /\ \/ Does(a, "addNamespace", [db EXCEPT !.columns = db.columns \cup {"namespace"}], "types")
           \/ ~("namespace" \notin db.columns) /\ Sees(a, "addNamespace", "types")
    BY <1>8, <2>1, GoesOn, ThrowsOut DEF Alters, Executed, Does, Sees
  <2> QED BY <2>2 DEF MysqlDoes
<1>9. ASSUME Alters(a, "toText", TRUE, 1, [db EXCEPT !.text = @ \cup seen[a]], "toBinary")
      PROVE  Means
  BY <1>2, <1>9 DEF MysqlDoes
<1>10. ASSUME Alters(a, "toBinary", TRUE, 1, [db EXCEPT !.text = @ \ seen[a]], "dropPrimary")
      PROVE  Means
  BY <1>2, <1>10 DEF MysqlDoes
<1>11. ASSUME Alters(a, "dropPrimary", db.byId, 1091, [db EXCEPT !.byId = FALSE], "showIndex")
      PROVE  Means
  BY <1>2, <1>11 DEF MysqlDoes, Tolerated
<1>12. ASSUME Alters(a, "reorder", TRUE, 1, [db EXCEPT !.unique = "right"], "addExpires")
      PROVE  Means
  BY <1>2, <1>12 DEF MysqlDoes
<1>13. ASSUME Alters(a, "createIndex", db.unique = "none", 1061, [db EXCEPT !.unique = "right"], "addExpires")
      PROVE  Means
  <2>1. <<"createIndex", 1061>> \in Tolerated
    BY DEF Tolerated
  <2>2. /\ seen' = seen
        /\ \/ Does(a, "createIndex", [db EXCEPT !.unique = "right"], "addExpires")
           \/ ~(db.unique = "none") /\ Sees(a, "createIndex", "addExpires")
    BY <1>13, <2>1, GoesOn, ThrowsOut DEF Alters, Executed, Does, Sees
  <2> QED BY <2>2 DEF MysqlDoes
<1>14. ASSUME Alters(a, "addExpires", "expires" \notin db.columns, 1060,
            [db EXCEPT !.columns = @ \cup {"expires"}], "expiresIndex")
      PROVE  Means
  <2>1. <<"addExpires", 1060>> \in Tolerated
    BY DEF Tolerated
  <2>2. /\ seen' = seen
        /\ \/ Does(a, "addExpires", [db EXCEPT !.columns = db.columns \cup {"expires"}], "expiresIndex")
           \/ ~("expires" \notin db.columns) /\ Sees(a, "addExpires", "expiresIndex")
    BY <1>14, <2>1, GoesOn, ThrowsOut DEF Alters, Executed, Does, Sees
  <2> QED BY <2>2 DEF MysqlDoes
<1>15. ASSUME Alters(a, "expiresIndex", ~db.expiresIndex, 1061, [db EXCEPT !.expiresIndex = TRUE], "ready")
      PROVE  Means
  <2>1. <<"expiresIndex", 1061>> \in Tolerated
    BY DEF Tolerated
  <2>2. /\ seen' = seen
        /\ \/ Does(a, "expiresIndex", [db EXCEPT !.expiresIndex = TRUE], "ready")
           \/ db.expiresIndex /\ Sees(a, "expiresIndex", "ready")
    <3>1. CASE db.expiresIndex
      BY <1>15, <3>1, GoesOn DEF Alters, Sees, Tolerated
    <3>2. CASE ~db.expiresIndex
      BY <1>15, <3>2, GoesOn, ThrowsOut DEF Alters, Executed, Does
    <3> QED BY <3>1, <3>2
  <2> QED BY <2>2 DEF MysqlDoes
<1>16. Mysql(a) \/ Refused(a)
  BY DEF Statement
<1>17. MysqlTypes(a) => Means
  BY <1>3
<1> HIDE DEF Means
<1>18. Means
  BY <1>6, <1>7, <1>8, <1>9, <1>10, <1>11, <1>12, <1>13, <1>14, <1>15, <1>16, <1>17,
     ZenonT(60) DEF Mysql
<1> QED BY <1>18 DEF Means

LEMMA MysqlStep ==
  ASSUME Started, store = "mysql", MysqlOk, NEW a \in Adapters, Statement(a)
  PROVE  Tabled(store, db') /\ MysqlOk'
<1> DEFINE Goal == /\ Tabled(store, db') /\ MysqlTable' /\ MysqlAt(a)'
                   /\ \A b \in Adapters \ {a} : MysqlAt(b)'
<1>1. /\ \A b \in Adapters \ {a} : at'[b] = at[b] /\ err'[b] = err[b] /\ seen'[b] = seen[b]
      /\ Calm' => Calm /\ err'[a] # "refused"
      /\ store' = store /\ scene' = scene /\ starts' = starts
  BY StatementBeside DEF Beside, store, Calm, Started
<1>2. Tabled(store, db) /\ Over = "failed"
  BY DEF Started, Over
<1>3. MysqlTable /\ MysqlText /\ \A b \in Adapters : MysqlAt(b)
  BY DEF MysqlOk
<1>4. ASSUME NEW here, FailsAt(a, here, "refused") PROVE Goal /\ MysqlText'
  BY <1>1, <1>2, <1>3, <1>4 DEF FailsAt, MysqlTable, MysqlAt, MysqlText, Named, Keyed, Last, Retyping
\* The columns of text.
<1>5. ASSUME db'.text = db.text, seen'[a] = seen[a], at[a] \notin Retyping,
             Calm' => (at'[a] \in Early <=> at[a] \in Early)
      PROVE  MysqlText'
  BY <1>1, <1>3, <1>5 DEF MysqlText
<1>6. CASE seen'[a] = db.text /\ Sees(a, "types", IF db.text = {} THEN "dropPrimary" ELSE "toText")
  <2>1. Goal
    BY <1>1, <1>2, <1>3, <1>6 DEF Sees, MysqlTable, MysqlAt, Named, Keyed, Last, Retyping
  <2>2. MysqlText'
    BY <1>6 DEF Sees, MysqlText, Retyping
  <2> QED BY <1>1, <2>1, <2>2 DEF MysqlOk
<1>7. ASSUME seen'[a] = seen[a], MysqlDoes(a) PROVE Goal /\ MysqlText'
  <2>1. ASSUME Does(a, "create", IfNotExists, "columns") PROVE Goal /\ MysqlText'
    <3>1. /\ Tabled(store, db') /\ db'.text = db.text /\ db'.rows = db.rows /\ db'.byId = db.byId
          /\ db.status # "none" => db' = db
          /\ db.status = "none" => /\ db'.status = "active" /\ db'.columns = Columns
                                   /\ db'.unique = "right" /\ db'.expiresIndex
      BY <1>2, <2>1 DEF Does, IfNotExists, Created, Tabled, Shaped, Fields
    <3>2. at[a] = "create" /\ (at'[a] = "columns" \/ (at'[a] = "failed" /\ err'[a] = "refused"))
      BY <1>2, <2>1 DEF Does
    <3>6. db'.status = "active"
      BY <1>2, <3>1 DEF Tabled
    <3>3. MysqlTable' /\ MysqlAt(a)'
      BY <1>1, <1>3, <3>1, <3>2, <3>6 DEF MysqlTable, MysqlAt, Named, Keyed, Last, Retyping
    <3>4. \A b \in Adapters \ {a} : MysqlAt(b)'
      BY <1>1, <1>3, <3>1, <3>2, <3>6 DEF MysqlAt, MysqlTable, Named, Keyed, Last, Retyping, Columns
    <3>5. MysqlText'
      BY <1>1, <1>5, <1>7, <3>1, <3>2 DEF Early, Retyping
    <3> QED BY <3>1, <3>3, <3>4, <3>5
  <2>2. ASSUME Sees(a, "columns", IF "namespace" \in db.columns THEN "types" ELSE "addNamespace")
        PROVE  Goal /\ MysqlText'
    BY <1>1, <1>2, <1>3, <1>5, <1>7, <2>2 DEF Sees, MysqlTable, MysqlAt,
           Named, Keyed, Last, Retyping, Early, Tabled, Shaped, Fields, Columns
  <2>3. ASSUME Does(a, "addNamespace", [db EXCEPT !.columns = db.columns \cup {"namespace"}], "types")
        PROVE  Goal /\ MysqlText'
    <3>1. /\ Tabled(store, db') /\ db'.columns = db.columns \cup {"namespace"}
          /\ db'.status = db.status /\ db'.text = db.text /\ db'.byId = db.byId
          /\ db'.unique = db.unique /\ db'.expiresIndex = db.expiresIndex /\ db'.rows = db.rows
      BY <1>2, <2>3, AddsColumn DEF Does, Columns
    <3>2. at[a] = "addNamespace" /\ (at'[a] = "types" \/ (at'[a] = "failed" /\ err'[a] = "refused"))
      BY <1>2, <2>3 DEF Does
    <3>3. MysqlTable' /\ MysqlAt(a)'
      BY <1>1, <1>3, <3>1, <3>2 DEF MysqlTable, MysqlAt, Named, Keyed, Last, Retyping
    <3>4. \A b \in Adapters \ {a} : MysqlAt(b)'
      BY <1>1, <1>3, <3>1, <3>2 DEF MysqlAt, Named, Keyed, Last, Retyping
    <3>5. MysqlText'
      BY <1>1, <1>5, <1>7, <3>1, <3>2 DEF Early, Retyping
    <3> QED BY <3>1, <3>3, <3>4, <3>5
  <2>4. ASSUME "namespace" \in db.columns, Sees(a, "addNamespace", "types") PROVE Goal /\ MysqlText'
    BY <1>1, <1>2, <1>3, <1>5, <1>7, <2>4 DEF Sees, MysqlTable, MysqlAt,
           Named, Keyed, Last, Retyping, Early, Tabled, Shaped, Fields, Columns
  <2>5. ASSUME Does(a, "toText", [db EXCEPT !.text = db.text \cup seen[a]], "toBinary")
        PROVE  Goal /\ MysqlText'
    <3>1. /\ Tabled(store, db') /\ db'.text = db.text \cup seen[a]
          /\ db'.status = db.status /\ db'.columns = db.columns /\ db'.byId = db.byId
          /\ db'.unique = db.unique /\ db'.expiresIndex = db.expiresIndex /\ db'.rows = db.rows
      BY <1>2, <2>5, ChangesText DEF Does
    <3>2. at[a] = "toText" /\ (at'[a] = "toBinary" \/ (at'[a] = "failed" /\ err'[a] = "refused"))
      BY <1>2, <2>5 DEF Does
    <3>3. MysqlTable' /\ MysqlAt(a)'
      BY <1>1, <1>3, <3>1, <3>2 DEF MysqlTable, MysqlAt, Named, Keyed, Last, Retyping
    <3>4. \A b \in Adapters \ {a} : MysqlAt(b)'
      BY <1>1, <1>3, <3>1, <3>2 DEF MysqlAt, Named, Keyed, Last, Retyping
    <3>5. MysqlText'
      BY <1>1, <1>3, <1>7, <3>1, <3>2 DEF MysqlText, Retyping, Early
    <3> QED BY <3>1, <3>3, <3>4, <3>5
  <2>6. ASSUME Does(a, "toBinary", [db EXCEPT !.text = db.text \ seen[a]], "dropPrimary")
        PROVE  Goal /\ MysqlText'
    <3>1. /\ Tabled(store, db') /\ db'.text = db.text \ seen[a]
          /\ db'.status = db.status /\ db'.columns = db.columns /\ db'.byId = db.byId
          /\ db'.unique = db.unique /\ db'.expiresIndex = db.expiresIndex /\ db'.rows = db.rows
      BY <1>2, <2>6, ChangesText DEF Does
    <3>2. at[a] = "toBinary" /\ (at'[a] = "dropPrimary" \/ (at'[a] = "failed" /\ err'[a] = "refused"))
      BY <1>2, <2>6 DEF Does
    <3>3. MysqlTable' /\ MysqlAt(a)'
      BY <1>1, <1>3, <3>1, <3>2 DEF MysqlTable, MysqlAt, Named, Keyed, Last, Retyping
    <3>4. \A b \in Adapters \ {a} : MysqlAt(b)'
      BY <1>1, <1>3, <3>1, <3>2 DEF MysqlAt, Named, Keyed, Last, Retyping
    <3>5. MysqlText'
      BY <1>1, <1>3, <1>7, <3>1, <3>2 DEF MysqlText, Retyping, Early
    <3> QED BY <3>1, <3>3, <3>4, <3>5
  <2>7. ASSUME Does(a, "dropPrimary", [db EXCEPT !.byId = FALSE], "showIndex") PROVE Goal /\ MysqlText'
    <3>1. /\ Tabled(store, db') /\ db'.byId = FALSE
          /\ db'.status = db.status /\ db'.columns = db.columns /\ db'.text = db.text
          /\ db'.unique = db.unique /\ db'.expiresIndex = db.expiresIndex /\ db'.rows = db.rows
      BY <1>2, <2>7, DropsPrimary DEF Does
    <3>2. at[a] = "dropPrimary" /\ (at'[a] = "showIndex" \/ (at'[a] = "failed" /\ err'[a] = "refused"))
      BY <1>2, <2>7 DEF Does
    <3>3. MysqlTable' /\ MysqlAt(a)'
      BY <1>1, <1>3, <3>1, <3>2 DEF MysqlTable, MysqlAt, Named, Keyed, Last, Retyping
    <3>4. \A b \in Adapters \ {a} : MysqlAt(b)'
      BY <1>1, <1>3, <3>1, <3>2 DEF MysqlAt, Named, Keyed, Last, Retyping
    <3>5. MysqlText'
      BY <1>1, <1>5, <1>7, <3>1, <3>2 DEF Early, Retyping
    <3> QED BY <3>1, <3>3, <3>4, <3>5
  <2>8. ASSUME ~db.byId, Sees(a, "dropPrimary", "showIndex") PROVE Goal /\ MysqlText'
    BY <1>1, <1>2, <1>3, <1>5, <1>7, <2>8 DEF Sees, MysqlTable, MysqlAt,
           Named, Keyed, Last, Retyping, Early, Tabled, Shaped, Fields, Columns
  <2>9. ASSUME NEW p \in {"addExpires", "reorder", "createIndex"}, Sees(a, "showIndex", p),
               p = "addExpires" => db.unique = "right", p = "createIndex" => db.unique = "none"
        PROVE  Goal /\ MysqlText'
    BY <1>1, <1>2, <1>3, <1>5, <1>7, <2>9 DEF Sees, MysqlTable, MysqlAt,
           Named, Keyed, Last, Retyping, Early, Tabled, Shaped, Fields, Columns
  <2>10. ASSUME NEW here \in {"reorder", "createIndex"},
                Does(a, here, [db EXCEPT !.unique = "right"], "addExpires")
         PROVE  Goal /\ MysqlText'
    <3>1. /\ Tabled(store, db') /\ db'.unique = "right"
          /\ db'.status = db.status /\ db'.columns = db.columns /\ db'.text = db.text
          /\ db'.byId = db.byId /\ db'.expiresIndex = db.expiresIndex /\ db'.rows = db.rows
      BY <1>2, <2>10, MakesIndex DEF Does
    <3>2. at[a] = here /\ (at'[a] = "addExpires" \/ (at'[a] = "failed" /\ err'[a] = "refused"))
      BY <1>2, <2>10 DEF Does
    <3>3. MysqlTable' /\ MysqlAt(a)'
      BY <1>1, <1>3, <3>1, <3>2 DEF MysqlTable, MysqlAt, Named, Keyed, Last, Retyping
    <3>4. \A b \in Adapters \ {a} : MysqlAt(b)'
      BY <1>1, <1>3, <3>1, <3>2 DEF MysqlAt, Named, Keyed, Last, Retyping
    <3>5. MysqlText'
      BY <1>1, <1>5, <1>7, <3>1, <3>2 DEF Early, Retyping
    <3> QED BY <3>1, <3>3, <3>4, <3>5
  <2>11. ASSUME db.unique # "none", Sees(a, "createIndex", "addExpires") PROVE Goal /\ MysqlText'
    BY <1>1, <1>2, <1>3, <1>5, <1>7, <2>11 DEF Sees, MysqlTable, MysqlAt,
           Named, Keyed, Last, Retyping, Early, Tabled, Shaped, Fields, Columns
  <2>12. ASSUME Does(a, "addExpires", [db EXCEPT !.columns = db.columns \cup {"expires"}], "expiresIndex")
         PROVE  Goal /\ MysqlText'
    <3>1. /\ Tabled(store, db') /\ db'.columns = db.columns \cup {"expires"}
          /\ db'.status = db.status /\ db'.text = db.text /\ db'.byId = db.byId
          /\ db'.unique = db.unique /\ db'.expiresIndex = db.expiresIndex /\ db'.rows = db.rows
      BY <1>2, <2>12, AddsColumn DEF Does, Columns
    <3>2. at[a] = "addExpires" /\ (at'[a] = "expiresIndex" \/ (at'[a] = "failed" /\ err'[a] = "refused"))
      BY <1>2, <2>12 DEF Does
    <3>3. MysqlTable' /\ MysqlAt(a)'
      BY <1>1, <1>3, <3>1, <3>2 DEF MysqlTable, MysqlAt, Named, Keyed, Last, Retyping
    <3>4. \A b \in Adapters \ {a} : MysqlAt(b)'
      BY <1>1, <1>3, <3>1, <3>2 DEF MysqlAt, Named, Keyed, Last, Retyping
    <3>5. MysqlText'
      BY <1>1, <1>5, <1>7, <3>1, <3>2 DEF Early, Retyping
    <3> QED BY <3>1, <3>3, <3>4, <3>5
  <2>13. ASSUME "expires" \in db.columns, Sees(a, "addExpires", "expiresIndex") PROVE Goal /\ MysqlText'
    BY <1>1, <1>2, <1>3, <1>5, <1>7, <2>13 DEF Sees, MysqlTable, MysqlAt,
           Named, Keyed, Last, Retyping, Early, Tabled, Shaped, Fields, Columns
  <2>14. ASSUME Does(a, "expiresIndex", [db EXCEPT !.expiresIndex = TRUE], "ready")
         PROVE  Goal /\ MysqlText'
    <3>1. /\ Tabled(store, db') /\ db'.expiresIndex = TRUE
          /\ db'.status = db.status /\ db'.columns = db.columns /\ db'.text = db.text
          /\ db'.byId = db.byId /\ db'.unique = db.unique /\ db'.rows = db.rows
      BY <1>2, <2>14, MakesExpiresIndex DEF Does
    <3>2. at[a] = "expiresIndex" /\ (at'[a] = "ready" \/ (at'[a] = "failed" /\ err'[a] = "refused"))
      BY <1>2, <2>14 DEF Does
    <3>3. MysqlTable' /\ MysqlAt(a)'
      BY <1>1, <1>3, <3>1, <3>2 DEF MysqlTable, MysqlAt, Named, Keyed, Last, Retyping
    <3>4. \A b \in Adapters \ {a} : MysqlAt(b)'
      BY <1>1, <1>3, <3>1, <3>2 DEF MysqlAt, Named, Keyed, Last, Retyping
    <3>5. MysqlText'
      BY <1>1, <1>5, <1>7, <3>1, <3>2 DEF Early, Retyping
    <3> QED BY <3>1, <3>3, <3>4, <3>5
  <2>15. ASSUME db.expiresIndex, Sees(a, "expiresIndex", "ready") PROVE Goal /\ MysqlText'
    BY <1>1, <1>2, <1>3, <1>5, <1>7, <2>15 DEF Sees, MysqlTable, MysqlAt,
           Named, Keyed, Last, Retyping, Early, Tabled, Shaped, Fields, Columns
  <2> HIDE DEF Goal
  <2> QED BY <1>4, <1>7, <2>1, <2>2, <2>3, <2>4, <2>5, <2>6, <2>7, <2>8, <2>9, <2>10, <2>11, <2>12,
             <2>13, <2>14, <2>15 DEF MysqlDoes
<1> QED BY <1>1, <1>6, <1>7, MysqlMeans DEF MysqlOk

-----------------------------------------------------------------------------
(* dynamo *)

DynamoAt(a) ==
  /\ at[a] # "failed"
  /\ at[a] = "ttl" => db.status = "active"
  /\ at[a] = "ready" /\ err[a] # "refused" => db.status = "active"

DynamoOk ==
  /\ db.rows = scene.db.rows
  /\ \A a \in Adapters : DynamoAt(a)
  /\ Calm /\ scene.db.status = "none" /\ db.status # "none" /\ ~db.ttl => Somebody({"waitOwn", "ttl"})

LEMMA DynamoMeans ==
  ASSUME Started, store = "dynamo", NEW a \in Adapters, Statement(a)
  PROVE  \/ \E here : FailsAt(a, here, "refused")
         \/ \E here \in {"describe", "describeAgain"}, p \in {"describeAgain", "create", "wait", "ready"} :
              Sees(a, here, p) /\ (p = "ready" => db.status = "active")
         \/ db.status = "active" /\ Sees(a, "wait", "ready")
         \/ db.status = "none" /\ Does(a, "create", Created, "waitOwn")
         \/ db.status # "none" /\ Sees(a, "create", "waitOwn")
         \/ db.status = "active" /\ Sees(a, "waitOwn", "ttl")
         \/ Does(a, "ttl", [db EXCEPT !.ttl = TRUE], "ready")
<1>1. CASE Refused(a)
  BY <1>1, ThrowsOut DEF Refused, FailsAt
<1>2. ASSUME NEW here \in {"describe", "describeAgain"}, NEW missing \in {"describeAgain", "create"},
             Describe(a, here, missing)
      PROVE  \E p \in {"describeAgain", "create", "wait", "ready"} :
                Sees(a, here, p) /\ (p = "ready" => db.status = "active")
  <2>1. PICK p \in {"describeAgain", "create", "wait", "ready"} :
             Looks(a, here, p) /\ (p = "ready" => db.status = "active")
    <3>1. CASE db.status = "none"
      BY <1>2, <3>1 DEF Describe
    <3>2. CASE db.status = "creating"
      BY <1>2, <3>2 DEF Describe
    <3>3. CASE db.status = "active"
      BY <1>2, <3>3 DEF Describe
    <3> QED BY <3>1, <3>2, <3>3 DEF Started, Tabled
  <2> QED BY <2>1, GoesOn DEF Looks, Sees
<1>3. CASE Describe(a, "describe", "describeAgain") \/ Describe(a, "describeAgain", "create")
  BY <1>2, <1>3
<1>4. CASE Dynamo(a) /\ ~(Describe(a, "describe", "describeAgain") \/ Describe(a, "describeAgain", "create"))
  BY <1>4, GoesOn, ThrowsOut DEF Dynamo, Wait, Looks, InUse, Executed, Does, Sees
<1> QED BY <1>1, <1>3, <1>4 DEF Statement

LEMMA DynamoStep ==
  ASSUME Started, store = "dynamo", DynamoOk, NEW a \in Adapters, Statement(a)
  PROVE  Tabled(store, db') /\ DynamoOk'
<1> DEFINE Goal == /\ Tabled(store, db') /\ db'.rows = db.rows /\ DynamoAt(a)'
                   /\ \A b \in Adapters \ {a} : DynamoAt(b)'
                   /\ Calm' /\ scene.db.status = "none" /\ db'.status # "none" /\ ~db'.ttl
                       => Somebody({"waitOwn", "ttl"})'
<1>1. /\ \A b \in Adapters \ {a} : at'[b] = at[b] /\ err'[b] = err[b]
      /\ Calm' => Calm /\ err'[a] # "refused"
      /\ store' = store /\ scene' = scene
  BY StatementBeside DEF Beside, store, Calm, Started
<1>2. Tabled(store, db) /\ Over = "ready"
  BY DEF Started, Over
<1>3. DynamoOk
  OBVIOUS
<1>4. \A P : /\ (\E b \in Adapters \ {a} : at[b] \in P) => Somebody(P)'
             /\ at'[a] \in P => Somebody(P)'
             /\ Somebody(P) => at[a] \in P \/ \E b \in Adapters \ {a} : at[b] \in P
  BY <1>1 DEF Somebody
<1>5. Goal
  <2>1. ASSUME NEW here, FailsAt(a, here, "refused") PROVE Goal
    BY <1>1, <1>2, <1>3, <2>1 DEF FailsAt, DynamoOk, DynamoAt
  <2>2. ASSUME NEW here, NEW p, here \notin {"waitOwn", "ttl"}, p # "ttl", Sees(a, here, p),
               p = "ready" => db.status = "active", p # "failed"
        PROVE  Goal
    BY <1>1, <1>2, <1>3, <1>4, <2>2 DEF Sees, DynamoOk, DynamoAt
  <2>3. ASSUME db.status = "none", Does(a, "create", Created, "waitOwn") PROVE Goal
    BY <1>1, <1>2, <1>3, <1>4, <2>3 DEF Does, Created, DynamoOk, DynamoAt, Tabled, Shaped, Fields
  <2>4. ASSUME db.status = "active", Sees(a, "waitOwn", "ttl") PROVE Goal
    BY <1>1, <1>2, <1>3, <1>4, <2>4 DEF Sees, DynamoOk, DynamoAt
  <2>5. ASSUME Does(a, "ttl", [db EXCEPT !.ttl = TRUE], "ready") PROVE Goal
    BY <1>1, <1>2, <1>3, <1>4, <2>5 DEF Does, DynamoOk, DynamoAt, Tabled, Shaped, Fields
  <2> HIDE DEF Goal
  <2> QED BY DynamoMeans, <2>1, <2>2, <2>3, <2>4, <2>5
<1> QED BY <1>1, <1>3, <1>5 DEF DynamoOk

-----------------------------------------------------------------------------
(* All of them. *)

StartInv == /\ Started
            /\ store = "sqlite" => SqliteOk /\ SqliteRows
            /\ store = "postgres" => PostgresOk
            /\ store = "mysql" => MysqlOk
            /\ store = "dynamo" => DynamoOk

LEMMA StartInvInit == StartInit => StartInv
<1> SUFFICES ASSUME StartInit PROVE StartInv
  OBVIOUS
<1>1. /\ scene \in Scenes /\ store \in Stores /\ Found(store, db) /\ db = scene.db
  BY SceneAssumption DEF StartInit, store
<1>2. /\ Shaped(db) /\ db.renamed = FALSE /\ db.aside = {}
  BY <1>1 DEF Found, Shaped, Fields, Absent
<1>3. Tabled(store, db)
  BY <1>1, <1>2 DEF Found, Tabled
<1>4. /\ at = [a \in Adapters |-> "off"] /\ err = [a \in Adapters |-> "none"]
      /\ seen = [a \in Adapters |-> {}] /\ starts = 0 /\ crashes = 0 /\ refusals = 0
  BY DEF StartInit
<1>5. Started
  BY <1>1, <1>3, <1>4 DEF Started
<1>6. db.status = "none" => /\ db.columns = {} /\ ~db.byId /\ db.unique = "none" /\ db.rows = {}
  BY <1>1 DEF Found, Absent
<1>7. CASE store = "sqlite"
  <2>1. SqliteTable
    BY <1>1, <1>2, <1>6, <1>7 DEF Found, SqliteTable
  <2>2. OneMigrates /\ \A a \in Adapters : SqliteAt(a)
    BY <1>4, MigratingPlaces DEF OneMigrates, SqliteAt
  <2>3. \A r \in scene.db.rows : There(r)
    BY <1>1, <1>6, <1>7 DEF There, Found, Owed
  <2> QED BY <1>2, <1>4, <1>5, <1>7, <2>1, <2>2, <2>3 DEF StartInv, SqliteOk, SqliteRows
<1>8. CASE store = "postgres"
  BY <1>1, <1>4, <1>5, <1>6, <1>8 DEF StartInv, PostgresOk, PostgresTable, PostgresAt, PostgresGoal, Found
<1>9. CASE store = "mysql"
  BY <1>1, <1>4, <1>5, <1>6, <1>9 DEF StartInv, MysqlOk, MysqlTable, MysqlAt, MysqlText, Found, Named,
                                  Keyed, Last, Retyping, Early
<1>10. CASE store = "dynamo"
  BY <1>1, <1>4, <1>5, <1>10 DEF StartInv, DynamoOk, DynamoAt
<1> QED BY <1>1, <1>7, <1>8, <1>9, <1>10 DEF Stores

\* A statement.
LEMMA StatementInv ==
  ASSUME StartInv, NEW a \in Adapters, Statement(a)
  PROVE  StartInv'
<1>1. Started /\ Beside(a)
  BY StatementBeside DEF StartInv
<1>2. store' = store /\ store \in Stores
  BY <1>1, SceneAssumption DEF Beside, store, Started
<1>3. Tabled(store, db') => Started'
  <2>1. at[a] # "off"
    BY DEF Statement, Sqlite, SqliteInspect, Postgres, Mysql, MysqlTypes, MysqlIndex, Dynamo, Refused,
           UnderWay, Alters, IfMissing, Looks, Describe, Wait
  <2>2. at'[a] # "off"
    <3>1. CASE store = "sqlite"
      BY <1>1, <3>1, SqliteMeans DEF Does, FailsAt, Over
    <3>2. CASE store = "postgres"
      BY <1>1, <3>2, PostgresMeans DEF Does, FailsAt, Sees, Over
    <3>3. CASE store = "mysql"
      BY <1>1, <3>3, MysqlMeans DEF StartInv, MysqlOk, MysqlDoes, Does, FailsAt, Sees, Over
    <3>4. CASE store = "dynamo"
      BY <1>1, <3>4, DynamoMeans DEF Does, FailsAt, Sees, Over
    <3> QED BY <1>2, <3>1, <3>2, <3>3, <3>4 DEF Stores
  <2> QED BY <1>1, <1>2, <2>1, <2>2 DEF Beside, Started
<1>4. CASE store = "sqlite"
  BY <1>1, <1>2, <1>3, <1>4, SqliteStep, SqliteRowsStep DEF StartInv
<1>5. CASE store = "postgres"
  BY <1>1, <1>2, <1>3, <1>5, PostgresStep DEF StartInv
<1>6. CASE store = "mysql"
  BY <1>1, <1>2, <1>3, <1>6, MysqlStep DEF StartInv
<1>7. CASE store = "dynamo"
  BY <1>1, <1>2, <1>3, <1>7, DynamoStep DEF StartInv
<1> QED BY <1>2, <1>4, <1>5, <1>6, <1>7 DEF Stores

LEMMA ActivateInv == StartInv /\ Activate => StartInv'
<1> SUFFICES ASSUME StartInv, Activate PROVE StartInv'
  OBVIOUS
<1>1. /\ Started /\ store = "dynamo" /\ DynamoOk /\ db.status = "creating" /\ store' = store
      /\ UNCHANGED <<scene, at, seen, err, starts, crashes, refusals>>
      /\ db' = [db EXCEPT !.status = "active"]
  BY DEF StartInv, Activate, Started, Tabled, store
<1>2. /\ Tabled(store, db') /\ db'.status = "active" /\ db'.rows = db.rows /\ db'.ttl = db.ttl
  BY <1>1 DEF Started, Tabled, Shaped, Fields
<1>3. Started'
  BY <1>1, <1>2 DEF Started
<1>4. DynamoOk'
  BY <1>1, <1>2 DEF DynamoOk, DynamoAt, Somebody, Calm
<1> QED BY <1>1, <1>3, <1>4 DEF StartInv

\* A start, or a crash: a begins anew, or is gone.
LEMMA BeginInv ==
  ASSUME StartInv, NEW a \in Adapters, Start(a) \/ Crash(a)
  PROVE  StartInv'
<1> DEFINE p == at'[a]
<1>1. /\ Started /\ UNCHANGED <<scene, db, seen, refusals, clash>> /\ store' = store /\ store \in Stores
      /\ \A b \in Adapters \ {a} : at'[b] = at[b] /\ err'[b] = err[b]
  BY SceneAssumption DEF StartInv, Start, Crash, store, Started
<1>2. /\ p = "off" \/ (p = First[store] /\ err'[a] = "none" /\ ~UnderWay(a) /\ crashes' = crashes)
      /\ p = "off" => crashes' > 0
      /\ Calm' => Calm
  BY <1>1 DEF Start, Crash, Started, Calm, First, Stores
<1>3. Started'
  BY <1>1, <1>2 DEF Started, Start, Crash, First, Stores
<1>4. CASE store = "sqlite"
  <2>1. p \in {"off", "inspect"}
    BY <1>2, <1>4 DEF First
  <2>2. SqliteOk'
    BY <1>1, <1>4, <2>1, MigratingPlaces
       DEF StartInv, SqliteOk, OneMigrates, SqliteTable, SqliteAt, Whole
  <2>3. SqliteRows'
    BY <1>1, <1>2, <1>4, <2>1 DEF StartInv, SqliteRows, There, Owed, Calm, UnderWay, store
  <2> QED BY <1>1, <1>3, <1>4, <2>2, <2>3 DEF StartInv
<1>5. CASE store = "postgres"
  <2>1. p \in {"off", "create"}
    BY <1>2, <1>5 DEF First
  <2>2. PostgresTable' /\ \A b \in Adapters : PostgresAt(b)'
    BY <1>1, <1>5, <2>1 DEF StartInv, PostgresOk, PostgresTable, PostgresAt, Whole
  <2>3. Calm' => p = "create"
    BY <1>2, <2>1 DEF Calm
  <2>4. Calm' => Somebody(Shaping)' /\ Somebody(Indexing)' /\ Somebody(Ending)'
    BY <2>3 DEF Somebody, Shaping, Indexing, Ending
  <2> QED BY <1>1, <1>3, <1>5, <2>2, <2>4 DEF StartInv, PostgresOk, PostgresGoal
<1>6. CASE store = "mysql"
  <2>1. p \in {"off", "create"}
    BY <1>2, <1>6 DEF First
  <2>2. MysqlTable' /\ \A b \in Adapters : MysqlAt(b)'
    BY <1>1, <1>6, <2>1 DEF StartInv, MysqlOk, MysqlTable, MysqlAt, Named, Keyed, Last, Retyping
  <2>3. MysqlText'
    BY <1>1, <1>2, <1>6, <2>1 DEF StartInv, MysqlOk, MysqlText, Calm, UnderWay, Early, Retyping
  <2> QED BY <1>1, <1>3, <1>6, <2>2, <2>3 DEF StartInv, MysqlOk
<1>7. CASE store = "dynamo"
  <2>1. p \in {"off", "describe"}
    BY <1>2, <1>7 DEF First
  <2>2. DynamoOk'
    BY <1>1, <1>2, <1>7, <2>1 DEF StartInv, DynamoOk, DynamoAt, Somebody, Calm, UnderWay
  <2> QED BY <1>1, <1>3, <1>7, <2>2 DEF StartInv
<1> QED BY <1>1, <1>4, <1>5, <1>6, <1>7 DEF Stores

LEMMA StartInvStep == StartInv /\ [StartNext]_startVars => StartInv'
<1> SUFFICES ASSUME StartInv, [StartNext]_startVars PROVE StartInv'
  OBVIOUS
<1>1. CASE UNCHANGED startVars
  <2>1. UNCHANGED <<scene, db, at, seen, err, starts, crashes, refusals, clash>> /\ store' = store
    BY <1>1 DEF startVars, store
  <2> QED BY <2>1 DEF StartInv, Started, SqliteOk, OneMigrates, SqliteTable, SqliteAt, SqliteRows, There,
                    Owed, Calm, Whole, PostgresOk, PostgresTable, PostgresAt, PostgresGoal, Somebody,
                    MysqlOk, MysqlTable, MysqlAt, MysqlText, DynamoOk, DynamoAt
<1>2. CASE StartNext
  BY <1>2, ActivateInv, BeginInv, StatementInv DEF StartNext
<1> QED BY <1>1, <1>2

\* A start of sqlite or mysql fails only when a statement was refused or lost its
\* answer, whatever other starts do between its statements; but for two that
\* migrate one sqlite table at once.
THEOREM StartsAreIndependent == StartSpec => []StartsIndependent
<1>1. StartInv => StartsIndependent
  <2> SUFFICES ASSUME StartInv, NEW a \in Adapters, at[a] = "failed", ~clash PROVE err[a] = "refused"
    BY DEF StartsIndependent
  <2>1. store \in Stores
    BY SceneAssumption DEF StartInv, Started, store
  <2> QED BY <2>1 DEF StartInv, SqliteOk, SqliteAt, PostgresOk, PostgresAt, MysqlOk, MysqlAt, DynamoOk,
                    DynamoAt, Stores
<1> QED BY <1>1, StartInvInit, StartInvStep, PTL DEF StartSpec

\* No start loses a row of the table it finds, and when all of them are over
\* and none was disturbed every row is where the operations look for it.
THEOREM StartsKeepRows == StartSpec => []RowsKept
<1>1. StartInv => RowsKept
  <2> SUFFICES ASSUME StartInv, ~clash, NEW r \in scene.db.rows
      PROVE  /\ {r, Owed(r)} \cap db.rows # {} \/ r \in db.aside
             /\ Calm /\ Quiet /\ starts > 0 => Owed(r) \in db.rows
    BY DEF RowsKept
  <2>1. store \in Stores /\ Started
    BY SceneAssumption DEF StartInv, Started, store
  <2>2. CASE store = "sqlite"
    <3>1. There(r)
      BY <2>2 DEF StartInv, SqliteRows
    <3>2. ASSUME Calm, Quiet, starts > 0 PROVE Owed(r) \in db.rows
      <4>1. PICK a \in Adapters : at[a] # "off"
        BY <2>1, <3>2 DEF Started, Calm
      <4>2. at[a] = "ready"
        <5>1. at[a] \in {"ready", "failed"}
          BY <3>2, <4>1 DEF Quiet, UnderWay
        <5>2. at[a] = "failed" => err[a] = "refused"
          BY <2>2 DEF StartInv, SqliteOk, SqliteAt
        <5> QED BY <2>1, <3>2, <5>1, <5>2 DEF Started, Calm
      <4>3. "namespace" \in db.columns
        BY <2>2, <4>2 DEF StartInv, SqliteOk, SqliteAt, Whole, Columns
      <4>4. ~db.renamed
        BY <2>2, <3>2 DEF StartInv, SqliteRows, Quiet, UnderWay
      <4> QED BY <3>1, <4>3, <4>4 DEF There
    <3> QED BY <3>1, <3>2 DEF There
  <2>3. CASE store # "sqlite"
    <3>1. db.rows = scene.db.rows
      BY <2>1, <2>3 DEF StartInv, PostgresOk, PostgresTable, MysqlOk, MysqlTable, DynamoOk, Stores
    <3>2. Owed(r) = r
      BY <2>3 DEF Owed
    <3> QED BY <3>1, <3>2
  <2> QED BY <2>2, <2>3
<1> QED BY <1>1, StartInvInit, StartInvStep, PTL DEF StartSpec

\* Whoever is ready finds a table its operations can use, and keeps finding it, and a
\* table nobody is at work on is complete when no start was disturbed.
THEOREM StartsAreComplete == StartSpec => []StartsComplete
<1>1. StartInv => StartsComplete
  <2> SUFFICES ASSUME StartInv, ~clash
      PROVE  /\ \A a \in Adapters : at[a] = "ready" =>
                  Usable \/ (store \in {"postgres", "dynamo"} /\ err[a] \in {"refused", "createRace"})
             /\ Calm /\ Quiet /\ (\E a \in Adapters : at[a] = "ready") => Complete
    BY DEF StartsComplete
  <2>1. store \in Stores /\ Started
    BY SceneAssumption DEF StartInv, Started, store
  <2>2. ASSUME NEW a \in Adapters, at[a] = "ready"
        PROVE  Usable \/ (store \in {"postgres", "dynamo"} /\ err[a] \in {"refused", "createRace"})
    <3>1. CASE store = "sqlite"
      BY <2>2, <3>1 DEF StartInv, SqliteOk, SqliteAt, SqliteTable, Whole, Usable, Columns
    <3>2. CASE store = "postgres"
      BY <2>2, <3>2 DEF StartInv, PostgresOk, PostgresAt, Whole, Usable
    <3>3. CASE store = "mysql"
      BY <2>1, <2>2, <3>3 DEF StartInv, MysqlOk, MysqlAt, Named, Keyed, Last, Usable, Columns, Started, Tabled
    <3>4. CASE store = "dynamo"
      BY <2>2, <3>4 DEF StartInv, DynamoOk, DynamoAt, Usable
    <3> QED BY <2>1, <3>1, <3>2, <3>3, <3>4 DEF Stores
  <2>3. ASSUME Calm, Quiet, NEW a \in Adapters, at[a] = "ready" PROVE Complete
    <3>1. err[a] # "refused" /\ starts > 0
      BY <2>1, <2>3 DEF Started, Calm
    <3>2. \A b \in Adapters : at[b] \in {"off", "ready", "failed"}
      BY <2>3 DEF Quiet, UnderWay
    <3>3. CASE store = "sqlite"
      BY <2>2, <2>3, <3>3 DEF StartInv, SqliteOk, SqliteAt, SqliteTable, Complete
    <3>4. CASE store = "postgres"
      <4>1. db.status = "active"
        BY <2>3, <3>1, <3>4 DEF StartInv, PostgresOk, PostgresAt
      <4>2. ~Somebody(Shaping) /\ ~Somebody(Indexing) /\ ~Somebody(Ending)
        BY <3>2 DEF Somebody, Shaping, Indexing, Ending
      <4> QED BY <2>3, <3>1, <3>4, <4>1, <4>2
              DEF StartInv, PostgresOk, PostgresTable, PostgresGoal, Complete, Usable
    <3>5. CASE store = "mysql"
      <4>1. Usable /\ db.expiresIndex
        BY <2>2, <2>3, <3>5 DEF StartInv, MysqlOk, MysqlAt
      <4>2. db.text = {}
        BY <2>3, <3>2, <3>5 DEF StartInv, MysqlOk, MysqlText, Early, Retyping
      <4> QED BY <3>5, <4>1, <4>2 DEF Complete
    <3>6. CASE store = "dynamo"
      <4>1. db.status = "active"
        BY <2>3, <3>1, <3>6 DEF StartInv, DynamoOk, DynamoAt
      <4>2. ~Somebody({"waitOwn", "ttl"})
        BY <3>2 DEF Somebody
      <4> QED BY <2>3, <3>6, <4>1, <4>2 DEF StartInv, DynamoOk, Complete, Usable
    <3> QED BY <2>1, <3>3, <3>4, <3>5, <3>6 DEF Stores
  <2> QED BY <2>2, <2>3
<1> QED BY <1>1, StartInvInit, StartInvStep, PTL DEF StartSpec
=============================================================================
