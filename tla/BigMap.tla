------------------------------- MODULE BigMap -------------------------------
(***************************************************************************)
(* BigMap (core/bigmap): a map spread over several JavaScript Maps by a    *)
(* hash of the key.  With one Map and any hash it is an ordinary Map.  The *)
(* operators return what an operation leaves in the Maps; LocalStore is    *)
(* made of them.                                                           *)
(*                                                                         *)
(* A Map yields its entries in the order in which they were put there, and *)
(* an entry that is overwritten keeps its place.                           *)
(***************************************************************************)
EXTENDS Integers

CONSTANT Hashes   \* hash functions: each gives a number for every key

VARIABLES
  size,   \* _storeSize
  hash,   \* _storeHashFunction: which of them
  maps,   \* _store: for each index the entries of that Map
  moved   \* whether the hash function was replaced while there were entries

bigMap == <<size, hash, maps, moved>>

Empty == [k \in {} |-> k]

\* getStore() and _resolve(): a hash function may return any whole number.
Slot(k) == IF size = 1 THEN 0
           ELSE (IF Hashes[hash][k] < 0 THEN -Hashes[hash][k] ELSE Hashes[hash][k]) % size

\* initStore()
Fresh(n) == [i \in 0 .. n - 1 |-> Empty]

\* has() and get()
Holds(k) == k \in DOMAIN maps[Slot(k)]
At(k)    == maps[Slot(k)][k]

\* set(), for each of the keys of rows.
With(rows) ==
  [i \in 0 .. size - 1 |->
     [k \in DOMAIN maps[i] \cup {j \in DOMAIN rows : Slot(j) = i} |->
        IF k \in DOMAIN rows /\ Slot(k) = i THEN rows[k] ELSE maps[i][k]]]

\* delete(), for each of the keys.
Without(keys) ==
  [i \in 0 .. size - 1 |->
     [k \in {j \in DOMAIN maps[i] : j \notin keys \/ Slot(j) # i} |-> maps[i][k]]]

\* What size counts and entries(), keys(), values() and forEach() go through.
Entries == UNION {{i} \X DOMAIN maps[i] : i \in 0 .. size - 1}

\* They go through the Maps one after the other, each in its order: a place is
\* a Map and a moment in it.
Place(entry)   == <<entry[1], maps[entry[1]][entry[2]].at>>
Precedes(p, q) == p[1] < q[1] \/ (p[1] = q[1] /\ p[2] < q[2])
After(place)   == {entry \in Entries : Precedes(place, Place(entry))}
Start          == <<0, 0>>

\* storeSize, its setter: the entries are gone.  In a variant they stay.
Resize_Keeps(n) ==
  /\ size' = n /\ maps' = [i \in 0 .. n - 1 |-> IF i < size THEN maps[i] ELSE Empty]
  /\ moved' = FALSE /\ UNCHANGED hash
Resize(n) == size' = n /\ maps' = Fresh(n) /\ moved' = FALSE /\ UNCHANGED hash

\* storeHashFunction, its setter: the entries stay where they are.
Rehash(h) == hash' = h /\ moved' = (moved \/ Entries # {}) /\ UNCHANGED <<size, maps>>
=============================================================================
