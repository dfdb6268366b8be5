--------------------------- MODULE LocalStoreProofs ---------------------------
(***************************************************************************)
(* The properties of LocalStore, for any number of Maps, any hash          *)
(* functions, any keys, Keyvs, adapters and callers.                       *)
(*                                                                         *)
(* Placed is inductive by itself: an action either changes the Maps        *)
(* through With or Without, which put and take entries where Slot says, or *)
(* empties them, or replaces the hash function and leaves moved behind if  *)
(* that can matter.  The rest is built in layers:                          *)
(*   LocalInv    types, the truth of the sanitizers' caches, and that the  *)
(*               rows of a Map are numbered in the order they were put;    *)
(*   Watches     what is observed of a call fits the call;                 *)
(*   IterateInv  what an iterator owes lies before it or was passed;       *)
(*   RowInv      each row lies in the namespace that wrote it, and a call  *)
(*               holds what lies, or lay, in a namespace its adapter had.  *)
(* The last needs OneWord: with the separator inside a key or a namespace, *)
(* "a:b" of no namespace is "b" of namespace "a", and the store, not the   *)
(* proof, mixes them up.                                                   *)
(***************************************************************************)
EXTENDS LocalStoreHistory, SequenceTheorems, FiniteSetTheorems, WellFoundedInduction, TLAPS

\* With, the code of BigMap's set(), puts an entry in the Map of its key.
LEMMA WithPlaced ==
  ASSUME NEW rows, Placed, maps' = With(rows), UNCHANGED <<size, hash, moved>>
  PROVE  Placed'
<1> SUFFICES ASSUME ~moved, NEW i \in 0 .. size - 1, NEW k \in DOMAIN maps'[i]
             PROVE  i = Slot(k)
  BY DEF Placed, Slot
<1>1. DOMAIN maps'[i] = DOMAIN maps[i] \cup {j \in DOMAIN rows : Slot(j) = i}
  BY DEF With
<1>2. CASE k \in DOMAIN maps[i]
  BY <1>2 DEF Placed
<1>3. CASE Slot(k) = i
  BY <1>3
<1> QED BY <1>1, <1>2, <1>3

\* Without, the code of BigMap's delete(), adds no entry to a Map.
LEMMA WithoutPlaced ==
  ASSUME NEW keys, Placed, maps' = Without(keys), UNCHANGED <<size, hash, moved>>
  PROVE  Placed'
<1> SUFFICES ASSUME ~moved, NEW i \in 0 .. size - 1, NEW k \in DOMAIN maps'[i]
             PROVE  i = Slot(k)
  BY DEF Placed, Slot
<1>1. DOMAIN maps'[i] = {j \in DOMAIN maps[i] : j \notin keys \/ Slot(j) # i}
  BY DEF Without
<1> QED BY <1>1 DEF Placed

\* Nothing is out of place in empty Maps.
LEMMA FreshPlaced ==
  ASSUME NEW n, NEW i \in 0 .. n - 1
  PROVE  DOMAIN Fresh(n)[i] = {}
BY DEF Fresh, Empty

\* Replacing the hash function keeps Placed: if there are entries, moved is set.
LEMMA RehashPlaced ==
  ASSUME NEW h, Placed, Rehash(h)
  PROVE  Placed'
<1> SUFFICES ASSUME ~moved', NEW i \in 0 .. size' - 1, NEW k \in DOMAIN maps'[i]
             PROVE  FALSE
  BY DEF Placed
<1>1. Entries = {} /\ maps' = maps /\ size' = size
  BY DEF Rehash
<1>2. <<i, k>> \in {i} \X DOMAIN maps[i]
  BY <1>1
<1> QED BY <1>1, <1>2 DEF Entries

\* The empty Maps a store starts with are in order.
LEMMA InitPlaced == Init => Placed
BY FreshPlaced DEF Init, Placed

\* Every step of a call keeps Placed.
LEMMA CallPlaced ==
  ASSUME NEW c \in Callers, Placed, Call(c)
  PROVE  Placed'
<1>1. CASE Begin(c)
  BY <1>1 DEF Begin, bigMap, Placed, Slot
<1>2. CASE Set(c)
  BY <1>2, WithPlaced DEF Set
<1>3. CASE Get(c)
  <2>1. maps' = maps \/ maps' = Without({Target(c)})
    BY <1>3 DEF Get
  <2>2. UNCHANGED <<size, hash, moved>>
    BY <1>3 DEF Get
  <2>3. CASE maps' = maps
    BY <2>2, <2>3 DEF Placed, Slot
  <2> QED BY <2>1, <2>2, <2>3, WithoutPlaced
<1>4. CASE Delete(c)
  BY <1>4, WithoutPlaced DEF Delete
<1>5. CASE Clear(c)
  BY <1>5, WithoutPlaced DEF Clear
<1>6. CASE Decode(c)
  BY <1>6 DEF Decode, bigMap, Placed, Slot
<1>7. CASE Purge(c)
  BY <1>7, WithoutPlaced DEF Purge
<1>8. CASE Advance(c)
  BY <1>8, WithoutPlaced DEF Advance
<1> QED BY <1>1, <1>2, <1>3, <1>4, <1>5, <1>6, <1>7, <1>8 DEF Call

\* Every setter keeps Placed.
LEMMA SetterPlaced ==
  ASSUME Placed,
         \/ \E k \in Keyvs : Configure(k)
         \/ \E n \in Sizes : SetStoreSize(n)
         \/ \E h \in DOMAIN Hashes : SetStoreHash(h)
  PROVE  Placed'
<1>1. CASE \E k \in Keyvs : Configure(k)
  BY <1>1 DEF Configure, SetNamespace, SetStore, SetSanitize, SetOptions, bigMap, Placed, Slot
<1>2. CASE \E n \in Sizes : SetStoreSize(n)
  BY <1>2, FreshPlaced DEF SetStoreSize, Resize, Placed
<1>3. CASE \E h \in DOMAIN Hashes : SetStoreHash(h)
  BY <1>3, RehashPlaced DEF SetStoreHash
<1> QED BY <1>1, <1>2, <1>3

\* Every step keeps Placed.
LEMMA StepPlaced ==
  ASSUME Placed, [Next]_vars
  PROVE  Placed'
<1>1. CASE UNCHANGED vars
  BY <1>1 DEF vars, bigMap, Placed, Slot
<1>2. CASE Tick
  BY <1>2 DEF Tick, bigMap, Placed, Slot
<1>3. CASE \E c \in Callers : Call(c)
  BY <1>3, CallPlaced
<1>4. CASE \/ \E k \in Keyvs : Configure(k)
           \/ \E n \in Sizes : SetStoreSize(n)
           \/ \E h \in DOMAIN Hashes : SetStoreHash(h)
  BY <1>4, SetterPlaced
<1> QED BY <1>1, <1>2, <1>3, <1>4 DEF Next

\* Every reachable state of LocalStore has each entry in the Map its key is
\* looked up in, unless the hash function was replaced over entries.
THEOREM AlwaysPlaced == Spec => []Placed
<1>1. Placed /\ [Next]_vars => Placed'
  BY StepPlaced
<1> QED BY <1>1, InitPlaced, PTL DEF Spec

-----------------------------------------------------------------------------
(* Namespaces and sanitizers. *)

Words      == Seq(STRING)
Answers    == [key : Words, answer : Words]
Sanitizers == [keys : SUBSET Patterns, names : SUBSET Patterns, cached : Seq(Answers)]

ConfigTypes == /\ scene \in Scenes
               /\ use \in [Keyvs -> Adapters] /\ name \in [Keyvs -> Words]
               /\ space \in [Adapters -> Words] /\ clean \in [Keyvs -> Sanitizers]

\* Cleaning leaves a name as long as it was.
LEMMA StrippedType ==
  ASSUME NEW words \in Words, NEW patterns \in SUBSET Patterns
  PROVE  Stripped(words, patterns) \in Words /\ Len(Stripped(words, patterns)) = Len(words)
<1> DEFINE word(i) == IF \E g \in patterns : words[i] \in DOMAIN Strip[g]
                      THEN LET g == CHOOSE h \in patterns : words[i] \in DOMAIN Strip[h]
                           IN  Strip[g][words[i]]
                      ELSE words[i]
<1>1. ASSUME NEW i \in 1 .. Len(words) PROVE word(i) \in STRING
  <2>1. CASE \E g \in patterns : words[i] \in DOMAIN Strip[g]
    BY <2>1, StripAssumption
  <2>2. words[i] \in STRING
    BY ElementOfSeq DEF Words
  <2> QED BY <2>1, <2>2
<1>2. Len(words) \in Nat
  BY LenProperties DEF Words
<1> HIDE DEF word
<1>3. [i \in 1 .. Len(words) |-> word(i)] \in Seq(STRING)
  BY <1>1, <1>2
<1>4. Len([i \in 1 .. Len(words) |-> word(i)]) = Len(words)
  BY <1>2
<1> QED BY <1>3, <1>4 DEF Stripped, word, Words

\* What NamespaceInStep says, and what SanitizerTrue says of one sanitizer.
TrueOf(san) ==
  /\ Len(san.cached) <= CacheMax
  /\ \A i \in 1 .. Len(san.cached) :
       /\ san.cached[i].answer = Stripped(san.cached[i].key, san.keys)
       /\ Remembered(san, san.cached[i].key) = {i}

\* A sanitizer whose answers are true answers from its cache what cleaning the
\* key by its patterns gives, and leaves the key alone only if it has no patterns.
LEMMA CleanKeyTrue ==
  ASSUME NEW san \in Sanitizers, TrueOf(san), NEW key \in Words
  PROVE  CleanKey(san, key) \in {key, Stripped(key, san.keys)}
         /\ (san.keys # {} => CleanKey(san, key) = Stripped(key, san.keys))
<1>1. CASE san.keys = {}
  BY <1>1 DEF CleanKey
<1>2. CASE san.keys # {} /\ Remembered(san, key) # {}
  <2>1. PICK i \in 1 .. Len(san.cached) :
           /\ san.cached[i].key = key
           /\ CleanKey(san, key) = san.cached[i].answer
    BY <1>2 DEF CleanKey, Remembered
  <2> QED BY <1>2, <2>1 DEF TrueOf
<1>3. CASE san.keys # {} /\ Remembered(san, key) = {}
  BY <1>3 DEF CleanKey
<1> QED BY <1>1, <1>2, <1>3

\* A cleaned key is a key of as many words.
LEMMA CleanKeyType ==
  ASSUME NEW san \in Sanitizers, TrueOf(san), NEW key \in Words
  PROVE  CleanKey(san, key) \in Words /\ Len(CleanKey(san, key)) = Len(key)
BY CleanKeyTrue, StrippedType DEF Sanitizers

\* Taking one element out of a sequence.
LEMMA RemoveAtProperties ==
  ASSUME NEW S, NEW s \in Seq(S), NEW i \in 1 .. Len(s)
  PROVE  /\ RemoveAt(s, i) \in Seq(S) /\ Len(RemoveAt(s, i)) = Len(s) - 1
         /\ \A j \in 1 .. Len(s) - 1 : RemoveAt(s, i)[j] = s[IF j < i THEN j ELSE j + 1]
<1> DEFINE front == SubSeq(s, 1, i - 1)
           back  == SubSeq(s, i + 1, Len(s))
<1>1. Len(s) \in Nat /\ \A j \in 1 .. Len(s) : s[j] \in S
  BY LenProperties, ElementOfSeq
<1>2. front \in Seq(S) /\ Len(front) = i - 1 /\ \A j \in 1 .. i - 1 : front[j] = s[j]
  BY <1>1, SubSeqProperties
<1>3. back \in Seq(S) /\ Len(back) = Len(s) - i /\ \A j \in 1 .. Len(s) - i : back[j] = s[i + j]
  <2>1. \A j \in (i + 1) .. Len(s) : s[j] \in S
    BY <1>1
  <2>2. /\ back \in Seq(S) /\ Len(back) = (IF i + 1 <= Len(s) THEN Len(s) - (i + 1) + 1 ELSE 0)
        /\ \A j \in 1 .. Len(s) - (i + 1) + 1 : back[j] = s[(i + 1) + j - 1]
    BY <1>1, <2>1, SubSeqProperties
  <2> HIDE DEF back
  <2> QED BY <1>1, <2>2
<1> HIDE DEF front, back
<1>4. /\ front \o back \in Seq(S) /\ Len(front \o back) = Len(s) - 1
      /\ \A j \in 1 .. Len(s) - 1 : (front \o back)[j] = IF j < i THEN front[j] ELSE back[j - (i - 1)]
  <2>1. /\ front \o back \in Seq(S) /\ Len(front \o back) = Len(front) + Len(back)
        /\ \A j \in 1 .. Len(front) + Len(back) :
             (front \o back)[j] = IF j <= Len(front) THEN front[j] ELSE back[j - Len(front)]
    BY <1>2, <1>3, ConcatProperties
  <2>2. Len(front) + Len(back) = Len(s) - 1 /\ \A j \in Int : j <= Len(front) <=> j < i
    BY <1>1, <1>2, <1>3
  <2> QED BY <1>2, <2>1, <2>2
<1>5. ASSUME NEW j \in 1 .. Len(s) - 1
      PROVE  (front \o back)[j] = s[IF j < i THEN j ELSE j + 1]
  <2>1. CASE j < i
    BY <1>1, <1>2, <1>4, <2>1
  <2>2. CASE ~ (j < i)
    <3>1. j - (i - 1) \in 1 .. Len(s) - i /\ i + (j - (i - 1)) = j + 1
      BY <1>1, <2>2
    <3>2. back[j - (i - 1)] = s[i + (j - (i - 1))]
      BY <1>3, <3>1
    <3> QED BY <1>4, <2>2, <3>1, <3>2
  <2> QED BY <2>1, <2>2
<1> QED BY <1>4, <1>5 DEF RemoveAt, front, back

\* Remembering an answer keeps the cache true and within its limit.
LEMMA CachedTrue ==
  ASSUME NEW san \in Sanitizers, TrueOf(san), NEW key \in Words
  PROVE  LET new == [san EXCEPT !.cached = Cached(san, key)]
         IN  new \in Sanitizers /\ TrueOf(new)
<1>1. /\ Len(san.cached) \in Nat /\ san.cached \in Seq(Answers)
      /\ \A i \in 1 .. Len(san.cached) : san.cached[i] \in Answers
  BY LenProperties, ElementOfSeq DEF Sanitizers
<1>2. CASE san.keys = {}
  <2>1. [san EXCEPT !.cached = Cached(san, key)] = san
    BY <1>2 DEF Cached, Sanitizers
  <2> QED BY <2>1
<1>3. CASE san.keys # {}
  <2> DEFINE known  == Remembered(san, key)
             others == IF known = {} THEN san.cached
                       ELSE RemoveAt(san.cached, CHOOSE i \in known : TRUE)
             row    == [key |-> key, answer |-> CleanKey(san, key)]
             all    == Append(others, row)
             new    == [san EXCEPT !.cached = Cached(san, key)]
  <2>1. row \in Answers /\ row.key = key /\ row.answer = Stripped(key, san.keys)
    BY <1>3, CleanKeyType, CleanKeyTrue DEF Answers
  \* The others are those of other keys, each from a place of its own.
  <2>2. PICK from \in [1 .. Len(others) -> 1 .. Len(san.cached)] :
          /\ others \in Seq(Answers) /\ Len(others) \in Nat /\ Len(others) <= Len(san.cached)
          /\ \A j \in 1 .. Len(others) : others[j] = san.cached[from[j]] /\ others[j].key # key
          /\ \A i, j \in 1 .. Len(others) : from[i] = from[j] => i = j
    <3>1. CASE known = {}
      <4>1. \A j \in 1 .. Len(san.cached) : san.cached[j].key # key
        BY <3>1 DEF Remembered
      <4>2. others = san.cached
        BY <3>1
      <4> HIDE DEF others
      <4> WITNESS [j \in 1 .. Len(others) |-> j] \in [1 .. Len(others) -> 1 .. Len(san.cached)]
      <4> QED BY <1>1, <4>1, <4>2
    <3>2. CASE known # {}
      <4>1. PICK at \in 1 .. Len(san.cached) : san.cached[at].key = key /\ others = RemoveAt(san.cached, at)
        BY <3>2 DEF Remembered
      <4>2. \A j \in 1 .. Len(san.cached) : san.cached[j].key = key => j = at
        BY <4>1 DEF TrueOf, Remembered
      <4>3. /\ others \in Seq(Answers) /\ Len(others) = Len(san.cached) - 1
            /\ \A j \in 1 .. Len(san.cached) - 1 : others[j] = san.cached[IF j < at THEN j ELSE j + 1]
        <5> HIDE DEF others
        <5> DEFINE s == san.cached
        <5>1. s \in Seq(Answers) /\ at \in 1 .. Len(s) /\ others = RemoveAt(s, at)
          BY <1>1, <4>1
        <5> HIDE DEF s
        <5>2. /\ others \in Seq(Answers) /\ Len(others) = Len(s) - 1
              /\ \A j \in 1 .. Len(s) - 1 : others[j] = s[IF j < at THEN j ELSE j + 1]
          BY <5>1, RemoveAtProperties
        <5> QED BY <5>2 DEF s
      <4> HIDE DEF others
      <4> DEFINE f == [j \in 1 .. Len(others) |-> IF j < at THEN j ELSE j + 1]
      <4>4. f \in [1 .. Len(others) -> 1 .. Len(san.cached)]
        BY <1>1, <4>3
      <4>5. \A j \in 1 .. Len(others) : others[j] = san.cached[f[j]] /\ others[j].key # key
        BY <1>1, <4>2, <4>3
      <4>6. \A i, j \in 1 .. Len(others) : f[i] = f[j] => i = j
        BY <1>1, <4>3
      <4> HIDE DEF f
      <4> WITNESS f \in [1 .. Len(others) -> 1 .. Len(san.cached)]
      <4> QED BY <1>1, <4>3, <4>5, <4>6
    <3> QED BY <3>1, <3>2
  <2>3. /\ all \in Seq(Answers) /\ Len(all) = Len(others) + 1
        /\ \A j \in 1 .. Len(others) : all[j] = others[j]
        /\ all[Len(others) + 1] = row
    <3> HIDE DEF others, row
    <3> QED BY <2>1, <2>2
  <2> HIDE DEF others, row, all
  <2>4. ASSUME NEW j \in 1 .. Len(all) PROVE all[j].answer = Stripped(all[j].key, san.keys)
    <3>1. CASE j \in 1 .. Len(others)
      <4>1. all[j] = san.cached[from[j]] /\ from[j] \in 1 .. Len(san.cached)
        BY <2>2, <2>3, <3>1
      <4> QED BY <4>1 DEF TrueOf
    <3>2. CASE j = Len(others) + 1
      BY <2>1, <2>3, <3>2
    <3> QED BY <2>2, <2>3, <3>1, <3>2
  <2>5. \A i, j \in 1 .. Len(all) : all[i].key = all[j].key => i = j
    <3>1. \A i, j \in 1 .. Len(san.cached) : san.cached[i].key = san.cached[j].key => i = j
      BY DEF TrueOf, Remembered
    <3> SUFFICES ASSUME NEW i \in 1 .. Len(all), NEW j \in 1 .. Len(all), all[i].key = all[j].key
                 PROVE  i = j
      OBVIOUS
    <3>2. CASE i \in 1 .. Len(others) /\ j \in 1 .. Len(others)
      <4>1. /\ all[i] = san.cached[from[i]] /\ from[i] \in 1 .. Len(san.cached)
            /\ all[j] = san.cached[from[j]] /\ from[j] \in 1 .. Len(san.cached)
        BY <2>2, <2>3, <3>2
      <4>2. from[i] = from[j]
        BY <3>1, <4>1
      <4> QED BY <2>2, <3>2, <4>2
    <3>3. CASE i = Len(others) + 1 \/ j = Len(others) + 1
      BY <2>1, <2>2, <2>3, <3>3
    <3> QED BY <2>2, <2>3, <3>2, <3>3
  <2> DEFINE kept == IF Len(all) > CacheMax THEN Tail(all) ELSE all
  <2>6. /\ kept \in Seq(Answers) /\ Len(kept) \in Nat /\ Len(kept) <= CacheMax
        /\ \A j \in 1 .. Len(kept) : kept[j].answer = Stripped(kept[j].key, san.keys)
        /\ \A i, j \in 1 .. Len(kept) : kept[i].key = kept[j].key => i = j
    <3>1. CASE Len(all) > CacheMax
      <4>1. Len(all) = CacheMax + 1 /\ all # <<>> /\ kept = Tail(all) /\ CacheMax \in Nat
        BY <1>1, <2>2, <2>3, <3>1, SizeAssumption DEF TrueOf
      <4>2. /\ kept \in Seq(Answers) /\ Len(kept) = Len(all) - 1
            /\ \A j \in 1 .. Len(kept) : kept[j] = all[j + 1]
        BY <2>3, <4>1, HeadTailProperties
      <4> HIDE DEF kept
      <4>3. \A j \in 1 .. Len(kept) : j + 1 \in 1 .. Len(all)
        BY <4>1, <4>2
      <4> QED BY <2>4, <2>5, <4>1, <4>2, <4>3
    <3>2. CASE ~ (Len(all) > CacheMax)
      BY <2>2, <2>3, <2>4, <2>5, <3>2, SizeAssumption
    <3> QED BY <3>1, <3>2
  <2>7. new.cached = kept /\ new.keys = san.keys /\ new \in Sanitizers
    BY <1>3, <2>6 DEF Cached, Sanitizers, all, others, row
  <2> HIDE DEF kept, new
  <2>8. TrueOf(new)
    BY <2>6, <2>7 DEF TrueOf, Remembered
  <2> QED BY <2>7, <2>8 DEF new
<1> QED BY <1>2, <1>3

-----------------------------------------------------------------------------
(* Types, and the order of the rows of a Map. *)

Deadlines == Nat \cup {Never}
StoredRow == [val : Nat, e : Deadlines, at : Nat]
CallRow   == [val : Nat, e : Deadlines]
CallType  == [op : AllOps \cup {"none"}, kv : Keyvs \cup {NoCall.kv}, key : Words,
              at : {"start", "before", "decode", "purge", "ask", "done"},
              row : CallRow, ns : Words, walk : Nat \X Nat]

\* Rows are put in a Map one after the other.
RowsOrdered ==
  \A i \in 0 .. size - 1 : \A p \in DOMAIN maps[i] :
    /\ p \in Words /\ maps[i][p] \in StoredRow /\ maps[i][p].at \in 1 .. puts
    /\ \A q \in DOMAIN maps[i] : maps[i][p].at = maps[i][q].at => p = q

MapTypes ==
  /\ hash \in DOMAIN Hashes
  /\ clock \in Nat /\ writes \in 0 .. MaxWrites /\ puts \in Nat /\ sets \in Nat /\ size \in Nat \ {0}
  /\ RowsOrdered

CallTypes ==
  /\ calls \in [Callers -> CallType]
  /\ \A c \in Callers :
       /\ calls[c].op # "none" => calls[c].kv \in Keyvs
       /\ calls[c].at # "done" => calls[c].op # "none"
       /\ calls[c].at \in {"start", "ask"} => calls[c].op = "iterate"
       /\ calls[c].at \in {"decode", "purge"} => calls[c].op \in {"get", "iterate"}
       /\ calls[c].at = "before" => calls[c].op # "iterate"
       /\ calls[c].op = "get" => calls[c].at \in {"before", "decode", "purge", "done"}
       /\ calls[c].op \in {"set", "delete", "clear"} => calls[c].at = "before"

LocalInv == /\ ConfigTypes /\ (\A k \in Keyvs : TrueOf(clean[k]))
            /\ MapTypes /\ CallTypes

\* A hash function answers with a whole number, whatever the key.
WholeHashes == \A h \in DOMAIN Hashes : \A p \in Words : Hashes[h][p] \in Int

\* The absolute value of a hash, modulo the number of Maps, is a Map.
LEMMA SlotRange ==
  ASSUME NEW n \in Nat \ {0}, NEW h \in Int
  PROVE  (IF n = 1 THEN 0 ELSE (IF h < 0 THEN -h ELSE h) % n) \in 0 .. n - 1
<1>1. \A m \in Nat : m % n \in 0 .. n - 1
  OBVIOUS
<1> DEFINE number == IF h < 0 THEN -h ELSE h
<1>2. number \in Nat
  OBVIOUS
<1> HIDE DEF number
<1>3. (IF n = 1 THEN 0 ELSE number % n) \in 0 .. n - 1
  BY <1>1, <1>2
<1> QED BY <1>3 DEF number

\* The Map of a key is one of the Maps there are.
LEMMA SlotType ==
  ASSUME WholeHashes, MapTypes, NEW p \in Words
  PROVE  Slot(p) \in 0 .. size - 1
<1>1. Hashes[hash][p] \in Int /\ size \in Nat \ {0}
  BY DEF WholeHashes, MapTypes
<1> QED BY <1>1, SlotRange DEF Slot

\* Every set of natural numbers has a least one.
LEMMA Least ==
  ASSUME NEW T \in SUBSET Nat, T # {}
  PROVE  \E n \in T : \A m \in T : n <= m
<1> DEFINE R == {ss \in Nat \X Nat : ss[1] < ss[2]}
<1>1. IsWellFoundedOn(R, Nat)
  BY NatLessThanWellFounded, Zenon DEF OpToRel
<1>2. PICK n \in T : \A m \in T : <<m, n>> \notin R
  <2> HIDE DEF R
  <2> QED BY <1>1, WFMin
<1>3. \A m \in T : ~(m < n)
  BY <1>2
<1> QED BY <1>3

EntryTypes == \A entry \in Entries :
  /\ entry = <<entry[1], entry[2]>> /\ entry[1] \in 0 .. size - 1
  /\ entry[2] \in DOMAIN maps[entry[1]] /\ entry[2] \in Words
  /\ RowOf(entry) \in StoredRow /\ RowOf(entry).at \in 1 .. puts
  /\ Place(entry) = <<entry[1], RowOf(entry).at>> /\ Place(entry) \in Nat \X Nat

\* Each entry is a key of some Map with the row that lies there.
LEMMA EntriesTyped ==
  ASSUME MapTypes
  PROVE  EntryTypes
  BY DEF MapTypes, RowsOrdered, Entries, Place, RowOf, EntryTypes

\* No two entries have one place, and of any there is a first.
LEMMA OnePlace ==
  ASSUME MapTypes, NEW a \in Entries, NEW b \in Entries, Place(a) = Place(b)
  PROVE  a = b
<1>1. /\ a = <<a[1], a[2]>> /\ a[1] \in 0 .. size - 1 /\ a[2] \in DOMAIN maps[a[1]]
      /\ b = <<b[1], b[2]>> /\ b[1] \in 0 .. size - 1 /\ b[2] \in DOMAIN maps[b[1]]
  BY EntriesTyped DEF EntryTypes
<1>2. a[1] = b[1] /\ maps[a[1]][a[2]].at = maps[b[1]][b[2]].at
  BY DEF Place
<1>3. a[2] = b[2]
  BY <1>1, <1>2 DEF MapTypes, RowsOrdered
<1> QED BY <1>1, <1>2, <1>3

IsFirst(entry, set) == entry \in set /\ \A other \in set \ {entry} : Precedes(Place(entry), Place(other))

\* Entries have an order that Map.prototype.entries() goes by: one comes first.
LEMMA FirstEntry ==
  ASSUME MapTypes, NEW set \in SUBSET Entries, set # {}
  PROVE  \E entry \in set : IsFirst(entry, set)
<1>1. \A entry \in set : /\ entry[1] \in Nat /\ RowOf(entry).at \in Nat
                         /\ Place(entry) = <<entry[1], RowOf(entry).at>>
  BY EntriesTyped DEF EntryTypes, MapTypes
<1>2. PICK i \in {entry[1] : entry \in set} : \A j \in {entry[1] : entry \in set} : i <= j
  <2>1. {entry[1] : entry \in set} \in SUBSET Nat /\ {entry[1] : entry \in set} # {}
    BY <1>1
  <2> QED BY <2>1, Least
<1> DEFINE ats == {RowOf(entry).at : entry \in {e \in set : e[1] = i}}
<1>3. PICK n \in ats : \A m \in ats : n <= m
  <2>1. ats \in SUBSET Nat /\ ats # {}
    BY <1>1, <1>2
  <2> HIDE DEF ats
  <2> QED BY <2>1, Least
<1>4. PICK first \in set : first[1] = i /\ RowOf(first).at = n
  BY <1>3
<1>5. ASSUME NEW other \in set, other # first PROVE Precedes(Place(first), Place(other))
  <2>1. Place(other) # Place(first)
    BY <1>5, OnePlace
  <2>2. i <= other[1] /\ (other[1] = i => n <= RowOf(other).at)
    BY <1>2, <1>3
  <2>3. i \in Nat /\ n \in Nat /\ other[1] \in Nat /\ RowOf(other).at \in Nat
        /\ Place(first) = <<i, n>> /\ Place(other) = <<other[1], RowOf(other).at>>
    BY <1>1, <1>4
  <2> HIDE DEF ats
  <2> QED BY <2>1, <2>2, <2>3 DEF Precedes
<1> QED BY <1>5 DEF IsFirst

\* set() puts a new row after all others of its Map, or leaves it in its place.
LEMMA WithOrdered ==
  ASSUME MapTypes, NEW p \in Words, NEW row, UNCHANGED <<size, hash>>,
         row.at = (IF Holds(p) THEN At(p).at ELSE puts + 1),
         Slot(p) \in 0 .. size - 1 => row \in StoredRow,
         maps' = With([q \in {p} |-> row]), puts' = puts + 1
  PROVE  RowsOrdered'
<1> USE DEF MapTypes, RowsOrdered
<1> SUFFICES ASSUME NEW i \in 0 .. size - 1
             PROVE  \A a \in DOMAIN maps'[i] :
                      /\ a \in Words /\ maps'[i][a] \in StoredRow /\ maps'[i][a].at \in 1 .. puts'
                      /\ \A b \in DOMAIN maps'[i] : maps'[i][a].at = maps'[i][b].at => a = b
  BY Zenon
<1>1. maps'[i] = [k \in DOMAIN maps[i] \cup {j \in {p} : Slot(j) = i} |->
                    IF k \in {p} /\ Slot(k) = i THEN row ELSE maps[i][k]]
  BY DEF With
<1>2. CASE Slot(p) # i
  <2>1. maps'[i] = [k \in DOMAIN maps[i] |-> maps[i][k]]
    BY <1>1, <1>2
  <2> QED BY <2>1
<1>3. CASE Slot(p) = i
  <2>1. maps'[i] = [k \in DOMAIN maps[i] \cup {p} |-> IF k = p THEN row ELSE maps[i][k]]
    BY <1>1, <1>3
  <2>2. \A k \in DOMAIN maps[i] : k # p => maps[i][k].at # row.at
    BY <1>3 DEF Holds, At
  <2>3. row.at \in 1 .. puts + 1 /\ row \in StoredRow
    BY <1>3 DEF Holds, At
  <2>4. ASSUME NEW a \in DOMAIN maps'[i]
        PROVE  a \in Words /\ maps'[i][a] \in StoredRow /\ maps'[i][a].at \in 1 .. puts'
    <3>1. CASE a = p
      BY <2>1, <2>3, <3>1
    <3>2. CASE a # p
      <4>1. a \in DOMAIN maps[i] /\ maps'[i][a] = maps[i][a]
        BY <2>1, <3>2
      <4> QED BY <4>1
    <3> QED BY <3>1, <3>2
  <2>5. ASSUME NEW a \in DOMAIN maps'[i], NEW b \in DOMAIN maps'[i], maps'[i][a].at = maps'[i][b].at
        PROVE  a = b
    <3>1. \A k \in DOMAIN maps'[i] : maps'[i][k] = IF k = p THEN row ELSE maps[i][k]
      BY <2>1
    <3>2. \A k \in DOMAIN maps'[i] : k # p => k \in DOMAIN maps[i]
      BY <2>1
    <3> QED BY <2>2, <2>5, <3>1, <3>2
  <2> QED BY <2>4, <2>5
<1> QED BY <1>2, <1>3

\* delete() leaves the rows of a Map in their order.
LEMMA WithoutOrdered ==
  ASSUME MapTypes, NEW keys, UNCHANGED <<size, hash>>, maps' = Without(keys), puts' = puts
  PROVE  RowsOrdered'
<1> USE DEF MapTypes, RowsOrdered
<1> SUFFICES ASSUME NEW i \in 0 .. size - 1
             PROVE  \A a \in DOMAIN maps'[i] :
                      /\ a \in Words /\ maps'[i][a] \in StoredRow /\ maps'[i][a].at \in 1 .. puts'
                      /\ \A b \in DOMAIN maps'[i] : maps'[i][a].at = maps'[i][b].at => a = b
  BY Zenon
<1>1. maps'[i] = [k \in {j \in DOMAIN maps[i] : j \notin keys \/ Slot(j) # i} |-> maps[i][k]]
  BY DEF Without
<1> QED BY <1>1

-----------------------------------------------------------------------------
(* The types hold. *)

\* A prefixed key, and a key with its prefix taken away, are names.
LEMMA PathTypes ==
  ASSUME NEW ns \in Words, NEW words \in Words
  PROVE  Path(ns, words) \in Words /\ KeyOf(ns, words) \in Words
<1>1. Path(ns, words) \in Words
  BY ConcatProperties DEF Words, Path
<1>2. Len(ns) \in Nat /\ Len(words) \in Nat /\ \A i \in 1 .. Len(words) : words[i] \in STRING
  BY LenProperties, ElementOfSeq DEF Words
<1>3. \A i \in Len(ns) + 1 .. Len(words) : words[i] \in STRING
  BY <1>2
<1>4. KeyOf(ns, words) \in Words
  BY <1>2, <1>3, SubSeqProperties DEF Words, KeyOf
<1> QED BY <1>1, <1>4

\* The row a call aims at, and the namespace it does so in, are names.
LEMMA TargetType ==
  ASSUME LocalInv, NEW c \in Callers, calls[c].kv \in Keyvs
  PROVE  Target(c) \in Words /\ Space(calls[c].kv) \in Words
<1>1. Space(calls[c].kv) \in Words
  BY DEF LocalInv, ConfigTypes, Space
<1>2. calls[c].key \in Words
  BY DEF LocalInv, CallTypes, CallType
<1> QED BY <1>1, <1>2, PathTypes DEF Target

\* A caller at rest is typed.
LEMMA NoCallType ==
  NoCall \in CallType /\ NoCall.op = "none" /\ NoCall.at = "done" /\ NoCall.key = <<>>
<1>1. Words # {} /\ <<>> \in Words
  BY EmptySeq DEF Words
<1>2. NoRow \in CallRow
  BY DEF NoRow, CallRow, Deadlines
<1> QED BY <1>1, <1>2 DEF NoCall, CallType, Start

\* One step changes one call.
LEMMA CallTypesKept ==
  ASSUME CallTypes, NEW c \in Callers, calls' = [calls EXCEPT ![c] = calls'[c]],
         calls'[c] \in CallType,
         /\ calls'[c].op # "none" => calls'[c].kv \in Keyvs
         /\ calls'[c].at # "done" => calls'[c].op # "none"
         /\ calls'[c].at \in {"start", "ask"} => calls'[c].op = "iterate"
         /\ calls'[c].at \in {"decode", "purge"} => calls'[c].op \in {"get", "iterate"}
         /\ calls'[c].at = "before" => calls'[c].op # "iterate"
         /\ calls'[c].op = "get" => calls'[c].at \in {"before", "decode", "purge", "done"}
         /\ calls'[c].op \in {"set", "delete", "clear"} => calls'[c].at = "before"
  PROVE  CallTypes'
BY DEF CallTypes

\* What CHOOSE takes from a set of entries is the first of them.
LEMMA FirstOf ==
  ASSUME MapTypes, NEW set \in SUBSET Entries, set # {}
  PROVE  IsFirst(CHOOSE entry \in set : \A other \in set \ {entry} :
                   Precedes(Place(entry), Place(other)), set)
<1>1. \E entry \in set : \A other \in set \ {entry} : Precedes(Place(entry), Place(other))
  BY FirstEntry DEF IsFirst
<1> QED BY <1>1 DEF IsFirst

\* What Advance does, of the entries ahead.
Live(c) ==
  LET ahead == Ahead(Captured(c), calls[c].walk)
  IN  {entry \in ahead :
         /\ ~Lapsed(RowOf(entry))
         /\ ~\E old \in ahead : /\ Lapsed(RowOf(old)) /\ Precedes(Place(old), Place(entry))
                                /\ <<Slot(old[2]), old[2]>> = entry}
First(c) == CHOOSE entry \in Live(c) : \A other \in Live(c) \ {entry} :
              Precedes(Place(entry), Place(other))
Dead(c)  == {entry \in Ahead(Captured(c), calls[c].walk) \ Live(c) :
               Live(c) = {} \/ Precedes(Place(entry), Place(First(c)))}

\* A step of the iterator deletes the lapsed rows it passes, and ends or stops at
\* the first that is alive.
LEMMA AdvanceMeans ==
  ASSUME NEW c \in Callers, Advance(c)
  PROVE  /\ calls[c].op = "iterate" /\ calls[c].at \in {"start", "ask"}
         /\ maps' = Without({entry[2] : entry \in Dead(c)})
         /\ calls' = [calls EXCEPT ![c] =
              IF Live(c) = {} THEN [@ EXCEPT !.at = "done", !.ns = Captured(c)]
              ELSE [@ EXCEPT !.at = "decode", !.ns = Captured(c), !.walk = Place(First(c)),
                             !.key = KeyOf(Captured(c), First(c)[2]),
                             !.row = [val |-> RowOf(First(c)).val, e |-> RowOf(First(c)).e]]]
         /\ UNCHANGED <<scene, clock, writes, puts, sets, size, hash, moved, keyv>>
BY DEF Advance, Live, First, Dead

\* What the iterator stops at is an entry that lies ahead of it, with its row.
LEMMA AdvanceTypes ==
  ASSUME LocalInv, NEW c \in Callers, calls[c].at \in {"start", "ask"}
  PROVE  /\ Captured(c) \in Words /\ Live(c) \subseteq Ahead(Captured(c), calls[c].walk)
         /\ Ahead(Captured(c), calls[c].walk) \subseteq Entries
         /\ Live(c) # {} => /\ IsFirst(First(c), Live(c)) /\ First(c) \in Entries
                            /\ First(c)[2] \in Words /\ RowOf(First(c)) \in StoredRow
                            /\ Place(First(c)) \in Nat \X Nat
<1>1. Captured(c) \in Words
  BY DEF Captured, LocalInv, CallTypes, CallType, ConfigTypes, Space
<1>2. Live(c) \subseteq Ahead(Captured(c), calls[c].walk) /\ Ahead(Captured(c), calls[c].walk) \subseteq Entries
  BY DEF Live, Ahead, After
<1>3. ASSUME Live(c) # {}
      PROVE  IsFirst(First(c), Live(c)) /\ First(c) \in Entries
  BY <1>2, <1>3, FirstOf DEF First, LocalInv, IsFirst
<1> QED BY <1>1, <1>2, <1>3, EntriesTyped DEF EntryTypes, LocalInv

\* Every step of a call keeps the types and the truth of the sanitizers.
LEMMA CallStepTypes ==
  ASSUME WholeHashes, LocalInv, NEW c \in Callers, Call(c)
  PROVE  LocalInv'
<1> USE DEF LocalInv
<1>0. /\ calls[c] \in CallType /\ Keys \subseteq Words /\ <<>> \in Words
      /\ calls[c].op # "none" => clean[calls[c].kv] \in Sanitizers
  BY NamesAssumption, EmptySeq DEF CallTypes, ConfigTypes, Words
<1>1. CASE Begin(c)
  <2>1. PICK call \in scene.ops[c], key \in Keys, life \in Lifetimes :
          LET op    == call[1]
              k     == call[2]
              keyed == op \in {"set", "get", "delete"}
              due   == IF life = Never THEN Never ELSE clock + life
          IN  /\ op = "set" => writes < MaxWrites
              /\ writes' = IF op = "set" THEN writes + 1 ELSE writes
              /\ clean' = [clean EXCEPT ![k].cached = IF keyed THEN Cached(clean[k], key) ELSE @]
              /\ calls' = [calls EXCEPT ![c] =
                   [NoCall EXCEPT !.op = op, !.kv = k,
                      !.key = IF keyed THEN CleanKey(clean[k], key) ELSE <<>>,
                      !.row = IF op = "set" THEN [val |-> writes + 1, e |-> due] ELSE NoRow,
                      !.at = IF op = "iterate" THEN "start" ELSE "before"]]
    BY <1>1 DEF Begin
  <2> DEFINE op    == call[1]
             k     == call[2]
             keyed == op \in {"set", "get", "delete"}
             due   == IF life = Never THEN Never ELSE clock + life
  <2>2. op \in AllOps /\ k \in Keyvs
    BY SceneAssumption DEF ConfigTypes
  <2>3. due \in Deadlines /\ writes + 1 \in Nat /\ NoRow \in CallRow
    BY LifeAssumption DEF Deadlines, MapTypes, NoRow, CallRow
  <2>4. CleanKey(clean[k], key) \in Words
    BY <1>0, <2>2, CleanKeyType DEF ConfigTypes
  <2>5. calls'[c] = [NoCall EXCEPT !.op = op, !.kv = k,
                      !.key = IF keyed THEN CleanKey(clean[k], key) ELSE <<>>,
                      !.row = IF op = "set" THEN [val |-> writes + 1, e |-> due] ELSE NoRow,
                      !.at = IF op = "iterate" THEN "start" ELSE "before"]
    BY <2>1 DEF CallTypes
  <2>5a. calls' = [calls EXCEPT ![c] = calls'[c]] /\ writes' \in 0 .. MaxWrites
    BY <2>1, BoundAssumption DEF CallTypes, MapTypes
  <2>5b. [clean EXCEPT ![k].cached = IF keyed THEN Cached(clean[k], key) ELSE @]
           = [clean EXCEPT ![k] = IF keyed THEN [clean[k] EXCEPT !.cached = Cached(clean[k], key)] ELSE clean[k]]
    BY <2>2 DEF ConfigTypes, Sanitizers
  <2>6. clean' = [clean EXCEPT ![k] = IF keyed THEN [clean[k] EXCEPT !.cached = Cached(clean[k], key)] ELSE clean[k]]
    BY <2>1, <2>5b
  <2>7. clean' \in [Keyvs -> Sanitizers] /\ \A j \in Keyvs : TrueOf(clean'[j])
    <3>1. [clean[k] EXCEPT !.cached = Cached(clean[k], key)] \in Sanitizers
          /\ TrueOf([clean[k] EXCEPT !.cached = Cached(clean[k], key)])
      BY <1>0, <2>2, CachedTrue DEF ConfigTypes
    <3> QED BY <2>2, <2>6, <3>1 DEF ConfigTypes
  <2>8. /\ calls'[c].op = op /\ calls'[c].kv = k
        /\ calls'[c].at = (IF op = "iterate" THEN "start" ELSE "before")
        /\ calls'[c] \in CallType
    <3> DEFINE row0 == IF op = "set" THEN [val |-> writes + 1, e |-> due] ELSE NoRow
               key0 == IF keyed THEN CleanKey(clean[k], key) ELSE <<>>
               at0  == IF op = "iterate" THEN "start" ELSE "before"
    <3>1. row0 \in CallRow /\ key0 \in Words /\ at0 \in {"start", "before"}
      <4> HIDE DEF op, k, due
      <4> QED BY <1>0, <2>3, <2>4 DEF CallRow
    <3>2. calls'[c] = [NoCall EXCEPT !.op = op, !.kv = k, !.key = key0, !.row = row0, !.at = at0]
      BY <2>5
    <3> HIDE DEF op, k, due, row0, key0, at0, keyed
    <3>3. calls'[c] \in CallType /\ calls'[c].op = op /\ calls'[c].kv = k /\ calls'[c].at = at0
      BY <2>2, <3>1, <3>2, NoCallType DEF CallType
    <3> QED BY <3>3 DEF at0
  <2>9. CallTypes'
    <3> HIDE DEF op, k, due
    <3> QED BY <2>2, <2>5a, <2>8, CallTypesKept DEF AllOps
  <2> QED BY <1>1, <2>5a, <2>7, <2>9 DEF Begin, ConfigTypes, MapTypes, bigMap, RowsOrdered
<1>2. CASE Set(c)
  <2>1. /\ calls[c].op = "set" /\ puts' = puts + 1
        /\ maps' = With([p \in {Target(c)} |->
             [val |-> calls[c].row.val, e |-> calls[c].row.e,
              at |-> IF Holds(Target(c)) THEN At(Target(c)).at ELSE puts + 1]])
        /\ calls' = [calls EXCEPT ![c] = NoCall]
        /\ UNCHANGED <<scene, clock, writes, sets, size, hash, moved, keyv>>
    BY <1>2 DEF Set
  <2> DEFINE row == [val |-> calls[c].row.val, e |-> calls[c].row.e,
                     at |-> IF Holds(Target(c)) THEN At(Target(c)).at ELSE puts + 1]
  <2>2. Target(c) \in Words
    BY <2>1, TargetType DEF CallTypes
  <2>3. Slot(Target(c)) \in 0 .. size - 1 => row \in StoredRow
    <3>1. CASE Holds(Target(c))
      BY <1>0, <3>1 DEF CallType, CallRow, StoredRow, Holds, At, MapTypes, RowsOrdered
    <3>2. CASE ~ Holds(Target(c))
      BY <1>0, <3>2 DEF CallType, CallRow, StoredRow, MapTypes
    <3> QED BY <3>1, <3>2
  <2>4. row.at = (IF Holds(Target(c)) THEN At(Target(c)).at ELSE puts + 1)
    OBVIOUS
  <2> HIDE DEF row
  <2>5. maps' = With([q \in {Target(c)} |-> row])
    BY <2>1 DEF row
  <2>6. RowsOrdered'
    BY <2>1, <2>2, <2>3, <2>4, <2>5, WithOrdered
  <2>7. CallTypes'
    BY <2>1, NoCallType, CallTypesKept DEF CallTypes
  <2> QED BY <2>1, <2>6, <2>7 DEF MapTypes, ConfigTypes, keyv
<1>3. CASE Get(c)
  <2>1. /\ calls[c].op = "get" /\ puts' = puts /\ maps' \in {maps, Without({Target(c)})}
        /\ UNCHANGED <<scene, clock, writes, puts, sets, size, hash, moved, keyv>>
    BY <1>3 DEF Get
  <2>2. RowsOrdered'
    <3>1. CASE maps' = maps
      BY <2>1, <3>1 DEF MapTypes, RowsOrdered
    <3> QED BY <2>1, <3>1, WithoutOrdered
  <2>3. CallTypes'
    <3> DEFINE found == Holds(Target(c)) /\ ~Lapsed(At(Target(c)))
               row0 == IF found THEN [val |-> At(Target(c)).val, e |-> At(Target(c)).e] ELSE calls[c].row
    <3>1. calls' = [calls EXCEPT ![c].at = IF found THEN "decode" ELSE "done", ![c].row = row0]
      BY <1>3 DEF Get
    <3>2. row0 \in CallRow
      <4>1. Target(c) \in Words
        BY <2>1, TargetType DEF CallTypes
      <4>2. CASE found
        BY <4>1, <4>2, SlotType DEF Holds, At, MapTypes, RowsOrdered, StoredRow, CallRow
      <4>3. CASE ~ found
        BY <1>0, <4>3 DEF CallType
      <4> QED BY <4>2, <4>3
    <3> HIDE DEF found, row0
    <3> QED BY <1>0, <2>1, <3>1, <3>2 DEF CallTypes, CallType
  <2> QED BY <2>1, <2>2, <2>3 DEF MapTypes, ConfigTypes, keyv
<1>4. CASE Delete(c)
  <2>1. CallTypes'
    BY <1>4, NoCallType, CallTypesKept DEF Delete, CallTypes
  <2> QED BY <1>4, <2>1, WithoutOrdered DEF Delete, MapTypes, ConfigTypes, keyv
<1>5. CASE Clear(c)
  <2>1. CallTypes'
    BY <1>5, NoCallType, CallTypesKept DEF Clear, CallTypes
  <2> QED BY <1>5, <2>1, WithoutOrdered DEF Clear, MapTypes, ConfigTypes, keyv
<1>6. CASE Decode(c)
  <2>1. CallTypes'
    <3> DEFINE dead == Lapsed(calls[c].row)
    <3>1. NoRow \in CallRow
      BY DEF NoRow, CallRow, Deadlines
    <3>2. /\ calls[c].at = "decode"
          /\ calls' = [calls EXCEPT ![c].at = IF dead THEN "purge"
                         ELSE IF calls[c].op = "iterate" THEN "ask" ELSE "done",
                       ![c].row = IF dead THEN NoRow ELSE @]
      BY <1>6 DEF Decode
    <3> HIDE DEF dead
    <3> QED BY <1>0, <3>1, <3>2 DEF CallTypes, CallType
  <2> QED BY <1>6, <2>1 DEF Decode, MapTypes, RowsOrdered, ConfigTypes, keyv, bigMap
<1>7. CASE Purge(c)
  <2> DEFINE walks == calls[c].op = "iterate"
             k     == calls[c].kv
             key   == IF walks THEN CleanKey(clean[k], calls[c].key) ELSE calls[c].key
  <2>1. /\ calls[c].at = "purge"
        /\ maps' = Without({Path(Space(k), key)})
        /\ clean' = [clean EXCEPT ![k].cached = IF walks THEN Cached(clean[k], calls[c].key) ELSE @]
        /\ calls' = [calls EXCEPT ![c].at = IF walks THEN "ask" ELSE "done"]
        /\ UNCHANGED <<scene, clock, writes, puts, sets, size, hash, moved, use, name, space>>
    BY <1>7 DEF Purge
  <2>2. k \in Keyvs /\ calls[c].key \in Words
    BY <1>0, <2>1 DEF CallTypes, CallType
  <2>3. clean' \in [Keyvs -> Sanitizers] /\ \A j \in Keyvs : TrueOf(clean'[j])
    <3>1. [clean EXCEPT ![k].cached = IF walks THEN Cached(clean[k], calls[c].key) ELSE @]
           = [clean EXCEPT ![k] = IF walks THEN [clean[k] EXCEPT !.cached = Cached(clean[k], calls[c].key)]
                                  ELSE clean[k]]
      BY <2>2 DEF ConfigTypes, Sanitizers
    <3>2. [clean[k] EXCEPT !.cached = Cached(clean[k], calls[c].key)] \in Sanitizers
          /\ TrueOf([clean[k] EXCEPT !.cached = Cached(clean[k], calls[c].key)])
      BY <2>2, CachedTrue DEF ConfigTypes
    <3> QED BY <2>1, <2>2, <3>1, <3>2 DEF ConfigTypes
  <2>4. RowsOrdered'
    BY <2>1, WithoutOrdered
  <2>5. CallTypes'
    <3> HIDE DEF key, k
    <3> QED BY <1>0, <2>1 DEF CallTypes, CallType
  <2> QED BY <2>1, <2>3, <2>4, <2>5 DEF MapTypes, ConfigTypes
<1>8. CASE Advance(c)
  <2>1. /\ calls[c].op = "iterate" /\ calls[c].at \in {"start", "ask"}
        /\ maps' = Without({entry[2] : entry \in Dead(c)})
        /\ calls' = [calls EXCEPT ![c] =
              IF Live(c) = {} THEN [@ EXCEPT !.at = "done", !.ns = Captured(c)]
              ELSE [@ EXCEPT !.at = "decode", !.ns = Captured(c), !.walk = Place(First(c)),
                             !.key = KeyOf(Captured(c), First(c)[2]),
                             !.row = [val |-> RowOf(First(c)).val, e |-> RowOf(First(c)).e]]]
        /\ UNCHANGED <<scene, clock, writes, puts, sets, size, hash, moved, keyv>>
    BY <1>8, AdvanceMeans
  <2>1a. calls[c].op = "iterate" /\ calls[c].kv \in Keyvs /\ CallTypes
    BY <2>1 DEF CallTypes
  <2>2. RowsOrdered'
    BY <2>1, WithoutOrdered
  <2>3. CallTypes'
    <3>1. CASE Live(c) = {}
      <4>1. calls'[c] = [calls[c] EXCEPT !.at = "done", !.ns = Captured(c)]
            /\ calls' = [calls EXCEPT ![c] = calls'[c]]
        BY <2>1, <3>1 DEF CallTypes
      <4>2. Captured(c) \in Words
        BY <2>1, AdvanceTypes
      <4>3. calls'[c] \in CallType /\ calls'[c].at = "done" /\ calls'[c].op = "iterate" /\ calls'[c].kv = calls[c].kv
        BY <1>0, <2>1a, <4>1, <4>2 DEF CallType
      <4>4. calls' = [calls EXCEPT ![c] = calls'[c]]
        BY <4>1
      <4>5. /\ calls'[c].op \notin {"none", "get", "set", "delete", "clear"} /\ calls'[c].kv \in Keyvs
            /\ calls'[c].at \notin {"start", "ask", "before"}
        BY <2>1a, <4>3
      <4> QED BY <2>1a, <4>3, <4>4, <4>5, CallTypesKept
    <3>2. CASE Live(c) # {}
      <4> DEFINE key0 == KeyOf(Captured(c), First(c)[2])
                 row0 == [val |-> RowOf(First(c)).val, e |-> RowOf(First(c)).e]
                 place0 == Place(First(c))
      <4>1. calls'[c] = [calls[c] EXCEPT !.at = "decode", !.ns = Captured(c), !.walk = place0,
                                         !.key = key0, !.row = row0]
            /\ calls' = [calls EXCEPT ![c] = calls'[c]]
        BY <2>1, <3>2 DEF CallTypes
      <4>2. Captured(c) \in Words /\ key0 \in Words /\ row0 \in CallRow /\ place0 \in Nat \X Nat
        BY <2>1, <3>2, AdvanceTypes, PathTypes DEF StoredRow, CallRow
      <4> HIDE DEF key0, row0, place0
      <4>3. calls'[c] \in CallType /\ calls'[c].at = "decode" /\ calls'[c].op = "iterate" /\ calls'[c].kv = calls[c].kv
        BY <1>0, <2>1a, <4>1, <4>2 DEF CallType
      <4>4. calls' = [calls EXCEPT ![c] = calls'[c]]
        BY <4>1
      <4>5. /\ calls'[c].op \notin {"none", "get", "set", "delete", "clear"} /\ calls'[c].kv \in Keyvs
            /\ calls'[c].at \notin {"start", "ask", "before"}
        BY <2>1a, <4>3
      <4> QED BY <2>1a, <4>3, <4>4, <4>5, CallTypesKept
    <3> QED BY <3>1, <3>2
  <2> QED BY <2>1, <2>2, <2>3 DEF MapTypes, ConfigTypes, keyv
<1> QED BY <1>1, <1>2, <1>3, <1>4, <1>5, <1>6, <1>7, <1>8 DEF Call

\* updateOptions() clears the cache, so that what is remembered is true.
LEMMA NewSanitizer ==
  ASSUME NEW san, NEW keys \in SUBSET Patterns, NEW names \in SUBSET Patterns
  PROVE  UpdateOptions(san, keys, names) \in Sanitizers /\ TrueOf(UpdateOptions(san, keys, names))
<1> DEFINE new == [keys |-> keys, names |-> names, cached |-> <<>>]
<1>1. <<>> \in Seq(Answers) /\ Len(<<>>) = 0
  BY EmptySeq
<1>2. new \in Sanitizers
  BY <1>1 DEF Sanitizers
<1>3. TrueOf(new)
  BY <1>1, SizeAssumption DEF TrueOf
<1> QED BY <1>2, <1>3 DEF UpdateOptions

\* Every setter keeps the types and the truth of the sanitizers.
LEMMA SetterTypes ==
  ASSUME LocalInv, NEW k \in Keyvs, Configure(k)
  PROVE  LocalInv'
<1> USE DEF LocalInv, ConfigTypes
<1>0. Names \subseteq Words /\ sets' \in Nat
  <2>1. sets' = sets + 1
    BY DEF Configure, SetNamespace, SetStore, SetSanitize, SetOptions, Setting
  <2> QED BY <2>1, NamesAssumption DEF Words, MapTypes
<1>1. CASE \E ns \in Names : SetNamespace(k, ns)
  <2>1. PICK ns \in Names : SetNamespace(k, ns)
    BY <1>1
  <2>2. CleanName(clean[k], ns) \in Words
    BY <1>0, StrippedType DEF CleanName, Sanitizers
  <2> QED BY <1>0, <2>1, <2>2 DEF SetNamespace, MapTypes, RowsOrdered, CallTypes, bigMap
<1>2. CASE \E a \in Adapters : SetStore(k, a)
  BY <1>0, <1>2 DEF SetStore, MapTypes, RowsOrdered, CallTypes, bigMap
<1>3. CASE \E keys, names \in SUBSET Patterns : SetSanitize(k, keys, names)
  <2>1. PICK keys \in SUBSET Patterns, names \in SUBSET Patterns : SetSanitize(k, keys, names)
    BY <1>3
  <2> DEFINE san == UpdateOptions(Off, keys, names)
  <2>2. san \in Sanitizers /\ TrueOf(san)
    BY NewSanitizer
  <2>3. clean' = [clean EXCEPT ![k] = san] /\ name' = [name EXCEPT ![k] = CleanName(san, name[k])]
        /\ UNCHANGED <<scene, clock, writes, puts, bigMap, use, space, calls>>
    BY <2>1 DEF SetSanitize
  <2> HIDE DEF san
  <2>4. CleanName(san, name[k]) \in Words
    BY <2>2, StrippedType DEF CleanName, Sanitizers
  <2> QED BY <1>0, <2>2, <2>3, <2>4 DEF MapTypes, RowsOrdered, CallTypes, bigMap
<1>4. CASE \E keys, names \in SUBSET Patterns : SetOptions(k, keys, names)
  <2>1. PICK keys \in SUBSET Patterns, names \in SUBSET Patterns : SetOptions(k, keys, names)
    BY <1>4
  <2> DEFINE san == UpdateOptions(clean[k], keys, names)
  <2>2. san \in Sanitizers /\ TrueOf(san)
    BY NewSanitizer
  <2>3. clean' = [clean EXCEPT ![k] = san]
        /\ UNCHANGED <<scene, clock, writes, puts, bigMap, use, name, space, calls>>
    BY <2>1 DEF SetOptions
  <2> HIDE DEF san
  <2> QED BY <1>0, <2>2, <2>3 DEF MapTypes, RowsOrdered, CallTypes, bigMap
<1> QED BY <1>1, <1>2, <1>3, <1>4 DEF Configure

\* Every step keeps the types and the truth of the sanitizers.
LEMMA StepTypes ==
  ASSUME WholeHashes, LocalInv, [Next]_vars
  PROVE  LocalInv'
<1>1. CASE UNCHANGED vars
  BY <1>1 DEF LocalInv, ConfigTypes, MapTypes, RowsOrdered, CallTypes, vars, keyv, bigMap
<1>2. CASE Tick
  BY <1>2 DEF Tick, LocalInv, ConfigTypes, MapTypes, RowsOrdered, CallTypes, keyv, bigMap
<1>3. CASE \E n \in Sizes : SetStoreSize(n)
  <2>1. PICK n \in Sizes : SetStoreSize(n)
    BY <1>3
  <2>2. n \in Nat \ {0} /\ size' = n /\ maps' = Fresh(n) /\ \A i \in 0 .. n - 1 : DOMAIN maps'[i] = {}
    BY <2>1, SizeAssumption, FreshPlaced DEF SetStoreSize, Resize
  <2> QED BY <2>1, <2>2 DEF SetStoreSize, Setting, Resize, LocalInv, ConfigTypes, MapTypes, RowsOrdered, CallTypes, keyv
<1>4. CASE \E h \in DOMAIN Hashes : SetStoreHash(h)
  BY <1>4 DEF SetStoreHash, Setting, Rehash, LocalInv, ConfigTypes, MapTypes, RowsOrdered, CallTypes, keyv
<1> QED BY <1>1, <1>2, <1>3, <1>4, CallStepTypes, SetterTypes DEF Next

\* They hold at the start.
LEMMA InitTypes == Init => LocalInv
<1> SUFFICES ASSUME Init PROVE LocalInv
  OBVIOUS
<1>1. Names \subseteq Words /\ <<>> \in Words
  BY NamesAssumption, EmptySeq DEF Words
<1>2. ConfigTypes
  <2>1. Off \in Sanitizers
    BY EmptySeq DEF Off, Sanitizers
  <2>2. use \in [Keyvs -> Adapters] /\ name \in [Keyvs -> Names] /\ scene \in Scenes
    BY SceneAssumption DEF Init
  <2>3. name \in [Keyvs -> Words]
    BY <1>1, <2>2
  <2>4. space \in [Adapters -> Words]
    BY <1>1 DEF Init
  <2> QED BY <2>1, <2>2, <2>3, <2>4 DEF Init, ConfigTypes
<1>3. \A k \in Keyvs : TrueOf(clean[k])
  BY SizeAssumption, EmptySeq DEF TrueOf, Init, Off
<1>4. MapTypes
  <2>1. hash \in DOMAIN Hashes /\ size \in Nat \ {0} /\ clock = 0 /\ writes = 0 /\ puts = 0 /\ sets = 0 /\ maps = Fresh(size)
    BY SceneAssumption, SizeAssumption DEF Init
  <2>2. \A i \in 0 .. size - 1 : DOMAIN maps[i] = {}
    BY <2>1, FreshPlaced
  <2> QED BY <2>1, <2>2, BoundAssumption DEF MapTypes, RowsOrdered
<1>5. CallTypes
  BY NoCallType DEF CallTypes, Init
<1> QED BY <1>2, <1>3, <1>4, <1>5 DEF LocalInv

\* What a step of the Keyvs, with the history observed, leaves of an invariant
\* of LocalStore.
LEMMA HistoryStep == [HNext]_hvars => [Next]_vars
BY DEF HNext, hvars

\* The Keyvs, with what is observed of them, keep the types, the truth of the
\* sanitizers and the order of the Maps.
LEMMA HistoryTyped == ASSUME WholeHashes PROVE HSpec => [](LocalInv /\ Placed)
<1>1. HInit => Init
  BY DEF HInit
<1>2. LocalInv /\ [HNext]_hvars => LocalInv'
  BY HistoryStep, StepTypes
<1>3. Placed /\ [HNext]_hvars => Placed'
  BY HistoryStep, StepPlaced
<1> QED BY <1>1, <1>2, <1>3, InitTypes, InitPlaced, PTL DEF HSpec

\* Whatever a sanitizer answers from its cache is what it would compute: the
\* patterns have not changed since (core/keyv/src/sanitize.ts, updateOptions()
\* clears the cache), for any number of calls and any size of the cache.
THEOREM AnswersRemembered == ASSUME WholeHashes PROVE HSpec => []SanitizerTrue
<1>1. LocalInv => SanitizerTrue
  BY DEF LocalInv, SanitizerTrue, TrueOf
<1> QED BY <1>1, HistoryTyped, PTL

\* A Keyv that is not apart after a step shares its adapter with none, has not got
\* a new sanitizer that renames it, and was not apart before if nothing was set.
LEMMA ApartNext ==
  ASSUME NEW k \in Keyvs, Observe, k \notin apart'
  PROVE  /\ \A j \in Keyvs \ {k} : use'[j] # use'[k]
         /\ ~Cleaned(k)
         /\ name'[k] = name[k] /\ use'[k] = use[k] => k \notin apart
BY DEF Observe

\* A step keeps Keyvs and adapters in step: a setter of a Keyv tells its adapter.
LEMMA InStepKept ==
  ASSUME ConfigTypes, NamespaceInStep, HNext
  PROVE  NamespaceInStep'
<1> SUFFICES ASSUME NEW k \in Keyvs, k \notin apart'
             PROVE  name'[k] = space'[use'[k]]
  BY DEF NamespaceInStep, Space
<1>1. /\ \A j \in Keyvs \ {k} : use'[j] # use'[k]
      /\ ~Cleaned(k)
      /\ name'[k] = name[k] /\ use'[k] = use[k] => k \notin apart
  BY ApartNext DEF HNext
<1>2. k \notin apart => name[k] = space[use[k]]
  BY DEF NamespaceInStep, Space
<1> HIDE DEF Cleaned
<1>3. CASE UNCHANGED <<use, name, space>>
  BY <1>1, <1>2, <1>3
<1>4. CASE \E j \in Keyvs : Configure(j)
  <2> USE DEF ConfigTypes
  <2>1. PICK j \in Keyvs : Configure(j)
    BY <1>4
  <2>2. CASE \E ns \in Names : SetNamespace(j, ns)
    BY <1>1, <1>2, <2>2 DEF SetNamespace
  <2>3. CASE \E a \in Adapters : SetStore(j, a)
    BY <1>1, <1>2, <2>3 DEF SetStore
  <2>4. CASE \E keys, names \in SUBSET Patterns : SetSanitize(j, keys, names)
    <3>1. PICK keys \in SUBSET Patterns, names \in SUBSET Patterns : SetSanitize(j, keys, names)
      BY <2>4
    <3> DEFINE san == UpdateOptions(Off, keys, names)
    <3>2. /\ clean' = [clean EXCEPT ![j] = san] /\ name' = [name EXCEPT ![j] = CleanName(san, name[j])]
          /\ use' = use /\ space' = space
      BY <3>1 DEF SetSanitize
    <3> HIDE DEF san
    <3>3. CASE j = k
      <4>1. name'[k] = CleanName(clean'[k], name[k])
        BY <3>2, <3>3
      <4>2. name'[k] = name[k]
        BY <1>1, <3>2, <4>1 DEF Cleaned
      <4> QED BY <1>1, <1>2, <3>2, <4>2
    <3>4. CASE j # k
      BY <1>1, <1>2, <3>2, <3>4
    <3> QED BY <3>3, <3>4
  <2>5. CASE \E keys, names \in SUBSET Patterns : SetOptions(j, keys, names)
    BY <1>3, <2>5 DEF SetOptions
  <2> QED BY <2>1, <2>2, <2>3, <2>4, <2>5 DEF Configure
<1>5. CASE \E c \in Callers : Call(c)
  BY <1>3, <1>5 DEF Call, Begin, Set, Get, Delete, Clear, Decode, Purge, Advance, keyv
<1>6. CASE Tick \/ (\E n \in Sizes : SetStoreSize(n)) \/ (\E h \in DOMAIN Hashes : SetStoreHash(h))
  BY <1>3, <1>6 DEF Tick, SetStoreSize, SetStoreHash, keyv
<1> QED BY <1>4, <1>5, <1>6 DEF HNext, Next

\* A Keyv that has its adapter to itself and whose sanitizer leaves its name
\* alone has the adapter work in the namespace the Keyv has, whatever setters of
\* namespace, store and sanitizer were called in whatever order.
THEOREM AdaptersInStep == ASSUME WholeHashes PROVE HSpec => []NamespaceInStep
<1>1. HInit => NamespaceInStep
  <2> SUFFICES ASSUME HInit, NEW k \in Keyvs, k \notin apart PROVE name[k] = space[use[k]]
    BY DEF NamespaceInStep, Space
  <2>1. \A j \in Keyvs : use[j] = use[k] => j = k
    BY DEF HInit
  <2>2. use[k] \in Adapters
    BY SceneAssumption DEF HInit, Init
  <2> QED BY <2>1, <2>2 DEF HInit, Init
<1>2. LocalInv /\ NamespaceInStep /\ [HNext]_hvars => NamespaceInStep'
  <2>1. UNCHANGED hvars /\ NamespaceInStep => NamespaceInStep'
    BY DEF hvars, vars, keyv, NamespaceInStep, Space
  <2> QED BY <2>1, InStepKept DEF LocalInv
<1> QED BY <1>1, <1>2, HistoryTyped, PTL DEF HSpec

-----------------------------------------------------------------------------
(* What is observed of a call. *)

Places    == Nat \X Nat
WatchType == [ns : Words, spaces : SUBSET Words, fresh : SUBSET Nat, lasting : SUBSET Places,
              passed : SUBSET Places, twice : BOOLEAN]
Watches   == watch \in [Callers -> WatchType]

\* The namespace a step leaves to the adapter of a call.
SpaceNext(c) == space'[use'[calls'[c].kv]]

\* A call that begins is observed from there.
LEMMA Beginning ==
  ASSUME NEW c \in Callers, Observe, Begins(c)
  PROVE  /\ watch'[c] = [ns |-> name[calls'[c].kv], spaces |-> {SpaceNext(c)}, fresh |-> {},
                         lasting |-> {}, passed |-> {}, twice |-> FALSE]
BY DEF Observe, Watched, Begins, Unwatched, SpaceNext

\* A call that has ended is observed no more.
LEMMA Ending ==
  ASSUME NEW c \in Callers, Observe, calls'[c] = NoCall
  PROVE  watch'[c] = Unwatched
<1>1. ~Begins(c)
  BY NoCallType DEF Begins
<1> QED BY <1>1 DEF Observe, Watched

\* Nothing new is observed of a call that is done.
LEMMA Resting ==
  ASSUME NEW c \in Callers, Observe, calls[c].at = "done", calls'[c] = calls[c], calls[c] # NoCall
  PROVE  watch'[c] = watch[c]
<1>1. ~Begins(c)
  BY DEF Begins
<1> QED BY <1>1 DEF Observe, Watched

\* What is observed of a call on its way grows by the step: the namespace the step
\* leaves to its adapter, the values put there, the places passed.
LEMMA Going ==
  ASSUME NEW c \in Callers, Watches, Observe, calls[c].at # "done", calls'[c] # NoCall
  PROVE  /\ watch'[c].ns = watch[c].ns
         /\ watch'[c].spaces = watch[c].spaces \cup {SpaceNext(c)}
         /\ watch'[c].fresh = watch[c].fresh \cup {calls[d].row.val : d \in {e \in Callers : Sets(e)}}
         /\ watch'[c].lasting = IF moved' THEN {}
                                ELSE (IF calls[c].at = "start" THEN Owed(Captured(c))
                                      ELSE watch[c].lasting) \cap Alive'
         /\ watch'[c].passed = IF Advances(c) THEN watch[c].passed \cup {calls'[c].walk} ELSE watch[c].passed
         /\ watch'[c].twice = (watch[c].twice \/ (Advances(c) /\ calls'[c].walk \in watch[c].passed))
<1>1. ~Begins(c)
  BY DEF Begins
<1>2. watch'[c] = [watch[c] EXCEPT
          !.spaces  = @ \cup {SpaceNext(c)},
          !.fresh   = @ \cup {calls[d].row.val : d \in {e \in Callers : Sets(e)}},
          !.lasting = IF moved' THEN {}
                      ELSE (IF calls[c].at = "start" THEN Owed(Captured(c)) ELSE @) \cap Alive',
          !.passed  = IF Advances(c) THEN @ \cup {calls'[c].walk} ELSE @,
          !.twice   = @ \/ (Advances(c) /\ calls'[c].walk \in watch[c].passed)]
  BY <1>1 DEF Observe, Watched, SpaceNext
<1>3. watch[c] \in WatchType
  BY DEF Watches
<1> QED BY <1>2, <1>3 DEF WatchType

\* A step of one call leaves the others alone.
LEMMA OtherCalls ==
  ASSUME LocalInv, NEW d \in Callers, Call(d), NEW c \in Callers, c # d
  PROVE  calls'[c] = calls[c]
<1>1. \E new : calls' = [calls EXCEPT ![d] = new]
  <2>1. CASE Begin(d)
    BY <2>1 DEF Begin
  <2>2. CASE Set(d) \/ Delete(d) \/ Clear(d)
    BY <2>2 DEF Set, Delete, Clear
  <2>3. CASE Get(d)
    <3> DEFINE found == Holds(Target(d)) /\ ~Lapsed(At(Target(d)))
               row0 == IF found THEN [val |-> At(Target(d)).val, e |-> At(Target(d)).e] ELSE calls[d].row
    <3>1. calls' = [calls EXCEPT ![d].at = IF found THEN "decode" ELSE "done", ![d].row = row0]
      BY <2>3 DEF Get
    <3>2. calls' = [calls EXCEPT ![d] = [@ EXCEPT !.at = IF found THEN "decode" ELSE "done", !.row = row0]]
      BY <3>1 DEF LocalInv, CallTypes, CallType
    <3> QED BY <3>2
  <2>4. CASE Decode(d)
    <3> DEFINE dead == Lapsed(calls[d].row)
               at0  == IF dead THEN "purge" ELSE IF calls[d].op = "iterate" THEN "ask" ELSE "done"
               row0 == IF dead THEN NoRow ELSE calls[d].row
    <3>1. calls' = [calls EXCEPT ![d].at = at0, ![d].row = row0]
      BY <2>4 DEF Decode, LocalInv, CallTypes, CallType
    <3> HIDE DEF at0, row0
    <3>2. calls' = [calls EXCEPT ![d] = [@ EXCEPT !.at = at0, !.row = row0]]
      BY <3>1 DEF LocalInv, CallTypes, CallType
    <3> QED BY <3>2
  <2>5. CASE Purge(d)
    BY <2>5 DEF Purge
  <2>6. CASE Advance(d)
    BY <2>6, AdvanceMeans
  <2> QED BY <2>1, <2>2, <2>3, <2>4, <2>5, <2>6 DEF Call
<1> QED BY <1>1 DEF LocalInv, CallTypes

\* A call changes by a step of its own only.
LEMMA CallGoes ==
  ASSUME LocalInv, NEW c \in Callers, Next
  PROVE  calls'[c] = calls[c] \/ Call(c)
<1>1. CASE \E d \in Callers : Call(d)
  BY <1>1, OtherCalls
<1>2. CASE Tick
  BY <1>2 DEF Tick
<1>3. CASE \E k \in Keyvs : Configure(k)
  BY <1>3 DEF Configure, SetNamespace, SetStore, SetSanitize, SetOptions
<1>4. CASE \E n \in Sizes : SetStoreSize(n)
  BY <1>4 DEF SetStoreSize
<1>5. CASE \E h \in DOMAIN Hashes : SetStoreHash(h)
  BY <1>5 DEF SetStoreHash
<1> QED BY <1>1, <1>2, <1>3, <1>4, <1>5 DEF Next

\* What becomes of the rows.
LEMMA MapsGo ==
  ASSUME Next
  PROVE  \/ UNCHANGED <<size, maps>>
         \/ UNCHANGED <<size, hash, moved, sets>> /\ \E keys : maps' = Without(keys)
         \/ \E c \in Callers : Set(c)
         \/ \E n \in Sizes : SetStoreSize(n)
<1>1. CASE \E d \in Callers : Call(d)
  <2>1. PICK d \in Callers : Call(d)
    BY <1>1
  <2>2. CASE Begin(d) \/ Decode(d)
    BY <2>2 DEF Begin, Decode, bigMap
  <2>3. CASE Get(d)
    BY <2>3 DEF Get
  <2>4. CASE Delete(d) \/ Clear(d)
    BY <2>4 DEF Delete, Clear
  <2>5. CASE Purge(d)
    BY <2>5 DEF Purge
  <2>6. CASE Advance(d)
    BY <2>6, AdvanceMeans
  <2> QED BY <2>1, <2>2, <2>3, <2>4, <2>5, <2>6 DEF Call
<1>2. CASE Tick
  BY <1>2 DEF Tick, bigMap
<1>3. CASE \E k \in Keyvs : Configure(k)
  BY <1>3 DEF Configure, SetNamespace, SetStore, SetSanitize, SetOptions, bigMap
<1>4. CASE \E n \in Sizes : SetStoreSize(n)
  BY <1>4
<1>5. CASE \E h \in DOMAIN Hashes : SetStoreHash(h)
  BY <1>5 DEF SetStoreHash, Rehash
<1> QED BY <1>1, <1>2, <1>3, <1>4, <1>5 DEF Next

\* A call under way stays the call it is.
LEMMA SameCall ==
  ASSUME LocalInv, NEW c \in Callers, Next, calls[c].at # "done"
  PROVE  \/ calls'[c] = NoCall
         \/ calls'[c].op = calls[c].op /\ calls'[c].kv = calls[c].kv
<1> USE DEF LocalInv, CallTypes, CallType
<1>1. CASE Call(c)
  <2>1. CASE Begin(c)
    BY <2>1 DEF Begin
  <2>2. CASE Set(c) \/ Delete(c) \/ Clear(c)
    BY <2>2 DEF Set, Delete, Clear
  <2>3. CASE Get(c)
    <3>1. \E at0, row0 : calls' = [calls EXCEPT ![c].at = at0, ![c].row = row0]
      BY <2>3 DEF Get
    <3> QED BY <3>1
  <2>4. CASE Decode(c)
    <3>1. \E at0, row0 : calls' = [calls EXCEPT ![c].at = at0, ![c].row = row0]
      BY <2>4 DEF Decode
    <3> QED BY <3>1
  <2>5. CASE Purge(c)
    BY <2>5 DEF Purge
  <2>6. CASE Advance(c)
    <3>1. CASE Live(c) = {}
      <4>1. calls' = [calls EXCEPT ![c] = [@ EXCEPT !.at = "done", !.ns = Captured(c)]]
        BY <2>6, <3>1, AdvanceMeans
      <4> QED BY <4>1
    <3>2. CASE Live(c) # {}
      <4> DEFINE key0 == KeyOf(Captured(c), First(c)[2])
                 row0 == [val |-> RowOf(First(c)).val, e |-> RowOf(First(c)).e]
                 walk0 == Place(First(c))
      <4>1. calls' = [calls EXCEPT ![c] = [@ EXCEPT !.at = "decode", !.ns = Captured(c), !.walk = walk0,
                                                    !.key = key0, !.row = row0]]
        BY <2>6, <3>2, AdvanceMeans
      <4> HIDE DEF key0, row0, walk0
      <4> QED BY <4>1
    <3> QED BY <3>1, <3>2
  <2> QED BY <1>1, <2>1, <2>2, <2>3, <2>4, <2>5, <2>6 DEF Call
<1> QED BY <1>1, CallGoes

\* Where its adapter keeps the rows of a call under way.
LEMMA SpaceTyped ==
  ASSUME LocalInv, LocalInv', NEW c \in Callers, Next, calls'[c] # NoCall,
         calls[c].at # "done" \/ Begins(c)
  PROVE  SpaceNext(c) \in Words
<1>1. calls'[c].kv \in Keyvs
  <2>1. CASE Begins(c)
    BY <2>1 DEF LocalInv, CallTypes, Begins
  <2>2. CASE calls[c].at # "done"
    <3>1. calls'[c].kv = calls[c].kv
      BY <2>2, SameCall
    <3> QED BY <2>2, <3>1 DEF LocalInv, CallTypes
  <2> QED BY <2>1, <2>2
<1>2. use' \in [Keyvs -> Adapters] /\ space' \in [Adapters -> Words]
  BY DEF LocalInv, ConfigTypes
<1> QED BY <1>1, <1>2 DEF SpaceNext

\* What an iterator owes are places of rows.
LEMMA OwedTyped ==
  ASSUME LocalInv, NEW ns
  PROVE  Owed(ns) \subseteq Places
<1> SUFFICES ASSUME NEW entry \in Entries PROVE Place(entry) \in Places
  BY DEF Owed, Ahead, After
<1> QED BY EntriesTyped DEF EntryTypes, LocalInv, Places

\* A step keeps what is observed of the calls typed and in step with them.
LEMMA WatchesKept ==
  ASSUME LocalInv, LocalInv', Watches, HNext
  PROVE  Watches'
<1> SUFFICES ASSUME NEW c \in Callers PROVE watch'[c] \in WatchType
  BY DEF Watches, HNext, Observe
<1> USE DEF HNext
<1>1. CASE calls'[c] = NoCall
  <2>1. <<>> \in Words
    BY EmptySeq DEF Words
  <2>2. watch'[c] = Unwatched
    BY <1>1, Ending
  <2> QED BY <2>1, <2>2 DEF Unwatched, WatchType
<1>2. CASE Begins(c)
  <2>1. name[calls'[c].kv] \in Words
    <3>1. calls'[c].kv \in Keyvs
      BY <1>2 DEF LocalInv, CallTypes, Begins
    <3> QED BY <3>1 DEF LocalInv, ConfigTypes
  <2>2. calls'[c] # NoCall
    BY <1>2, NoCallType DEF Begins
  <2>3. SpaceNext(c) \in Words
    BY <1>2, <2>2, SpaceTyped
  <2>4. watch'[c] = [ns |-> name[calls'[c].kv], spaces |-> {SpaceNext(c)}, fresh |-> {},
                     lasting |-> {}, passed |-> {}, twice |-> FALSE]
    BY <1>2, Beginning
  <2> QED BY <2>1, <2>3, <2>4 DEF WatchType
<1>3. CASE calls'[c] # NoCall /\ ~Begins(c) /\ calls[c].at = "done"
  BY <1>3 DEF Observe, Watched, Watches
<1>4. CASE calls'[c] # NoCall /\ calls[c].at # "done"
  <2>1. watch'[c] = [watch[c] EXCEPT
          !.spaces  = @ \cup {SpaceNext(c)},
          !.fresh   = @ \cup {calls[d].row.val : d \in {e \in Callers : Sets(e)}},
          !.lasting = IF moved' THEN {}
                      ELSE (IF calls[c].at = "start" THEN Owed(Captured(c)) ELSE @) \cap Alive',
          !.passed  = IF Advances(c) THEN @ \cup {calls'[c].walk} ELSE @,
          !.twice   = @ \/ (Advances(c) /\ calls'[c].walk \in watch[c].passed)]
    BY <1>4 DEF Observe, Watched, SpaceNext, Begins
  <2>2. SpaceNext(c) \in Words
    BY <1>4, SpaceTyped
  <2>3. Owed(Captured(c)) \subseteq Places
    BY OwedTyped
  <2>4. calls'[c].walk \in Places /\ \A d \in Callers : calls[d].row.val \in Nat
    BY DEF LocalInv, CallTypes, CallType, CallRow, Places
  <2>5. watch[c] \in WatchType
    BY DEF Watches
  <2> DEFINE spaces0  == watch[c].spaces \cup {SpaceNext(c)}
             fresh0   == watch[c].fresh \cup {calls[d].row.val : d \in {e \in Callers : Sets(e)}}
             lasting0 == IF moved' THEN {}
                         ELSE (IF calls[c].at = "start" THEN Owed(Captured(c)) ELSE watch[c].lasting) \cap Alive'
             passed0  == IF Advances(c) THEN watch[c].passed \cup {calls'[c].walk} ELSE watch[c].passed
             twice0   == watch[c].twice \/ (Advances(c) /\ calls'[c].walk \in watch[c].passed)
  <2>6. /\ watch[c].spaces \in SUBSET Words /\ watch[c].fresh \in SUBSET Nat
        /\ watch[c].lasting \in SUBSET Places /\ watch[c].passed \in SUBSET Places
    BY <2>5 DEF WatchType
  <2>7. spaces0 \in SUBSET Words
    BY <2>2, <2>6
  <2>8. fresh0 \in SUBSET Nat
    BY <2>4, <2>6
  <2>9. lasting0 \in SUBSET Places /\ passed0 \in SUBSET Places
    BY <2>3, <2>4, <2>6
  <2>10. twice0 \in BOOLEAN
    BY <2>5 DEF WatchType
  <2>11. watch'[c] = [watch[c] EXCEPT !.spaces = spaces0, !.fresh = fresh0, !.lasting = lasting0,
                                     !.passed = passed0, !.twice = twice0]
    BY <2>1, <2>5 DEF WatchType
  <2> HIDE DEF spaces0, fresh0, lasting0, passed0, twice0
  <2> QED BY <2>5, <2>7, <2>8, <2>9, <2>10, <2>11 DEF WatchType
<1> QED BY <1>1, <1>2, <1>3, <1>4

\* So does a step, stuttering included.
LEMMA WatchesStep ==
  ASSUME WholeHashes, LocalInv, Watches, [HNext]_hvars
  PROVE  Watches'
<1>1. LocalInv'
  BY HistoryStep, StepTypes
<1>2. CASE UNCHANGED hvars
  BY <1>2 DEF hvars, Watches
<1> QED BY <1>1, <1>2, WatchesKept

\* At the start nothing is observed.
LEMMA WatchesInit == HInit => Watches
<1>1. <<>> \in Words
  BY EmptySeq DEF Words
<1> QED BY <1>1 DEF HInit, Watches, WatchType, Unwatched

-----------------------------------------------------------------------------
(* Iterators. *)

\* A namespace has this row: Ahead()'s test.
Has(ns, p) == ns = <<>> \/ Within(ns, p)

\* A place is that of one row for good, until the Maps are thrown away.
LEMMA PlaceKept ==
  ASSUME MapTypes, NEW i \in 0 .. size - 1, NEW a \in DOMAIN maps[i], NEW b \in DOMAIN maps'[i],
         maps'[i][b].at = maps[i][a].at,
         \/ maps' = maps
         \/ \E keys : maps' = Without(keys)
         \/ \E c \in Callers : Set(c)
  PROVE  b = a
<1> USE DEF MapTypes, RowsOrdered
<1>1. CASE maps' = maps
  BY <1>1
<1>2. CASE \E keys : maps' = Without(keys)
  BY <1>2 DEF Without
<1>3. CASE \E c \in Callers : Set(c)
  <2>1. PICK c \in Callers : Set(c)
    BY <1>3
  <2> DEFINE p   == Target(c)
             row == [val |-> calls[c].row.val, e |-> calls[c].row.e,
                     at |-> IF Holds(p) THEN At(p).at ELSE puts + 1]
  <2>2. maps' = With([q \in {p} |-> row]) /\ row.at = (IF Holds(p) THEN At(p).at ELSE puts + 1)
    BY <2>1 DEF Set
  <2> HIDE DEF row, p
  <2>3. maps'[i] = [k \in DOMAIN maps[i] \cup {j \in {p} : Slot(j) = i} |->
                      IF k \in {p} /\ Slot(k) = i THEN row ELSE maps[i][k]]
    BY <2>2 DEF With
  <2>4. CASE b = p /\ Slot(p) = i
    <3>1. maps'[i][b] = row
      BY <2>3, <2>4
    <3> QED BY <2>2, <2>4, <3>1 DEF Holds, At
  <2>5. CASE ~ (b = p /\ Slot(p) = i)
    <3>1. b \in DOMAIN maps[i] /\ maps'[i][b] = maps[i][b]
      BY <2>3, <2>5
    <3> QED BY <3>1
  <2> QED BY <2>4, <2>5
<1> QED BY <1>1, <1>2, <1>3

\* A row of the namespace lies there, and has not expired.
OwedAt(ns, q) ==
  \E i \in 0 .. size - 1 : \E p \in DOMAIN maps[i] :
    q = <<i, maps[i][p].at>> /\ Has(ns, p) /\ ~Lapsed(maps[i][p])

\* An iterator has the rows that it owes before it, in their places and alive,
\* unless it has passed them, and comes to no place twice.
IterateOk(c) ==
  /\ calls[c].at = "start" => calls[c].walk = Start /\ watch[c].passed = {}
  /\ calls[c].at = "done" => watch[c].lasting \subseteq watch[c].passed
  /\ ~watch[c].twice
  /\ calls[c].at \in {"decode", "purge", "ask"} =>
       /\ \A q \in watch[c].passed : ~Precedes(calls[c].walk, q)
       /\ moved => watch[c].lasting = {}
       /\ \A q \in watch[c].lasting :
            /\ q \in watch[c].passed \/ Precedes(calls[c].walk, q)
            /\ OwedAt(calls[c].ns, q)

IterateInv == \A c \in Callers : calls[c].op = "iterate" => IterateOk(c)

\* The steps of an iterator that has begun.
LEMMA IteratorGoes ==
  ASSUME LocalInv, NEW c \in Callers, Next, calls[c].op = "iterate", calls'[c] # calls[c]
  PROVE  \/ Begin(c)
         \/ Advance(c)
         \/ /\ calls[c].at \in {"decode", "purge"} /\ calls'[c].at \in {"purge", "ask"}
            /\ calls'[c].walk = calls[c].walk /\ calls'[c].ns = calls[c].ns
            /\ calls'[c].op = calls[c].op
<1> USE DEF LocalInv, CallTypes, CallType
<1>1. Call(c)
  BY CallGoes
<1>2. CASE Set(c) \/ Get(c) \/ Delete(c) \/ Clear(c)
  BY <1>2 DEF Set, Get, Delete, Clear
<1>3. CASE Decode(c)
  <2> DEFINE at0  == IF Lapsed(calls[c].row) THEN "purge"
                     ELSE IF calls[c].op = "iterate" THEN "ask" ELSE "done"
             row0 == IF Lapsed(calls[c].row) THEN NoRow ELSE calls[c].row
  <2>1. calls' = [calls EXCEPT ![c].at = at0, ![c].row = row0] /\ calls[c].at = "decode"
        /\ at0 \in {"purge", "ask"}
    BY <1>3 DEF Decode
  <2> HIDE DEF at0, row0
  <2> QED BY <2>1
<1>4. CASE Purge(c)
  <2>1. calls' = [calls EXCEPT ![c].at = "ask"] /\ calls[c].at = "purge"
    BY <1>4 DEF Purge
  <2> QED BY <2>1
<1> QED BY <1>1, <1>2, <1>3, <1>4 DEF Call

\* A row that is still in its place and alive was not overwritten by another.
LEMMA OwedStays ==
  ASSUME LocalInv, NEW ns, NEW q, q \in Alive', OwedAt(ns, q), size' = size,
         \/ maps' = maps
         \/ \E keys : maps' = Without(keys)
         \/ \E d \in Callers : Set(d)
  PROVE  \E i \in 0 .. size' - 1 : \E p \in DOMAIN maps'[i] :
           q = <<i, maps'[i][p].at>> /\ Has(ns, p) /\ ~ (maps'[i][p].e # Never /\ clock' > maps'[i][p].e)
<1>1. PICK i \in 0 .. size - 1 : \E a \in DOMAIN maps[i] : q = <<i, maps[i][a].at>> /\ Has(ns, a)
  BY DEF OwedAt
<1>1a. PICK a \in DOMAIN maps[i] : q = <<i, maps[i][a].at>> /\ Has(ns, a)
  BY <1>1
<1>2. PICK j \in 0 .. size' - 1 : \E b \in DOMAIN maps'[j] :
        q = <<j, maps'[j][b].at>> /\ ~ (maps'[j][b].e # Never /\ clock' > maps'[j][b].e)
  BY DEF Alive, Entries, Place, RowOf, Lapsed
<1>2a. PICK b \in DOMAIN maps'[j] :
        q = <<j, maps'[j][b].at>> /\ ~ (maps'[j][b].e # Never /\ clock' > maps'[j][b].e)
  BY <1>2
<1>3. j = i /\ maps'[i][b].at = maps[i][a].at
  BY <1>1a, <1>2a
<1>4. b = a
  BY <1>2a, <1>3, PlaceKept DEF LocalInv
<1> QED BY <1>1a, <1>2a, <1>3, <1>4

\* A row of the namespace in its place is owed in the next state.
LEMMA OwedNext ==
  ASSUME NEW c \in Callers, NEW q,
         \E i \in 0 .. size' - 1 : \E p \in DOMAIN maps'[i] :
           /\ q = <<i, maps'[i][p].at>> /\ Has(calls'[c].ns, p)
           /\ ~ (maps'[i][p].e # Never /\ clock' > maps'[i][p].e)
  PROVE  OwedAt(calls[c].ns, q)'
BY DEF OwedAt, Has, Within, Lapsed

\* The steps under which an iterator goes on leave the Maps in being.
LEMMA MapsStay ==
  ASSUME Next, NEW c \in Callers, calls[c].op = "iterate",
         calls[c].at \in {"decode", "purge", "ask"} \/ Advance(c)
  PROVE  /\ size' = size
         /\ \/ maps' = maps
            \/ \E keys : maps' = Without(keys)
            \/ \E d \in Callers : Set(d)
<1>1. CASE calls[c].at \in {"decode", "purge", "ask"}
  <2>1. \A n : ~SetStoreSize(n)
    BY <1>1 DEF SetStoreSize
  <2>2. \A d \in Callers : Set(d) => size' = size
    BY DEF Set
  <2> QED BY <2>1, <2>2, MapsGo
<1>2. CASE Advance(c)
  BY <1>2, AdvanceMeans
<1> QED BY <1>1, <1>2

\* While no hash function was replaced, an iterator that goes on comes to the
\* first of the rows that it owes.
LEMMA AdvanceMeets ==
  ASSUME LocalInv, Placed, ~moved, NEW c \in Callers, calls[c].at \in {"start", "ask"}, NEW q,
         Precedes(calls[c].walk, q), OwedAt(Captured(c), q)
  PROVE  Live(c) # {} /\ (q = Place(First(c)) \/ Precedes(Place(First(c)), q))
<1>0. PICK i \in 0 .. size - 1 : \E p \in DOMAIN maps[i] :
        q = <<i, maps[i][p].at>> /\ Has(Captured(c), p) /\ ~Lapsed(maps[i][p])
  BY DEF OwedAt
<1>1. PICK p \in DOMAIN maps[i] :
        q = <<i, maps[i][p].at>> /\ Has(Captured(c), p) /\ ~Lapsed(maps[i][p])
  BY <1>0
<1> DEFINE e == <<i, p>>
           ahead == Ahead(Captured(c), calls[c].walk)
<1>2. e \in Entries /\ Place(e) = q /\ RowOf(e) = maps[i][p]
  BY <1>1 DEF Entries, Place, RowOf
<1>3. e \in ahead /\ ~Lapsed(RowOf(e))
  BY <1>1, <1>2 DEF Ahead, After, Has
<1>4. ASSUME NEW old \in ahead, <<Slot(old[2]), old[2]>> = e PROVE ~Lapsed(RowOf(old))
  <2>1. old \in Entries
    BY DEF Ahead, After
  <2>2. old = <<old[1], old[2]>> /\ old[1] = Slot(old[2])
    BY <2>1, EntriesTyped DEF Placed, EntryTypes, LocalInv
  <2> HIDE DEF e, ahead
  <2> QED BY <1>3, <1>4, <2>2
<1>5. e \in Live(c)
  BY <1>3, <1>4 DEF Live
<1>6. IsFirst(First(c), Live(c))
  BY <1>5, AdvanceTypes
<1> HIDE DEF e
<1> QED BY <1>2, <1>5, <1>6 DEF IsFirst

\* An iterator that stays where it is.
LEMMA IterateWaits ==
  ASSUME LocalInv, Watches, NEW c \in Callers, HNext, calls[c].op = "iterate", IterateOk(c),
         \/ calls'[c] = calls[c]
         \/ /\ calls[c].at \in {"decode", "purge"} /\ calls'[c].at \in {"purge", "ask"}
            /\ calls'[c].walk = calls[c].walk /\ calls'[c].ns = calls[c].ns
            /\ calls'[c].op = calls[c].op
  PROVE  IterateOk(c)'
<1>0. Next /\ Observe /\ calls[c] # NoCall /\ calls'[c] # NoCall
  BY NoCallType DEF HNext
<1>1. CASE calls[c].at = "done"
  <2>1. calls'[c] = calls[c]
    BY <1>1
  <2>2. watch'[c] = watch[c]
    BY <1>0, <1>1, <2>1, Resting
  <2> QED BY <1>1, <2>1, <2>2 DEF IterateOk
<1>2. CASE calls[c].at # "done"
  <2>1. ~Advances(c) /\ calls'[c].walk = calls[c].walk /\ calls'[c].ns = calls[c].ns
        /\ calls'[c].at # "done"
    BY <1>2 DEF Advances
  <2>2. /\ watch'[c].passed = watch[c].passed /\ watch'[c].twice = watch[c].twice
        /\ watch'[c].lasting = IF moved' THEN {}
                                ELSE (IF calls[c].at = "start" THEN Owed(Captured(c))
                                      ELSE watch[c].lasting) \cap Alive'
    BY <1>0, <1>2, <2>1, Going DEF Watches, WatchType
  <2>3. CASE calls[c].at = "start"
    BY <2>1, <2>2, <2>3 DEF IterateOk
  <2>4. CASE calls[c].at \in {"decode", "purge", "ask"}
    <3>1. calls'[c].at \in {"decode", "purge", "ask"}
      BY <2>4
    <3>2. /\ size' = size
          /\ \/ maps' = maps
             \/ \E keys : maps' = Without(keys)
             \/ \E d \in Callers : Set(d)
      BY <1>0, <2>4, MapsStay
    <3>3. ASSUME NEW q \in watch'[c].lasting
          PROVE  /\ q \in watch'[c].passed \/ Precedes(calls'[c].walk, q)
                 /\ OwedAt(calls[c].ns, q)'
      <4>1. q \in watch[c].lasting /\ q \in Alive'
        BY <2>2, <2>4
      <4>2. OwedAt(calls[c].ns, q) /\ (q \in watch[c].passed \/ Precedes(calls[c].walk, q))
        BY <2>4, <4>1 DEF IterateOk
      <4>3. \E i \in 0 .. size' - 1 : \E p \in DOMAIN maps'[i] :
              q = <<i, maps'[i][p].at>> /\ Has(calls[c].ns, p) /\ ~ (maps'[i][p].e # Never /\ clock' > maps'[i][p].e)
        BY <3>2, <4>1, <4>2, OwedStays
      <4>4. OwedAt(calls[c].ns, q)'
        BY <2>1, <4>3, OwedNext
      <4> QED BY <2>1, <2>2, <4>2, <4>4
    <3>4. (\A q \in watch[c].passed : ~Precedes(calls[c].walk, q)) /\ ~watch[c].twice
      BY <2>4 DEF IterateOk
    <3>5. \A q \in watch'[c].passed : ~Precedes(calls'[c].walk, q)
      BY <2>1, <2>2, <3>4
    <3>6. moved' => watch'[c].lasting = {}
      BY <2>2
    <3>7. ~watch'[c].twice
      BY <2>2, <3>4
    <3> QED BY <3>1, <3>3, <3>5, <3>6, <3>7 DEF IterateOk, Precedes
  <2>5. calls[c].at # "before"
    BY DEF LocalInv, CallTypes
  <2>6. calls[c].at \in {"start", "before", "decode", "purge", "ask", "done"}
    BY DEF LocalInv, CallTypes, CallType
  <2> QED BY <1>2, <2>3, <2>4, <2>5, <2>6
<1> QED BY <1>1, <1>2

\* An iterator that begins has passed nothing.
LEMMA IterateBegins ==
  ASSUME LocalInv, NEW c \in Callers, HNext, Begin(c), calls'[c].op = "iterate"
  PROVE  IterateOk(c)'
<1>1. calls'[c].walk = Start /\ calls'[c].at = "start" /\ calls[c].at = "done"
  <2>1. PICK call \in scene.ops[c], key \in Keys, life \in Lifetimes :
          calls' = [calls EXCEPT ![c] =
            [NoCall EXCEPT !.op = call[1], !.kv = call[2],
               !.key = IF call[1] \in {"set", "get", "delete"} THEN CleanKey(clean[call[2]], key) ELSE <<>>,
               !.row = IF call[1] = "set"
                       THEN [val |-> writes + 1, e |-> IF life = Never THEN Never ELSE clock + life] ELSE NoRow,
               !.at = IF call[1] = "iterate" THEN "start" ELSE "before"]]
    BY DEF Begin
  <2> DEFINE key0 == IF call[1] \in {"set", "get", "delete"} THEN CleanKey(clean[call[2]], key) ELSE <<>>
             row0 == IF call[1] = "set"
                     THEN [val |-> writes + 1, e |-> IF life = Never THEN Never ELSE clock + life] ELSE NoRow
             op0  == call[1]
             k0   == call[2]
  <2>2. calls'[c] = [NoCall EXCEPT !.op = op0, !.kv = k0, !.key = key0, !.row = row0,
                                   !.at = IF op0 = "iterate" THEN "start" ELSE "before"]
    BY <2>1 DEF LocalInv, CallTypes
  <2> HIDE DEF key0, row0, op0, k0
  <2>3. NoCall \in CallType /\ NoCall.walk = Start
    BY NoCallType DEF NoCall
  <2>4. calls'[c].op = op0 /\ calls'[c].walk = Start /\ calls'[c].at = (IF op0 = "iterate" THEN "start" ELSE "before")
    BY <2>2, <2>3 DEF CallType
  <2>5. calls[c].at = "done"
    BY DEF Begin
  <2> QED BY <2>4, <2>5
<1>2. watch'[c].passed = {} /\ watch'[c].twice = FALSE
  <2>1. Begins(c) /\ Observe
    BY <1>1 DEF HNext, Begins
  <2>2. watch'[c] = [ns |-> name[calls'[c].kv], spaces |-> {SpaceNext(c)}, fresh |-> {},
                     lasting |-> {}, passed |-> {}, twice |-> FALSE]
    BY <2>1, Beginning
  <2> QED BY <2>2
<1> QED BY <1>1, <1>2 DEF IterateOk, Start

\* Places are in a strict order.
LEMMA PrecedesOrder ==
  /\ \A p \in Places : ~Precedes(p, p)
  /\ \A p, q, r \in Places : Precedes(p, q) /\ Precedes(q, r) => Precedes(p, r)
BY DEF Places, Precedes

\* An iterator that goes on has passed, or has before it, all it owes.
LEMMA IterateAdvances ==
  ASSUME LocalInv, Placed, Watches, NEW c \in Callers, HNext, IterateOk(c), Advance(c)
  PROVE  IterateOk(c)'
<1>0. Next /\ Observe /\ calls[c] # NoCall /\ calls[c].op = "iterate" /\ calls[c].at \in {"start", "ask"}
  BY NoCallType, AdvanceMeans DEF HNext
<1>1. /\ calls' = [calls EXCEPT ![c] =
              IF Live(c) = {} THEN [@ EXCEPT !.at = "done", !.ns = Captured(c)]
              ELSE [@ EXCEPT !.at = "decode", !.ns = Captured(c), !.walk = Place(First(c)),
                             !.key = KeyOf(Captured(c), First(c)[2]),
                             !.row = [val |-> RowOf(First(c)).val, e |-> RowOf(First(c)).e]]]
      /\ moved' = moved
  BY AdvanceMeans
<1>2. /\ size' = size
      /\ \/ maps' = maps
         \/ \E keys : maps' = Without(keys)
         \/ \E d \in Callers : Set(d)
  BY <1>0, MapsStay
<1>3. calls[c] \in CallType /\ calls \in [Callers -> CallType]
  BY DEF LocalInv, CallTypes
<1>4. calls'[c].ns = Captured(c) /\ calls'[c].op = "iterate"
  <2>1. CASE Live(c) = {}
    BY <1>0, <1>1, <1>3, <2>1 DEF CallType
  <2>2. CASE Live(c) # {}
    <3> DEFINE key0 == KeyOf(Captured(c), First(c)[2])
               row0 == [val |-> RowOf(First(c)).val, e |-> RowOf(First(c)).e]
               walk0 == Place(First(c))
    <3>1. calls' = [calls EXCEPT ![c] = [@ EXCEPT !.at = "decode", !.ns = Captured(c), !.walk = walk0,
                                                  !.key = key0, !.row = row0]]
      BY <1>1, <2>2
    <3> HIDE DEF key0, row0, walk0
    <3> QED BY <1>0, <1>3, <3>1 DEF CallType
  <2> QED BY <2>1, <2>2
<1>5. calls'[c] # NoCall
  BY <1>4, NoCallType
<1>6. /\ watch'[c].lasting = IF moved' THEN {}
                             ELSE (IF calls[c].at = "start" THEN Owed(Captured(c))
                                   ELSE watch[c].lasting) \cap Alive'
      /\ watch'[c].passed = IF Advances(c) THEN watch[c].passed \cup {calls'[c].walk} ELSE watch[c].passed
      /\ watch'[c].twice = (watch[c].twice \/ (Advances(c) /\ calls'[c].walk \in watch[c].passed))
  BY <1>0, <1>5, Going
\* Whatever it still owes lies ahead of it, or was passed.
<1>7. ASSUME NEW q \in watch'[c].lasting
      PROVE  /\ ~moved /\ OwedAt(Captured(c), q) /\ q \in Alive'
             /\ q \in watch[c].passed \/ Precedes(calls[c].walk, q)
  <2>1. ~moved /\ q \in Alive'
    BY <1>1, <1>6, <1>7
  <2>2. CASE calls[c].at = "start"
    <3>1. q \in Owed(Captured(c)) /\ calls[c].walk = Start
      BY <1>6, <1>7, <2>1, <2>2 DEF IterateOk
    <3>2. PICK e \in Ahead(Captured(c), Start) : q = Place(e) /\ ~Lapsed(RowOf(e))
      BY <3>1 DEF Owed
    <3>3. e \in Entries /\ Precedes(Start, Place(e)) /\ Has(Captured(c), e[2])
      BY DEF Ahead, After, Has
    <3>4. e[1] \in 0 .. size - 1 /\ e[2] \in DOMAIN maps[e[1]] /\ Place(e) = <<e[1], maps[e[1]][e[2]].at>>
          /\ RowOf(e) = maps[e[1]][e[2]]
      BY <3>3, EntriesTyped DEF EntryTypes, LocalInv, RowOf
    <3>5. OwedAt(Captured(c), q)
      BY <3>2, <3>3, <3>4 DEF OwedAt
    <3> QED BY <2>1, <3>1, <3>2, <3>3, <3>5
  <2>3. CASE calls[c].at = "ask"
    <3>1. q \in watch[c].lasting /\ Captured(c) = calls[c].ns
      BY <1>6, <1>7, <2>1, <2>3 DEF Captured
    <3> QED BY <2>1, <2>3, <3>1 DEF IterateOk
  <2> QED BY <1>0, <2>2, <2>3
<1>8. ~watch[c].twice
  BY DEF IterateOk
<1>9. CASE Live(c) = {}
  <2>1. calls'[c].at = "done" /\ calls'[c].walk = calls[c].walk
    BY <1>1, <1>3, <1>9 DEF CallType
  <2>2. watch'[c].passed = watch[c].passed /\ ~watch'[c].twice
    BY <1>6, <1>8, <2>1 DEF Advances
  <2>3. ASSUME NEW q \in watch'[c].lasting PROVE q \in watch'[c].passed
    BY <1>0, <1>7, <1>9, <2>2, <2>3, AdvanceMeets
  <2> QED BY <2>1, <2>2, <2>3 DEF IterateOk
<1>10. CASE Live(c) # {}
  <2> DEFINE key0 == KeyOf(Captured(c), First(c)[2])
             row0 == [val |-> RowOf(First(c)).val, e |-> RowOf(First(c)).e]
             here == Place(First(c))
  <2>1. calls'[c].at = "decode" /\ calls'[c].walk = here
    <3>1. calls' = [calls EXCEPT ![c] = [@ EXCEPT !.at = "decode", !.ns = Captured(c), !.walk = here,
                                                  !.key = key0, !.row = row0]]
      BY <1>1, <1>10
    <3> HIDE DEF key0, row0, here
    <3> QED BY <1>3, <3>1 DEF CallType
  <2>2. First(c) \in Ahead(Captured(c), calls[c].walk) /\ First(c) \in Entries
    BY <1>0, <1>10, AdvanceTypes DEF IsFirst
  <2>3. Precedes(calls[c].walk, here) /\ here \in Places /\ here # Start
    <3>1. Precedes(calls[c].walk, here)
      BY <2>2 DEF Ahead, After
    <3>2. here = <<First(c)[1], RowOf(First(c)).at>> /\ RowOf(First(c)).at \in 1 .. puts /\ here \in Places
      BY <2>2, EntriesTyped DEF EntryTypes, LocalInv, Places
    <3> HIDE DEF here
    <3>3. puts \in Nat
      BY DEF LocalInv, MapTypes
    <3> QED BY <3>1, <3>2, <3>3 DEF Start
  <2> HIDE DEF here
  <2>4. calls[c].walk \in Places /\ watch[c].passed \subseteq Places
    BY <1>3 DEF CallType, Places, Watches, WatchType
  <2>5. \A q \in watch[c].passed : ~Precedes(calls[c].walk, q)
    BY <1>0 DEF IterateOk
  <2>6. Advances(c)
    BY <2>1, <2>3, <2>4, PrecedesOrder DEF Advances
  <2>7. watch'[c].passed = watch[c].passed \cup {here} /\ ~watch'[c].twice
    <3>1. here \notin watch[c].passed
      BY <2>3, <2>5
    <3> QED BY <1>6, <1>8, <2>1, <2>6, <3>1
  <2>8. \A q \in watch'[c].passed : ~Precedes(calls'[c].walk, q)
    BY <2>1, <2>3, <2>4, <2>5, <2>7, PrecedesOrder
  <2>9. moved' => watch'[c].lasting = {}
    BY <1>6
  <2>10. ASSUME NEW q \in watch'[c].lasting
         PROVE  /\ q \in watch'[c].passed \/ Precedes(calls'[c].walk, q)
                /\ OwedAt(calls[c].ns, q)'
    <3>1. q \in watch[c].passed \/ q = here \/ Precedes(here, q)
      BY <1>0, <1>7, <2>10, AdvanceMeets DEF here
    <3>2. \E i \in 0 .. size' - 1 : \E p \in DOMAIN maps'[i] :
              q = <<i, maps'[i][p].at>> /\ Has(Captured(c), p) /\ ~ (maps'[i][p].e # Never /\ clock' > maps'[i][p].e)
      BY <1>2, <1>7, <2>10, OwedStays
    <3>3. OwedAt(calls[c].ns, q)'
      BY <1>4, <3>2, OwedNext
    <3> QED BY <2>1, <2>7, <3>1, <3>3
  <2> QED BY <2>1, <2>7, <2>8, <2>9, <2>10 DEF IterateOk, Precedes
<1> QED BY <1>9, <1>10

\* Every step leaves to each iterator ahead of it what it owes.
LEMMA IterateStep ==
  ASSUME LocalInv, Placed, Watches, IterateInv, [HNext]_hvars
  PROVE  IterateInv'
<1> SUFFICES ASSUME NEW c \in Callers, calls'[c].op = "iterate" PROVE IterateOk(c)'
  BY DEF IterateInv, IterateOk
<1>1. CASE UNCHANGED hvars
  <2>1. IterateOk(c)
    BY <1>1 DEF IterateInv, IterateOk, hvars, vars
  <2> QED BY <1>1, <2>1 DEF IterateOk, hvars, vars, bigMap, OwedAt, Lapsed
<1>2. CASE HNext
  <2>1. calls[c].op = "iterate" => IterateOk(c)
    BY DEF IterateInv, IterateOk
  <2>2. CASE Begin(c)
    BY <1>2, <2>2, IterateBegins
  <2>3. CASE calls[c].op = "iterate" /\ ~Begin(c)
    <3>1. Next
      BY <1>2 DEF HNext
    <3>2. CASE calls'[c] = calls[c]
      BY <1>2, <2>1, <2>3, <3>2, IterateWaits
    <3>3. CASE Advance(c)
      BY <1>2, <2>1, <2>3, <3>3, IterateAdvances
    <3> QED BY <1>2, <2>1, <2>3, <3>1, <3>2, <3>3, IteratorGoes, IterateWaits
  <2>4. CASE calls[c].op # "iterate" /\ ~Begin(c)
    <3>1. calls'[c] # calls[c] /\ calls'[c].op # calls[c].op /\ calls'[c] # NoCall
      BY <2>4, NoCallType
    <3>2. calls[c].at = "done"
      BY <1>2, <3>1, SameCall DEF HNext
    <3>3. Call(c)
      BY <1>2, <3>1, CallGoes DEF HNext
    <3> QED BY <2>4, <3>2, <3>3 DEF Call, Set, Get, Delete, Clear, Decode, Purge, Advance
  <2> QED BY <2>2, <2>3, <2>4
<1> QED BY <1>1, <1>2

\* An iterator that ends has come to every row of its namespace that was there
\* when it began and stayed there, alive, all along, and to none of them twice,
\* however the other calls put and took rows while it went, unless a hash
\* function was replaced over entries.
THEOREM IteratorsComplete == ASSUME WholeHashes PROVE HSpec => []IteratorComplete
<1>1. HInit => IterateInv
  BY NoCallType DEF HInit, Init, IterateInv, IterateOk
<1>2. LocalInv /\ Watches /\ [HNext]_hvars => Watches'
  BY WatchesStep
<1>3. LocalInv /\ Placed /\ Watches /\ IterateInv /\ [HNext]_hvars => IterateInv'
  BY IterateStep
<1>4. IterateInv => IteratorComplete
  BY DEF IterateInv, IterateOk, IteratorComplete
<1> QED BY <1>1, <1>2, <1>3, <1>4, WatchesInit, HistoryTyped, PTL DEF HSpec

-----------------------------------------------------------------------------
(* Names that the separator does not occur in. *)

OneWord == (\A key \in Keys : Len(key) = 1) /\ (\A ns \in Names : Len(ns) <= 1)

\* The namespace a row of such a name lies in.
NameOf(p) == SubSeq(p, 1, Len(p) - 1)

\* A name has so many words, and each is a word.
LEMMA WordsLen == \A words \in Words : Len(words) \in Nat /\ \A i \in 1 .. Len(words) : words[i] \in STRING
BY LenProperties, ElementOfSeq DEF Words

\* A part of a name is a name.
LEMMA SubWords ==
  ASSUME NEW words \in Words, NEW m \in 1 .. Len(words) + 1, NEW n \in 0 .. Len(words), m <= n + 1
  PROVE  /\ SubSeq(words, m, n) \in Words /\ Len(SubSeq(words, m, n)) = n - m + 1
         /\ \A i \in 1 .. n - m + 1 : SubSeq(words, m, n)[i] = words[m + i - 1]
<1>1. Len(words) \in Nat /\ \A i \in m .. n : words[i] \in STRING
  BY WordsLen
<1>2. m \in Int /\ n \in Int
  BY <1>1
<1> QED BY <1>1, <1>2, SubSeqProperties DEF Words

\* Two sequences of words are the same if they have the same words.
LEMMA SameWords ==
  ASSUME NEW s \in Words, NEW t \in Words, Len(s) = Len(t), \A i \in 1 .. Len(s) : s[i] = t[i]
  PROVE  s = t
BY SeqEqual DEF Words

\* A key of one word lies, prefixed, in the namespace that prefixed it.
LEMMA PathName ==
  ASSUME NEW ns \in Words, NEW key \in Words, Len(key) = 1
  PROVE  NameOf(Path(ns, key)) = ns /\ Len(Path(ns, key)) = Len(ns) + 1
<1>1. /\ Path(ns, key) \in Words /\ Len(Path(ns, key)) = Len(ns) + 1
      /\ \A i \in 1 .. Len(ns) : Path(ns, key)[i] = ns[i]
  <2>1. /\ ns \o key \in Seq(STRING) /\ Len(ns \o key) = Len(ns) + Len(key)
        /\ \A i \in 1 .. Len(ns) + Len(key) : (ns \o key)[i] = IF i <= Len(ns) THEN ns[i] ELSE key[i - Len(ns)]
    BY ConcatProperties DEF Words
  <2>2. Len(ns) \in Nat
    BY WordsLen
  <2> QED BY <2>1, <2>2 DEF Path, Words
<1> DEFINE p == Path(ns, key)
<1> HIDE DEF p
<1>2. Len(ns) \in Nat /\ p \in Words /\ Len(p) = Len(ns) + 1
  BY <1>1, WordsLen DEF p
<1>3. /\ SubSeq(p, 1, Len(ns)) \in Words /\ Len(SubSeq(p, 1, Len(ns))) = Len(ns)
      /\ \A i \in 1 .. Len(ns) : SubSeq(p, 1, Len(ns))[i] = p[i]
  <2>1. 1 \in 1 .. Len(p) + 1 /\ Len(ns) \in 0 .. Len(p) /\ 1 <= Len(ns) + 1
    BY <1>2
  <2>2. /\ SubSeq(p, 1, Len(ns)) \in Words /\ Len(SubSeq(p, 1, Len(ns))) = Len(ns) - 1 + 1
        /\ \A i \in 1 .. Len(ns) - 1 + 1 : SubSeq(p, 1, Len(ns))[i] = p[1 + i - 1]
    BY <1>2, <2>1, SubWords
  <2>3. Len(ns) - 1 + 1 = Len(ns) /\ \A i \in 1 .. Len(ns) : 1 + i - 1 = i
    BY <1>2
  <2> QED BY <2>2, <2>3
<1>4. SubSeq(p, 1, Len(ns)) = ns
  <2> DEFINE s == SubSeq(p, 1, Len(ns))
  <2>1. s \in Words /\ Len(s) = Len(ns) /\ \A i \in 1 .. Len(s) : s[i] = ns[i]
    BY <1>1, <1>3 DEF p
  <2> HIDE DEF s
  <2>2. s = ns
    BY <2>1, SameWords
  <2> QED BY <2>2 DEF s
<1>5. Len(p) - 1 = Len(ns)
  BY <1>2
<1> QED BY <1>2, <1>4, <1>5 DEF NameOf, p

\* With names of one word, a prefix test finds the rows of the namespace and no
\* other.
LEMMA WithinName ==
  ASSUME NEW ns \in Words, Len(ns) <= 1, ns # <<>>, NEW p \in Words, Len(p) \in {1, 2}, Within(ns, p)
  PROVE  NameOf(p) = ns /\ Len(p) = 2 /\ Len(KeyOf(ns, p)) = 1
<1>1. Len(ns) = 1
  <2>1. Len(ns) # 0
    BY EmptySeq DEF Words
  <2>2. Len(ns) \in Nat
    BY WordsLen
  <2> QED BY <2>1, <2>2
<1>2. Len(p) = 2 /\ SubSeq(p, 1, 1) = ns
  <2>1. Len(ns) < Len(p) /\ SubSeq(p, 1, Len(ns)) = ns
    BY DEF Within
  <2>2. Len(p) = 2
    <3> DEFINE n == Len(p)
               m == Len(ns)
    <3>1. m = 1 /\ m < n /\ n \in {1, 2}
      BY <1>1, <2>1
    <3> HIDE DEF n, m
    <3>2. n = 2
      BY <3>1
    <3> QED BY <3>2 DEF n
  <2>3. SubSeq(p, 1, 1) = ns
    BY <1>1, <2>1, Zenon
  <2> QED BY <2>2, <2>3
<1>3. Len(SubSeq(p, 2, 2)) = 1
  <2>1. 2 \in 1 .. Len(p) + 1 /\ 2 \in 0 .. Len(p) /\ 2 <= 2 + 1 /\ 2 - 2 + 1 = 1
    BY <1>2
  <2> QED BY <2>1, SubWords
<1> QED BY <1>1, <1>2, <1>3 DEF NameOf, KeyOf

\* A row's name is made of the namespace it lies in and the rest.
LEMMA KeyPath ==
  ASSUME NEW ns \in Words, NEW p \in Words, Has(ns, p)
  PROVE  Path(ns, KeyOf(ns, p)) = p
<1>1. CASE ns = <<>>
  <2>1. Len(p) \in Nat /\ Len(<<>>) = 0
    BY WordsLen
  <2>2. /\ SubSeq(p, 1, Len(p)) \in Words /\ Len(SubSeq(p, 1, Len(p))) = Len(p) - 1 + 1
        /\ \A i \in 1 .. Len(p) - 1 + 1 : SubSeq(p, 1, Len(p))[i] = p[1 + i - 1]
    BY <2>1, SubWords
  <2>3. Len(p) - 1 + 1 = Len(p) /\ \A i \in 1 .. Len(p) : 1 + i - 1 = i
    BY <2>1
  <2> DEFINE s == SubSeq(p, 1, Len(p))
  <2>4. s \in Words /\ Len(s) = Len(p) /\ \A i \in 1 .. Len(s) : s[i] = p[i]
    BY <2>2, <2>3
  <2> HIDE DEF s
  <2>5. s = p
    BY <2>4, SameWords
  <2>6. KeyOf(ns, p) = s
    BY <1>1, <2>1 DEF KeyOf, s
  <2>7. <<>> \o p = p
    BY ConcatEmptySeq DEF Words
  <2> QED BY <1>1, <2>5, <2>6, <2>7 DEF Path
<1>2. CASE ns # <<>>
  <2> DEFINE n    == Len(ns)
             rest == SubSeq(p, n + 1, Len(p))
             all  == ns \o rest
  <2>1. n \in Nat /\ Len(p) \in Nat /\ n < Len(p) /\ SubSeq(p, 1, n) = ns
    BY <1>2, WordsLen DEF Has, Within
  <2>2. /\ rest \in Words /\ Len(rest) = Len(p) - n
        /\ \A i \in 1 .. Len(p) - n : rest[i] = p[n + i]
    <3>1. n + 1 \in 1 .. Len(p) + 1 /\ Len(p) \in 0 .. Len(p) /\ n + 1 <= Len(p) + 1
      BY <2>1
    <3>2. /\ rest \in Words /\ Len(rest) = Len(p) - (n + 1) + 1
          /\ \A i \in 1 .. Len(p) - (n + 1) + 1 : rest[i] = p[(n + 1) + i - 1]
      BY <3>1, SubWords
    <3>3. Len(p) - (n + 1) + 1 = Len(p) - n /\ \A i \in 1 .. Len(p) - n : (n + 1) + i - 1 = n + i
      BY <2>1
    <3> HIDE DEF rest
    <3> QED BY <3>2, <3>3
  <2>3. \A i \in 1 .. n : ns[i] = p[i]
    <3>1. 1 \in 1 .. Len(p) + 1 /\ n \in 0 .. Len(p) /\ 1 <= n + 1
      BY <2>1
    <3>2. \A i \in 1 .. n - 1 + 1 : SubSeq(p, 1, n)[i] = p[1 + i - 1]
      BY <3>1, SubWords
    <3>3. n - 1 + 1 = n /\ \A i \in 1 .. n : 1 + i - 1 = i
      BY <2>1
    <3> QED BY <2>1, <3>2, <3>3
  <2> HIDE DEF rest
  <2>4. /\ all \in Words /\ Len(all) = n + Len(rest)
        /\ \A i \in 1 .. n + Len(rest) : all[i] = IF i <= n THEN ns[i] ELSE rest[i - n]
    BY <2>2, ConcatProperties DEF Words
  <2> HIDE DEF all, n
  <2>5. Len(all) = Len(p)
    BY <2>1, <2>2, <2>4
  <2>6. ASSUME NEW i \in 1 .. Len(all) PROVE all[i] = p[i]
    <3>1. CASE i <= n
      BY <2>1, <2>3, <2>4, <2>5, <3>1
    <3>2. CASE ~ (i <= n)
      <4>1. i - n \in 1 .. Len(p) - n /\ n + (i - n) = i
        BY <2>1, <2>5, <3>2
      <4>2. all[i] = rest[i - n]
        BY <2>1, <2>2, <2>4, <2>5, <3>2
      <4> QED BY <2>2, <4>1, <4>2
    <3> QED BY <3>1, <3>2
  <2>7. all = p
    BY <2>4, <2>5, <2>6, SameWords
  <2> QED BY <2>7 DEF Path, KeyOf, all, rest, n
<1> QED BY <1>1, <1>2

-----------------------------------------------------------------------------
(* What the steps of a call do to it. *)

\* Everything of a call but where it is and its row.
SameRequest(c) == /\ calls'[c].op = calls[c].op /\ calls'[c].kv = calls[c].kv
                  /\ calls'[c].key = calls[c].key /\ calls'[c].ns = calls[c].ns

NoneTold == UNCHANGED <<sets, hash, size, moved, use, name, space>>

\* What a call is when it begins: a set() has a value of its own.
LEMMA BeginMeans ==
  ASSUME LocalInv, NEW c \in Callers, Begin(c)
  PROVE  /\ calls[c].at = "done" /\ calls'[c].at # "done" /\ NoneTold /\ maps' = maps
         /\ calls'[c].op \in {"set", "get", "delete"} =>
              \E key \in Keys : calls'[c].key = CleanKey(clean[calls'[c].kv], key)
         /\ calls'[c].op = "set" => writes' = writes + 1 /\ calls'[c].row.val = writes + 1
         /\ calls'[c].op # "set" => writes' = writes /\ calls'[c].row.val = 0
         /\ calls'[c].kv \in Keyvs /\ calls'[c].at \in {"start", "before"}
<1>1. PICK call \in scene.ops[c], key \in Keys, life \in Lifetimes :
          /\ writes' = IF call[1] = "set" THEN writes + 1 ELSE writes
          /\ calls' = [calls EXCEPT ![c] =
            [NoCall EXCEPT !.op = call[1], !.kv = call[2],
               !.key = IF call[1] \in {"set", "get", "delete"} THEN CleanKey(clean[call[2]], key) ELSE <<>>,
               !.row = IF call[1] = "set"
                       THEN [val |-> writes + 1, e |-> IF life = Never THEN Never ELSE clock + life] ELSE NoRow,
               !.at = IF call[1] = "iterate" THEN "start" ELSE "before"]]
  BY DEF Begin
<1> DEFINE key0 == IF call[1] \in {"set", "get", "delete"} THEN CleanKey(clean[call[2]], key) ELSE <<>>
           row0 == IF call[1] = "set"
                   THEN [val |-> writes + 1, e |-> IF life = Never THEN Never ELSE clock + life] ELSE NoRow
           op0  == call[1]
           k0   == call[2]
           at0  == IF op0 = "iterate" THEN "start" ELSE "before"
<1>2. calls'[c] = [NoCall EXCEPT !.op = op0, !.kv = k0, !.key = key0, !.row = row0, !.at = at0]
  BY <1>1 DEF LocalInv, CallTypes
<1>3. k0 \in Keyvs
  BY SceneAssumption DEF LocalInv, ConfigTypes
<1>4. /\ op0 \in {"set", "get", "delete"} => key0 = CleanKey(clean[k0], key)
      /\ row0.val = IF op0 = "set" THEN writes + 1 ELSE 0
  BY DEF NoRow
<1>5. writes' = IF op0 = "set" THEN writes + 1 ELSE writes
  BY <1>1
<1>6. calls[c].at = "done" /\ NoneTold /\ maps' = maps
  BY DEF Begin, NoneTold, bigMap
<1> HIDE DEF key0, row0, op0, k0
<1>7. NoCall \in CallType
  BY NoCallType
<1>8. calls'[c].op = op0 /\ calls'[c].kv = k0 /\ calls'[c].key = key0 /\ calls'[c].row = row0 /\ calls'[c].at = at0
  BY <1>2, <1>7 DEF CallType
<1> QED BY <1>3, <1>4, <1>5, <1>6, <1>8

\* What set() does at the adapter.
LEMMA SetMeans ==
  ASSUME NEW c \in Callers, Set(c)
  PROVE  /\ calls[c].op = "set" /\ calls[c].at = "before" /\ NoneTold /\ writes' = writes
         /\ \E row : maps' = With([p \in {Target(c)} |-> row]) /\ row.val = calls[c].row.val /\ row.e = calls[c].row.e
         /\ calls' = [calls EXCEPT ![c] = NoCall] /\ clock' = clock
<1> DEFINE row == [val |-> calls[c].row.val, e |-> calls[c].row.e,
                   at |-> IF Holds(Target(c)) THEN At(Target(c)).at ELSE puts + 1]
<1>1. maps' = With([p \in {Target(c)} |-> row]) /\ row.val = calls[c].row.val /\ row.e = calls[c].row.e
  BY DEF Set
<1> HIDE DEF row
<1> QED BY <1>1 DEF Set, NoneTold, keyv

\* What get() does at the adapter: it finds the row, or deletes what has lapsed.
LEMMA GetMeans ==
  ASSUME LocalInv, NEW c \in Callers, Get(c)
  PROVE  LET found == Holds(Target(c)) /\ ~Lapsed(At(Target(c))) IN
         /\ calls[c].op = "get" /\ calls[c].at = "before" /\ NoneTold /\ writes' = writes
         /\ SameRequest(c) /\ clock' = clock
         /\ found => /\ maps' = maps /\ calls'[c].at = "decode"
                     /\ calls'[c].row.val = At(Target(c)).val /\ calls'[c].row.e = At(Target(c)).e
         /\ ~found => maps' = Without({Target(c)}) /\ calls'[c].at = "done" /\ calls'[c].row = calls[c].row
<1> DEFINE found == Holds(Target(c)) /\ ~Lapsed(At(Target(c)))
           row0 == IF found THEN [val |-> At(Target(c)).val, e |-> At(Target(c)).e] ELSE calls[c].row
           at0  == IF found THEN "decode" ELSE "done"
<1>1. /\ calls' = [calls EXCEPT ![c].at = at0, ![c].row = row0]
      /\ maps' = IF found THEN maps ELSE Without({Target(c)})
      /\ calls[c].op = "get" /\ calls[c].at = "before"
  BY DEF Get
<1>2. NoneTold /\ writes' = writes /\ clock' = clock
  BY DEF Get, NoneTold, keyv
<1>3. /\ found => row0.val = At(Target(c)).val /\ row0.e = At(Target(c)).e
      /\ ~found => row0 = calls[c].row
  OBVIOUS
<1> HIDE DEF found, row0
<1>4. calls'[c].row = row0 /\ calls'[c].at = at0 /\ SameRequest(c)
  BY <1>1 DEF LocalInv, CallTypes, CallType, SameRequest
<1>5. /\ found => /\ maps' = maps /\ calls'[c].at = "decode"
                     /\ calls'[c].row.val = At(Target(c)).val /\ calls'[c].row.e = At(Target(c)).e
      /\ ~found => maps' = Without({Target(c)}) /\ calls'[c].at = "done" /\ calls'[c].row = calls[c].row
  BY <1>1, <1>3, <1>4
<1> QED BY <1>1, <1>2, <1>4, <1>5 DEF found

\* What delete() and clear() do at the adapter.
LEMMA RemovalMeans ==
  ASSUME NEW c \in Callers, Delete(c) \/ Clear(c)
  PROVE  /\ calls[c].op \in {"delete", "clear"} /\ calls[c].at = "before" /\ NoneTold /\ writes' = writes
         /\ calls' = [calls EXCEPT ![c] = NoCall] /\ clock' = clock
         /\ calls[c].op = "delete" => maps' = Without({Target(c)})
         /\ calls[c].op = "clear" => maps' = Without(Cleared(Space(calls[c].kv)))
BY DEF Delete, Clear, NoneTold, keyv

\* What a Keyv does with the row it was given.
LEMMA DecodeMeans ==
  ASSUME LocalInv, NEW c \in Callers, Decode(c)
  PROVE  /\ calls[c].at = "decode" /\ NoneTold /\ writes' = writes /\ maps' = maps
         /\ SameRequest(c) /\ clock' = clock
         /\ Lapsed(calls[c].row) => calls'[c].at = "purge" /\ calls'[c].row.val = 0
         /\ ~Lapsed(calls[c].row) => calls'[c].at \in {"ask", "done"} /\ calls'[c].row = calls[c].row
<1> DEFINE dead == Lapsed(calls[c].row)
           at0  == IF dead THEN "purge" ELSE IF calls[c].op = "iterate" THEN "ask" ELSE "done"
           row0 == IF dead THEN NoRow ELSE calls[c].row
<1>1. calls' = [calls EXCEPT ![c].at = at0, ![c].row = row0] /\ calls[c].at = "decode"
      /\ NoneTold /\ writes' = writes /\ maps' = maps /\ clock' = clock
  BY DEF Decode, NoneTold, keyv, bigMap
<1>2. /\ dead => row0.val = 0 /\ at0 = "purge"
      /\ ~dead => row0 = calls[c].row /\ at0 \in {"ask", "done"}
  BY DEF NoRow
<1> HIDE DEF dead, at0, row0
<1>3. calls'[c].at = at0 /\ calls'[c].row = row0 /\ SameRequest(c)
  BY <1>1 DEF LocalInv, CallTypes, CallType, SameRequest
<1> QED BY <1>1, <1>2, <1>3 DEF dead

\* A Keyv deletes the row it was given lapsed, by name; its iterator cleans the
\* name again.
LEMMA PurgeMeans ==
  ASSUME LocalInv, NEW c \in Callers, Purge(c)
  PROVE  /\ calls[c].at = "purge" /\ NoneTold /\ writes' = writes /\ SameRequest(c) /\ clock' = clock
         /\ calls'[c].row = calls[c].row /\ calls'[c].at \in {"ask", "done"}
         /\ maps' = Without({Path(Space(calls[c].kv),
                                  IF calls[c].op = "iterate" THEN CleanKey(clean[calls[c].kv], calls[c].key)
                                  ELSE calls[c].key)})
<1> DEFINE at0 == IF calls[c].op = "iterate" THEN "ask" ELSE "done"
<1>1. /\ calls' = [calls EXCEPT ![c].at = at0]
      /\ calls[c].at = "purge" /\ NoneTold /\ writes' = writes /\ clock' = clock
  BY DEF Purge, NoneTold
<1>2. maps' = Without({Path(Space(calls[c].kv),
                                  IF calls[c].op = "iterate" THEN CleanKey(clean[calls[c].kv], calls[c].key)
                                  ELSE calls[c].key)})
  BY DEF Purge
<1>3. at0 \in {"ask", "done"}
  OBVIOUS
<1> HIDE DEF at0
<1>4. SameRequest(c) /\ calls'[c].row = calls[c].row /\ calls'[c].at = at0
  BY <1>1 DEF LocalInv, CallTypes, CallType, SameRequest
<1> QED BY <1>1, <1>2, <1>3, <1>4

\* A step of the iterator changes its place and its row, and whose it is not.
LEMMA AdvanceMoves ==
  ASSUME LocalInv, NEW c \in Callers, Advance(c)
  PROVE  /\ calls[c].op = "iterate" /\ calls[c].at \in {"start", "ask"} /\ NoneTold /\ writes' = writes
         /\ calls'[c].op = "iterate" /\ calls'[c].kv = calls[c].kv /\ calls'[c].ns = Captured(c)
         /\ clock' = clock /\ clean' = clean
         /\ maps' = Without({entry[2] : entry \in Dead(c)})
         /\ Live(c) = {} => calls'[c].at = "done" /\ calls'[c].row = calls[c].row
         /\ Live(c) # {} => /\ calls'[c].at = "decode" /\ calls'[c].key = KeyOf(Captured(c), First(c)[2])
                            /\ calls'[c].row.val = RowOf(First(c)).val /\ calls'[c].row.e = RowOf(First(c)).e
<1>1. /\ calls[c].op = "iterate" /\ calls[c].at \in {"start", "ask"} /\ NoneTold /\ writes' = writes
      /\ maps' = Without({entry[2] : entry \in Dead(c)}) /\ clock' = clock /\ clean' = clean
  BY AdvanceMeans DEF NoneTold, keyv
<1>2. calls[c] \in CallType /\ calls \in [Callers -> CallType]
  BY DEF LocalInv, CallTypes
<1>3. CASE Live(c) = {}
  <2>1. calls' = [calls EXCEPT ![c] = [@ EXCEPT !.at = "done", !.ns = Captured(c)]]
    BY <1>3, AdvanceMeans
  <2>2. /\ calls'[c].op = "iterate" /\ calls'[c].kv = calls[c].kv /\ calls'[c].ns = Captured(c)
        /\ calls'[c].at = "done" /\ calls'[c].row = calls[c].row
    BY <1>1, <1>2, <2>1 DEF CallType
  <2> QED BY <1>1, <1>3, <2>2
<1>4. CASE Live(c) # {}
  <2> DEFINE key0 == KeyOf(Captured(c), First(c)[2])
             row0 == [val |-> RowOf(First(c)).val, e |-> RowOf(First(c)).e]
             walk0 == Place(First(c))
  <2>1. calls' = [calls EXCEPT ![c] = [@ EXCEPT !.at = "decode", !.ns = Captured(c), !.walk = walk0,
                                                !.key = key0, !.row = row0]]
    BY <1>4, AdvanceMeans
  <2>2. row0.val = RowOf(First(c)).val /\ row0.e = RowOf(First(c)).e
    OBVIOUS
  <2> HIDE DEF key0, row0, walk0
  <2>3. /\ calls'[c].op = "iterate" /\ calls'[c].kv = calls[c].kv /\ calls'[c].ns = Captured(c)
        /\ calls'[c].at = "decode" /\ calls'[c].row = row0 /\ calls'[c].key = key0
    BY <1>1, <1>2, <2>1 DEF CallType
  <2> QED BY <1>1, <1>4, <2>2, <2>3 DEF key0
<1> QED BY <1>3, <1>4

-----------------------------------------------------------------------------
(* Whose the rows are. *)

\* Cleaning makes one word of one word.
SpaceOk == (\A a \in Adapters : Len(space[a]) <= 1) /\ (\A k \in Keyvs : Len(name[k]) <= 1)

\* A row's name is one or two words long, and it was set in the first of two.
RowsOk ==
  \A i \in 0 .. size - 1 : \A p \in DOMAIN maps[i] :
    /\ Len(p) \in {1, 2} /\ maps[i][p].val \in 1 .. writes
    /\ author[maps[i][p].val] \in {Anyone, NameOf(p)}

\* A call knows the namespaces its adapter has had, the present one among them.
VisitOk(c) ==
  /\ calls[c].at # "done" => Space(calls[c].kv) \in watch[c].spaces /\ IsFiniteSet(watch[c].spaces)
  /\ calls[c].op = "iterate" /\ calls[c].at \in {"decode", "purge", "ask"} =>
       calls[c].ns \in watch[c].spaces /\ Len(calls[c].ns) <= 1

\* A call's key is one word, unless an iterator goes through all namespaces.
KeyOk(c) ==
  /\ calls[c].op \in {"set", "get", "delete"} => Len(calls[c].key) = 1
  /\ calls[c].op = "iterate" /\ calls[c].at \in {"decode", "purge"} =>
       calls[c].ns = <<>> \/ Len(calls[c].key) = 1

\* A write that is not made yet is in no Map, and nobody has read it.
ValOk(c) ==
  /\ calls[c].row.val <= writes
  /\ calls[c].op = "set" =>
       /\ calls[c].row.val # 0
       /\ \A i \in 0 .. size - 1 : \A p \in DOMAIN maps[i] : maps[i][p].val # calls[c].row.val
       /\ \A d \in Callers \ {c} : calls[d].row.val # calls[c].row.val

ReadOk(c) ==
  calls[c].op \in {"get", "iterate"} /\ calls[c].row.val # 0 => Reaches(c, calls[c].row.val)

\* While its namespace stays the same, what a read has found is still there, or
\* a row that was put there since; what it has found expired has expired.
FoundOk(c) ==
  calls[c].at \in {"decode", "purge"} /\ ~moved /\ Holds(Target(c))
      /\ watch[c].spaces = {Space(calls[c].kv)} =>
    \/ At(Target(c)).val \in watch[c].fresh
    \/ /\ calls[c].at = "decode"
       /\ At(Target(c)).val = calls[c].row.val /\ At(Target(c)).e = calls[c].row.e
    \/ calls[c].at = "purge" /\ Lapsed(At(Target(c)))

RowInv == /\ SpaceOk /\ RowsOk
          /\ \A c \in Callers : VisitOk(c) /\ KeyOk(c) /\ ValOk(c) /\ ReadOk(c) /\ FoundOk(c)

-----------------------------------------------------------------------------
\* At the start every namespace is one word or none.
LEMMA SpacesInit == OneWord /\ Init => SpaceOk
<1> SUFFICES ASSUME OneWord, Init PROVE SpaceOk
  OBVIOUS
<1>1. \A ns \in Names \cup {<<>>} : Len(ns) <= 1
  <2>1. Len(<<>>) = 0
    BY EmptySeq
  <2> QED BY <2>1 DEF OneWord
<1>2. name \in [Keyvs -> Names] /\ space \in [Adapters -> Names \cup {<<>>}]
  BY SceneAssumption DEF Init
<1> QED BY <1>1, <1>2 DEF SpaceOk

\* And stays one.
LEMMA SpacesStep ==
  ASSUME OneWord, LocalInv, SpaceOk, [Next]_vars
  PROVE  SpaceOk'
<1> USE DEF LocalInv, ConfigTypes
<1>0. Names \subseteq Words /\ \A ns \in Names : Len(ns) <= 1
  BY NamesAssumption DEF Words, OneWord
<1>1. CASE UNCHANGED <<use, name, space>>
  BY <1>1 DEF SpaceOk
<1>2. CASE \E k \in Keyvs : Configure(k)
  <2>1. PICK k \in Keyvs : Configure(k)
    BY <1>2
  <2>2. CASE \E ns \in Names : SetNamespace(k, ns)
    <3>1. PICK ns \in Names : SetNamespace(k, ns)
      BY <2>2
    <3>2. Len(CleanName(clean[k], ns)) <= 1
      BY <1>0, StrippedType DEF CleanName, Sanitizers
    <3> QED BY <3>1, <3>2 DEF SetNamespace, SpaceOk
  <2>3. CASE \E a \in Adapters : SetStore(k, a)
    BY <2>3 DEF SetStore, SpaceOk
  <2>4. CASE \E keys, names \in SUBSET Patterns : SetSanitize(k, keys, names)
    <3>1. PICK keys \in SUBSET Patterns, names \in SUBSET Patterns : SetSanitize(k, keys, names)
      BY <2>4
    <3> DEFINE san == UpdateOptions(Off, keys, names)
    <3>2. name' = [name EXCEPT ![k] = CleanName(san, name[k])] /\ space' = space
      BY <3>1 DEF SetSanitize
    <3>3. san \in Sanitizers
      BY NewSanitizer
    <3> HIDE DEF san
    <3>4. Len(CleanName(san, name[k])) <= 1
      BY <3>3, StrippedType DEF CleanName, Sanitizers, SpaceOk
    <3> QED BY <3>2, <3>4 DEF SpaceOk
  <2>5. CASE \E keys, names \in SUBSET Patterns : SetOptions(k, keys, names)
    BY <1>1, <2>5 DEF SetOptions
  <2> QED BY <2>1, <2>2, <2>3, <2>4, <2>5 DEF Configure
<1>3. CASE \E c \in Callers : Call(c)
  BY <1>1, <1>3 DEF Call, Begin, Set, Get, Delete, Clear, Decode, Purge, Advance, keyv
<1>4. CASE Tick \/ (\E n \in Sizes : SetStoreSize(n)) \/ (\E h \in DOMAIN Hashes : SetStoreHash(h)) \/ UNCHANGED vars
  BY <1>1, <1>4 DEF Tick, SetStoreSize, SetStoreHash, keyv, vars
<1> QED BY <1>2, <1>3, <1>4 DEF Next

\* Only a step of set() makes a write.
LEMMA SetsMeans ==
  ASSUME LocalInv, Next, NEW d \in Callers, Sets(d)
  PROVE  Set(d)
<1>1. calls[d].op = "set" /\ calls[d].at = "before" /\ calls'[d] # calls[d]
  BY NoCallType DEF Sets
<1>2. Call(d)
  BY <1>1, CallGoes
<1> QED BY <1>1, <1>2 DEF Call, Begin, Get, Delete, Clear, Decode, Purge, Advance

\* A step of set() makes the one write of its call.
LEMMA SetsOne ==
  ASSUME LocalInv, Next, NEW c \in Callers, Set(c)
  PROVE  Sets(c) /\ \A d \in Callers : Sets(d) => d = c
<1>1. Sets(c)
  BY SetMeans DEF Sets, LocalInv, CallTypes
<1>2. ASSUME NEW d \in Callers, Sets(d), d # c PROVE FALSE
  <2>1. calls'[d] = calls[d]
    BY <1>2, OtherCalls DEF Call
  <2> QED BY <1>2, <2>1, NoCallType DEF Sets
<1> QED BY <1>1, <1>2

\* Only the step that makes a write decides whose it is.
LEMMA AuthorKept ==
  ASSUME LocalInv, Next, Observe, NEW w \in 1 .. MaxWrites,
         \A c \in Callers : Set(c) => calls[c].row.val # w
  PROVE  author'[w] = author[w]
<1>1. {c \in Callers : Sets(c) /\ calls[c].row.val = w} = {}
  BY SetsMeans
<1> QED BY <1>1 DEF Observe

\* A write is that of the namespace its adapter had all along, or of anyone.
LEMMA AuthorSet ==
  ASSUME LocalInv, Next, Observe, NEW c \in Callers, Set(c), calls[c].row.val \in 1 .. MaxWrites
  PROVE  author'[calls[c].row.val] = IF watch[c].spaces = {watch[c].ns} THEN watch[c].ns ELSE Anyone
<1> DEFINE w  == calls[c].row.val
           by == {d \in Callers : Sets(d) /\ calls[d].row.val = w}
<1>1. by = {c}
  BY SetsOne
<1>2. author'[w] = IF by = {} THEN author[w]
                   ELSE IF \A d \in by : watch[d].spaces = {watch[d].ns}
                        THEN watch[CHOOSE d \in by : TRUE].ns
                   ELSE Anyone
  BY DEF Observe
<1>3. (CHOOSE d \in by : TRUE) = c
  BY <1>1
<1> HIDE DEF by, w
<1> QED BY <1>1, <1>2, <1>3 DEF w

\* The namespace an iterator goes by is one that its adapter has had.
LEMMA CapturedOk ==
  ASSUME LocalInv, RowInv, NEW c \in Callers, calls[c].op = "iterate", calls[c].at \in {"start", "ask"}
  PROVE  Captured(c) \in watch[c].spaces /\ Len(Captured(c)) <= 1 /\ Captured(c) \in Words
<1>1. CASE calls[c].at = "start"
  <2>1. calls[c].kv \in Keyvs
    BY <1>1 DEF LocalInv, CallTypes
  <2>2. Space(calls[c].kv) \in Words /\ Len(Space(calls[c].kv)) <= 1
    BY <2>1 DEF LocalInv, ConfigTypes, RowInv, SpaceOk, Space
  <2> QED BY <1>1, <2>2 DEF RowInv, VisitOk, Captured
<1>2. CASE calls[c].at = "ask"
  BY <1>2 DEF RowInv, VisitOk, Captured, LocalInv, CallTypes, CallType
<1> QED BY <1>1, <1>2

\* The row an iterator comes to is of its namespace.
LEMMA FirstRow ==
  ASSUME LocalInv, RowInv, NEW c \in Callers, calls[c].at \in {"start", "ask"}, Live(c) # {}
  PROVE  /\ First(c) = <<First(c)[1], First(c)[2]>>
         /\ First(c)[1] \in 0 .. size - 1 /\ First(c)[2] \in DOMAIN maps[First(c)[1]]
         /\ RowOf(First(c)) = maps[First(c)[1]][First(c)[2]]
         /\ First(c)[2] \in Words /\ Len(First(c)[2]) \in {1, 2} /\ Has(Captured(c), First(c)[2])
<1>1. First(c) \in Entries /\ First(c) \in Ahead(Captured(c), calls[c].walk)
  BY AdvanceTypes DEF IsFirst
<1>2. /\ First(c) = <<First(c)[1], First(c)[2]>>
      /\ First(c)[1] \in 0 .. size - 1 /\ First(c)[2] \in DOMAIN maps[First(c)[1]] /\ First(c)[2] \in Words
  BY <1>1, EntriesTyped DEF EntryTypes, LocalInv
<1>3. Len(First(c)[2]) \in {1, 2}
  BY <1>2 DEF RowInv, RowsOk
<1>4. Has(Captured(c), First(c)[2])
  BY <1>1 DEF Ahead, Has
<1> QED BY <1>2, <1>3, <1>4 DEF RowOf

\* Every step keeps the keys of calls one word long.
LEMMA KeyStep ==
  ASSUME OneWord, LocalInv, RowInv, Next, NEW c \in Callers
  PROVE  KeyOk(c)'
<1>0. KeyOk(c)
  BY DEF RowInv
<1>1. CASE calls'[c] = calls[c]
  BY <1>0, <1>1 DEF KeyOk
<1>2. CASE Begin(c)
  <2>1. /\ calls'[c].op \in {"set", "get", "delete"} =>
              \E key \in Keys : calls'[c].key = CleanKey(clean[calls'[c].kv], key)
        /\ calls'[c].kv \in Keyvs /\ calls'[c].at \in {"start", "before"}
    BY <1>2, BeginMeans
  <2>2. ASSUME NEW key \in Keys, NEW k \in Keyvs PROVE Len(CleanKey(clean[k], key)) = 1
    <3>1. key \in Words /\ Len(key) = 1
      BY NamesAssumption DEF Words, OneWord
    <3>2. clean[k] \in Sanitizers /\ TrueOf(clean[k])
      BY DEF LocalInv, ConfigTypes
    <3> QED BY <3>1, <3>2, CleanKeyType
  <2> QED BY <2>1, <2>2 DEF KeyOk
<1>3. CASE Set(c) \/ Delete(c) \/ Clear(c)
  <2>1. calls'[c] = NoCall
    BY <1>3, SetMeans, RemovalMeans DEF LocalInv, CallTypes
  <2> QED BY <2>1, NoCallType DEF KeyOk
<1>4. CASE Get(c)
  BY <1>0, <1>4, GetMeans DEF KeyOk, SameRequest
<1>5. CASE Decode(c)
  BY <1>0, <1>5, DecodeMeans DEF KeyOk, SameRequest
<1>6. CASE Purge(c)
  BY <1>0, <1>6, PurgeMeans DEF KeyOk, SameRequest
<1>7. CASE Advance(c)
  <2>1. /\ calls'[c].op = "iterate" /\ calls'[c].ns = Captured(c)
        /\ calls[c].op = "iterate" /\ calls[c].at \in {"start", "ask"}
        /\ Live(c) = {} => calls'[c].at = "done"
        /\ Live(c) # {} => calls'[c].key = KeyOf(Captured(c), First(c)[2])
    BY <1>7, AdvanceMoves
  <2>2. CASE Live(c) = {}
    BY <2>1, <2>2 DEF KeyOk
  <2>3. CASE Live(c) # {}
    <3>1. Captured(c) # <<>> => Len(KeyOf(Captured(c), First(c)[2])) = 1
      BY <2>1, <2>3, CapturedOk, FirstRow, WithinName DEF Has
    <3> QED BY <2>1, <2>3, <3>1 DEF KeyOk
  <2> QED BY <2>2, <2>3
<1> QED BY <1>1, <1>2, <1>3, <1>4, <1>5, <1>6, <1>7, CallGoes DEF Call

\* A call under way forgets no namespace and no new row.
LEMMA SpacesGrow ==
  ASSUME Watches, HNext, NEW c \in Callers, calls[c].at # "done", calls'[c] # NoCall
  PROVE  /\ watch'[c].spaces = watch[c].spaces \cup {SpaceNext(c)}
         /\ watch[c].fresh \subseteq watch'[c].fresh
BY Going DEF HNext

\* Every step keeps in mind the namespaces a call's adapter has had.
LEMMA VisitStep ==
  ASSUME LocalInv, Watches, RowInv, HNext, NEW c \in Callers
  PROVE  VisitOk(c)'
<1>0. Next /\ Observe /\ VisitOk(c)
  BY DEF HNext, RowInv
<1>1. calls'[c].at # "done" => SpaceNext(c) \in watch'[c].spaces /\ IsFiniteSet(watch'[c].spaces)
  <2> SUFFICES ASSUME calls'[c].at # "done"
               PROVE  SpaceNext(c) \in watch'[c].spaces /\ IsFiniteSet(watch'[c].spaces)
    OBVIOUS
  <2>0. calls'[c] # NoCall
    BY NoCallType
  <2>1. CASE calls[c].at = "done"
    <3>1. Begins(c)
      BY <2>1 DEF Begins
    <3>2. watch'[c] = [ns |-> name[calls'[c].kv], spaces |-> {SpaceNext(c)}, fresh |-> {},
                       lasting |-> {}, passed |-> {}, twice |-> FALSE]
      BY <1>0, <3>1, Beginning
    <3>3. watch'[c].spaces = {SpaceNext(c)}
      BY <3>2
    <3> QED BY <3>3, FS_Singleton
  <2>2. CASE calls[c].at # "done"
    <3>1. watch'[c].spaces = watch[c].spaces \cup {SpaceNext(c)} /\ IsFiniteSet(watch[c].spaces)
      BY <1>0, <2>0, <2>2, SpacesGrow DEF VisitOk
    <3> QED BY <3>1, FS_AddElement
  <2> QED BY <2>1, <2>2
<1>2. calls'[c].op = "iterate" /\ calls'[c].at \in {"decode", "purge", "ask"} =>
        calls'[c].ns \in watch'[c].spaces /\ Len(calls'[c].ns) <= 1
  <2> SUFFICES ASSUME calls'[c].op = "iterate", calls'[c].at \in {"decode", "purge", "ask"}
               PROVE  calls'[c].ns \in watch'[c].spaces /\ Len(calls'[c].ns) <= 1
    OBVIOUS
  <2>0. calls'[c] # NoCall
    BY NoCallType
  <2>1. calls[c].at # "done" /\ calls'[c].ns \in watch[c].spaces /\ Len(calls'[c].ns) <= 1
    <3>1. CASE calls'[c] = calls[c]
      BY <1>0, <3>1 DEF VisitOk
    <3>2. CASE Begin(c)
      BY <3>2, BeginMeans
    <3>3. CASE Set(c) \/ Delete(c) \/ Clear(c)
      BY <2>0, <3>3, SetMeans, RemovalMeans DEF LocalInv, CallTypes
    <3>4. CASE Get(c)
      BY <3>4, GetMeans DEF SameRequest
    <3>5. CASE Decode(c)
      BY <1>0, <3>5, DecodeMeans DEF VisitOk, SameRequest
    <3>6. CASE Purge(c)
      BY <1>0, <3>6, PurgeMeans DEF VisitOk, SameRequest
    <3>7. CASE Advance(c)
      BY <3>7, AdvanceMoves, CapturedOk
    <3> QED BY <1>0, <3>1, <3>2, <3>3, <3>4, <3>5, <3>6, <3>7, CallGoes DEF Call
  <2> QED BY <2>0, <2>1, SpacesGrow
<1> QED BY <1>1, <1>2 DEF VisitOk, Space, SpaceNext

\* Values.
LEMMA WritesGrow ==
  ASSUME LocalInv, Next
  PROVE  writes' \in Nat /\ writes <= writes' /\ writes \in 0 .. MaxWrites
<1>0. writes \in 0 .. MaxWrites
  BY DEF LocalInv, MapTypes
<1>1. writes' = writes \/ writes' = writes + 1
  <2>1. CASE \E c \in Callers : Call(c)
    BY <2>1, BeginMeans, SetMeans, GetMeans, RemovalMeans, DecodeMeans, PurgeMeans, AdvanceMoves DEF Call
  <2>2. CASE \E k \in Keyvs : Configure(k)
    BY <2>2 DEF Configure, SetNamespace, SetStore, SetSanitize, SetOptions
  <2>3. CASE Tick \/ (\E n \in Sizes : SetStoreSize(n)) \/ (\E h \in DOMAIN Hashes : SetStoreHash(h))
    BY <2>3 DEF Tick, SetStoreSize, SetStoreHash
  <2> QED BY <2>1, <2>2, <2>3 DEF Next
<1> QED BY <1>0, <1>1, BoundAssumption

InMaps(w) == \E i \in 0 .. size - 1 : \E p \in DOMAIN maps[i] : maps[i][p].val = w

\* What a call holds after a step it held before, or has read, or has begun to write.
LEMMA CallVals ==
  ASSUME WholeHashes, LocalInv, RowInv, Next, NEW c \in Callers
  PROVE  \/ calls'[c].row.val = 0
         \/ calls'[c].row.val = calls[c].row.val /\ ~Begin(c)
         \/ InMaps(calls'[c].row.val)
         \/ Begin(c) /\ calls'[c].row.val = writes + 1 /\ writes' = writes + 1
<1>1. CASE calls'[c] = calls[c] /\ ~Begin(c)
  BY <1>1
<1>2. CASE Begin(c)
  BY <1>2, BeginMeans
<1>3. CASE Set(c) \/ Delete(c) \/ Clear(c)
  <2>1. calls'[c] = NoCall
    BY <1>3, SetMeans, RemovalMeans DEF LocalInv, CallTypes
  <2> QED BY <2>1 DEF NoCall, NoRow
<1>4. CASE Get(c)
  <2>1. /\ calls[c].op = "get" /\ calls[c].at = "before"
        /\ Holds(Target(c)) /\ ~Lapsed(At(Target(c))) => calls'[c].row.val = At(Target(c)).val
        /\ ~ (Holds(Target(c)) /\ ~Lapsed(At(Target(c)))) => calls'[c].row = calls[c].row
    BY <1>4, GetMeans
  <2>2. CASE Holds(Target(c)) /\ ~Lapsed(At(Target(c)))
    <3>1. Slot(Target(c)) \in 0 .. size - 1
      BY <2>1, TargetType, SlotType DEF LocalInv, CallTypes
    <3> QED BY <2>1, <2>2, <3>1 DEF InMaps, Holds, At
  <2>3. CASE ~ (Holds(Target(c)) /\ ~Lapsed(At(Target(c))))
    BY <2>1, <2>3 DEF Begin
  <2> QED BY <2>2, <2>3
<1>5. CASE Decode(c)
  BY <1>5, DecodeMeans DEF Begin
<1>6. CASE Purge(c)
  BY <1>6, PurgeMeans DEF Begin
<1>7. CASE Advance(c)
  <2>1. /\ calls[c].at \in {"start", "ask"}
        /\ Live(c) = {} => calls'[c].row = calls[c].row
        /\ Live(c) # {} => calls'[c].row.val = RowOf(First(c)).val
    BY <1>7, AdvanceMoves
  <2>2. CASE Live(c) = {}
    BY <2>1, <2>2 DEF Begin
  <2>3. CASE Live(c) # {}
    BY <2>1, <2>3, FirstRow DEF InMaps
  <2> QED BY <2>2, <2>3
<1> QED BY <1>1, <1>2, <1>3, <1>4, <1>5, <1>6, <1>7, CallGoes DEF Call

\* What is in the Maps after a step was there before, or is being written.
LEMMA MapVals ==
  ASSUME LocalInv, Next, NEW i \in 0 .. size' - 1, NEW p \in DOMAIN maps'[i]
  PROVE  \/ i \in 0 .. size - 1 /\ p \in DOMAIN maps[i] /\ maps'[i][p] = maps[i][p]
         \/ \E c \in Callers : /\ Set(c) /\ p = Target(c) /\ maps'[i][p].val = calls[c].row.val
<1>1. CASE UNCHANGED <<size, maps>>
  BY <1>1
<1>2. CASE UNCHANGED <<size, hash, moved, sets>> /\ \E keys : maps' = Without(keys)
  BY <1>2 DEF Without
<1>3. CASE \E c \in Callers : Set(c)
  <2>1. PICK c \in Callers : Set(c)
    BY <1>3
  <2>2. PICK row : maps' = With([q \in {Target(c)} |-> row]) /\ row.val = calls[c].row.val
    BY <2>1, SetMeans
  <2>3. size' = size
    BY <2>1 DEF Set
  <2>4. maps'[i] = [k \in DOMAIN maps[i] \cup {j \in {Target(c)} : Slot(j) = i} |->
                      IF k \in {Target(c)} /\ Slot(k) = i THEN row ELSE maps[i][k]]
    BY <2>2, <2>3 DEF With
  <2>5. CASE p = Target(c) /\ Slot(p) = i
    <3>1. maps'[i][p] = row
      BY <2>4, <2>5
    <3> QED BY <2>1, <2>2, <2>5, <3>1
  <2>6. CASE ~ (p = Target(c) /\ Slot(p) = i)
    <3>1. p \in DOMAIN maps[i] /\ maps'[i][p] = maps[i][p]
      BY <2>4, <2>6
    <3> QED BY <2>3, <3>1
  <2> QED BY <2>5, <2>6
<1>4. CASE \E n \in Sizes : SetStoreSize(n)
  BY <1>4, FreshPlaced DEF SetStoreSize, Resize
<1> QED BY <1>1, <1>2, <1>3, <1>4, MapsGo

\* A row has the value of a write that was begun.
LEMMA RowVals ==
  ASSUME RowInv, NEW w, InMaps(w)
  PROVE  w \in 1 .. writes
BY DEF RowInv, RowsOk, InMaps

\* Every step keeps writes that are not made yet out of sight.
LEMMA ValStep ==
  ASSUME WholeHashes, LocalInv, RowInv, Next, NEW c \in Callers
  PROVE  ValOk(c)'
<1>0. /\ writes' \in Nat /\ writes <= writes' /\ writes \in Nat
      /\ \A d \in Callers : ValOk(d) /\ calls[d].row.val \in Nat
  BY WritesGrow DEF RowInv, LocalInv, CallTypes, CallType, CallRow
<1>1. \A d \in Callers :
         \/ calls'[d].row.val = 0
         \/ calls'[d].row.val = calls[d].row.val /\ ~Begin(d)
         \/ InMaps(calls'[d].row.val)
         \/ Begin(d) /\ calls'[d].row.val = writes + 1 /\ writes' = writes + 1
  BY CallVals
<1>2. calls'[c].row.val <= writes'
  BY <1>0, <1>1, RowVals DEF ValOk
<1>3. ASSUME calls'[c].op = "set"
      PROVE  /\ calls'[c].row.val # 0
             /\ \A i \in 0 .. size' - 1 : \A p \in DOMAIN maps'[i] : maps'[i][p].val # calls'[c].row.val
             /\ \A d \in Callers \ {c} : calls'[d].row.val # calls'[c].row.val
  <2>1. CASE calls'[c] = calls[c]
    <3> DEFINE w == calls[c].row.val
    <3>1. /\ w # 0 /\ w <= writes /\ ~InMaps(w) /\ \A d \in Callers \ {c} : calls[d].row.val # w
      BY <1>0, <1>3, <2>1 DEF ValOk, InMaps
    <3>2. ~Set(c)
      <4>1. ASSUME Set(c) PROVE FALSE
        <5>1. calls'[c] = NoCall
          BY <4>1, SetMeans DEF LocalInv, CallTypes
        <5> QED BY <1>3, <5>1, NoCallType
      <4> QED BY <4>1
    <3>3. ASSUME NEW i \in 0 .. size' - 1, NEW p \in DOMAIN maps'[i] PROVE maps'[i][p].val # w
      BY <3>1, <3>2, MapVals DEF InMaps
    <3>4. ASSUME NEW d \in Callers \ {c} PROVE calls'[d].row.val # w
      <4> DEFINE v == calls'[d].row.val
      <4>1. w # writes + 1 /\ w # 0 /\ calls[d].row.val # w /\ ~InMaps(w)
        BY <1>0, <3>1
      <4>2. v = 0 \/ v = calls[d].row.val \/ InMaps(v) \/ v = writes + 1
        BY <1>1
      <4> HIDE DEF w, v
      <4>3. v # w
        <5>1. CASE InMaps(v)
          BY <4>1, <5>1
        <5> QED BY <4>1, <4>2, <5>1
      <4> QED BY <4>3 DEF v
    <3> QED BY <2>1, <3>1, <3>3, <3>4
  <2>2. CASE Begin(c)
    <3>1. calls'[c].row.val = writes + 1 /\ maps' = maps /\ size' = size
      BY <1>3, <2>2, BeginMeans DEF NoneTold
    <3>2. ASSUME NEW d \in Callers \ {c} PROVE calls'[d].row.val <= writes
      <4>1. calls'[d] = calls[d]
        BY <2>2, OtherCalls DEF Call
      <4> QED BY <1>0, <4>1 DEF ValOk
    <3>3. \A i \in 0 .. size - 1 : \A p \in DOMAIN maps[i] : maps[i][p].val \in 1 .. writes
      BY DEF RowInv, RowsOk
    <3> QED BY <1>0, <3>1, <3>2, <3>3
  <2>3. CASE calls'[c] # calls[c] /\ ~Begin(c)
    <3>1. Call(c)
      BY <2>3, CallGoes
    <3>2. CASE Set(c) \/ Delete(c) \/ Clear(c)
      <4>1. calls'[c] = NoCall
        BY <3>2, SetMeans, RemovalMeans DEF LocalInv, CallTypes
      <4> QED BY <1>3, <4>1, NoCallType
    <3>3. CASE Get(c)
      BY <1>3, <3>3, GetMeans DEF SameRequest
    <3>4. CASE Decode(c)
      <4>1. calls[c].op = "set" /\ calls[c].at = "decode"
        BY <1>3, <3>4, DecodeMeans DEF SameRequest
      <4> QED BY <4>1 DEF LocalInv, CallTypes
    <3>5. CASE Purge(c)
      <4>1. calls[c].op = "set" /\ calls[c].at = "purge"
        BY <1>3, <3>5, PurgeMeans DEF SameRequest
      <4> QED BY <4>1 DEF LocalInv, CallTypes
    <3>6. CASE Advance(c)
      BY <1>3, <3>6, AdvanceMoves
    <3> QED BY <2>3, <3>1, <3>2, <3>3, <3>4, <3>5, <3>6 DEF Call
  <2> QED BY <2>1, <2>2, <2>3
<1> QED BY <1>2, <1>3 DEF ValOk

\* Nobody makes a write again that is in the Maps or has been read.
LEMMA AuthorStays ==
  ASSUME LocalInv, RowInv, Next, Observe, NEW w \in 1 .. writes,
         InMaps(w) \/ \E c \in Callers : calls[c].op # "set" /\ calls[c].row.val = w
  PROVE  author'[w] = author[w]
<1>1. w \in 1 .. MaxWrites
  BY WritesGrow, BoundAssumption
<1>2. ASSUME NEW d \in Callers, Set(d), calls[d].row.val = w PROVE FALSE
  <2>1. calls[d].op = "set"
    BY <1>2, SetMeans
  <2> QED BY <1>2, <2>1 DEF RowInv, ValOk, InMaps
<1> QED BY <1>1, <1>2, AuthorKept

\* The row a call aims at lies in its adapter's namespace.
LEMMA TargetName ==
  ASSUME LocalInv, RowInv, NEW c \in Callers, calls[c].at # "done", Len(calls[c].key) = 1
  PROVE  /\ Target(c) \in Words /\ NameOf(Target(c)) = Space(calls[c].kv) /\ Len(Target(c)) \in {1, 2}
         /\ Space(calls[c].kv) \in watch[c].spaces
<1>1. calls[c].kv \in Keyvs /\ calls[c].key \in Words
  BY DEF LocalInv, CallTypes, CallType
<1>2. Space(calls[c].kv) \in Words /\ Len(Space(calls[c].kv)) <= 1
  BY <1>1 DEF LocalInv, ConfigTypes, RowInv, SpaceOk, Space
<1>3. Target(c) \in Words /\ NameOf(Target(c)) = Space(calls[c].kv)
      /\ Len(Target(c)) = Len(Space(calls[c].kv)) + 1
  BY <1>1, <1>2, PathName, TargetType DEF Target
<1>4. Len(Space(calls[c].kv)) \in Nat
  BY <1>2, WordsLen
<1>5. Len(Target(c)) \in {1, 2}
  <2> DEFINE n == Len(Space(calls[c].kv))
  <2> HIDE DEF n
  <2>1. n \in Nat /\ n <= 1 => n + 1 \in {1, 2}
    OBVIOUS
  <2> QED BY <1>2, <1>3, <1>4, <2>1 DEF n
<1> QED BY <1>3, <1>5 DEF RowInv, VisitOk

\* Every step keeps each row in the namespace it was written in.
LEMMA RowsStep ==
  ASSUME OneWord, LocalInv, RowInv, Next, Observe
  PROVE  RowsOk'
<1> SUFFICES ASSUME NEW i \in 0 .. size' - 1, NEW p \in DOMAIN maps'[i]
             PROVE  /\ Len(p) \in {1, 2} /\ maps'[i][p].val \in 1 .. writes'
                    /\ author'[maps'[i][p].val] \in {Anyone, NameOf(p)}
  BY DEF RowsOk, NameOf
<1>0. writes' \in Nat /\ writes <= writes' /\ writes \in 0 .. MaxWrites
  BY WritesGrow
<1>1. CASE i \in 0 .. size - 1 /\ p \in DOMAIN maps[i] /\ maps'[i][p] = maps[i][p]
  <2>1. /\ Len(p) \in {1, 2} /\ maps[i][p].val \in 1 .. writes
        /\ author[maps[i][p].val] \in {Anyone, NameOf(p)}
    BY <1>1 DEF RowInv, RowsOk
  <2>2. author'[maps[i][p].val] = author[maps[i][p].val]
    BY <1>1, <2>1, AuthorStays DEF InMaps
  <2> QED BY <1>0, <1>1, <2>1, <2>2
<1>2. CASE \E c \in Callers : Set(c) /\ p = Target(c) /\ maps'[i][p].val = calls[c].row.val
  <2>1. PICK c \in Callers : Set(c) /\ p = Target(c) /\ maps'[i][p].val = calls[c].row.val
    BY <1>2
  <2>2. calls[c].op = "set" /\ calls[c].at = "before"
    BY <2>1, SetMeans
  <2>3. calls[c].row.val \in 1 .. writes /\ Len(calls[c].key) = 1
    BY <1>0, <2>2 DEF RowInv, ValOk, KeyOk, LocalInv, CallTypes, CallType, CallRow
  <2>4. NameOf(p) = Space(calls[c].kv) /\ Len(p) \in {1, 2} /\ Space(calls[c].kv) \in watch[c].spaces
    BY <2>1, <2>2, <2>3, TargetName
  <2>5. author'[calls[c].row.val] = IF watch[c].spaces = {watch[c].ns} THEN watch[c].ns ELSE Anyone
    BY <1>0, <2>1, <2>3, AuthorSet, BoundAssumption
  <2> QED BY <1>0, <2>1, <2>3, <2>4, <2>5
<1> QED BY <1>1, <1>2, MapVals

\* The rows a call may come to are those of the namespaces its adapter has had.
LEMMA NameReached ==
  ASSUME RowInv, NEW c \in Callers, NEW i \in 0 .. size - 1, NEW p \in DOMAIN maps[i],
         NameOf(p) \in watch[c].spaces
  PROVE  Reaches(c, maps[i][p].val)
BY DEF RowInv, RowsOk, Reaches

\* What lies in a namespace that its adapter has had, a call may come to.
LEMMA HasReached ==
  ASSUME LocalInv, RowInv, NEW c \in Callers, NEW i \in 0 .. size - 1, NEW p \in DOMAIN maps[i],
         NEW ns \in Words, ns \in watch[c].spaces, Len(ns) <= 1, Has(ns, p)
  PROVE  Reaches(c, maps[i][p].val)
<1>1. CASE ns = <<>>
  BY <1>1 DEF Reaches
<1>2. CASE ns # <<>>
  <2>1. p \in Words /\ Len(p) \in {1, 2}
    BY DEF LocalInv, MapTypes, RowsOrdered, RowInv, RowsOk
  <2>2. NameOf(p) = ns
    BY <1>2, <2>1, WithinName DEF Has
  <2> QED BY <2>2, NameReached
<1> QED BY <1>1, <1>2

\* Every step keeps what a call has read within its reach.
LEMMA ReadStep ==
  ASSUME WholeHashes, OneWord, LocalInv, Watches, RowInv, HNext, NEW c \in Callers
  PROVE  ReadOk(c)'
<1> DEFINE w == calls'[c].row.val
<1> SUFFICES ASSUME calls'[c].op \in {"get", "iterate"}, w # 0
             PROVE  <<>> \in watch'[c].spaces \/ author'[w] \in watch'[c].spaces \cup {Anyone}
  BY DEF ReadOk, Reaches
<1>0. Next /\ Observe /\ calls'[c] # NoCall
  BY NoCallType DEF HNext
\* What it has read already.
<1>1. CASE calls'[c].row.val = calls[c].row.val /\ calls'[c].op = calls[c].op
           /\ (calls'[c] = calls[c] \/ calls[c].at # "done")
  <2>1. Reaches(c, w) /\ w \in 1 .. writes
    <3>1. w \in Nat /\ w <= writes
      BY <1>1 DEF RowInv, ValOk, LocalInv, CallTypes, CallType, CallRow
    <3> QED BY <1>1, <3>1 DEF RowInv, ReadOk
  <2>2. author'[w] = author[w]
    BY <1>0, <1>1, <2>1, AuthorStays
  <2>3. watch[c].spaces \subseteq watch'[c].spaces
    <3>1. CASE calls[c].at = "done"
      BY <1>0, <1>1, <3>1, Resting
    <3>2. CASE calls[c].at # "done"
      BY <1>0, <3>2, SpacesGrow
    <3> QED BY <3>1, <3>2
  <2> QED BY <2>1, <2>2, <2>3 DEF Reaches
\* What it reads now.
<1>2. ASSUME NEW i \in 0 .. size - 1, NEW p \in DOMAIN maps[i], maps[i][p].val = w, Reaches(c, w),
             calls[c].at # "done"
      PROVE  <<>> \in watch'[c].spaces \/ author'[w] \in watch'[c].spaces \cup {Anyone}
  <2>1. w \in 1 .. writes /\ InMaps(w)
    BY <1>2 DEF RowInv, RowsOk, InMaps
  <2>2. author'[w] = author[w]
    BY <1>0, <2>1, AuthorStays
  <2>3. watch[c].spaces \subseteq watch'[c].spaces
    BY <1>0, <1>2, SpacesGrow
  <2> QED BY <1>2, <2>2, <2>3 DEF Reaches
<1> HIDE DEF w
<1>3. CASE calls'[c] = calls[c]
  BY <1>1, <1>3
<1>4. CASE Begin(c)
  <2>1. calls'[c].op # "set"
    OBVIOUS
  <2> QED BY <1>4, <2>1, BeginMeans DEF w
<1>5. CASE Set(c) \/ Delete(c) \/ Clear(c)
  BY <1>0, <1>5, SetMeans, RemovalMeans DEF LocalInv, CallTypes
<1>6. CASE Get(c)
  <2>1. /\ calls[c].op = "get" /\ calls[c].at = "before" /\ SameRequest(c)
        /\ Holds(Target(c)) /\ ~Lapsed(At(Target(c))) => calls'[c].row.val = At(Target(c)).val
        /\ ~ (Holds(Target(c)) /\ ~Lapsed(At(Target(c)))) => calls'[c].row = calls[c].row
    BY <1>6, GetMeans
  <2>2. CASE Holds(Target(c)) /\ ~Lapsed(At(Target(c)))
    <3> DEFINE t == Target(c)
    <3>1. t \in Words /\ NameOf(t) \in watch[c].spaces
      BY <2>1, TargetName DEF RowInv, KeyOk
    <3>2. Slot(t) \in 0 .. size - 1
      BY <3>1, SlotType DEF LocalInv
    <3>3. t \in DOMAIN maps[Slot(t)] /\ w = maps[Slot(t)][t].val
      BY <2>1, <2>2 DEF Holds, At, w
    <3> HIDE DEF t
    <3>4. Reaches(c, w)
      BY <3>1, <3>2, <3>3, NameReached
    <3> QED BY <1>2, <2>1, <3>2, <3>3, <3>4
  <2>3. CASE ~ (Holds(Target(c)) /\ ~Lapsed(At(Target(c))))
    BY <1>1, <2>1, <2>3 DEF SameRequest
  <2> QED BY <2>2, <2>3
<1>7. CASE Decode(c)
  BY <1>1, <1>7, DecodeMeans DEF SameRequest, w
<1>8. CASE Purge(c)
  BY <1>1, <1>8, PurgeMeans DEF SameRequest
<1>9. CASE Advance(c)
  <2>1. /\ calls[c].op = "iterate" /\ calls[c].at \in {"start", "ask"} /\ calls'[c].op = "iterate"
        /\ Live(c) = {} => calls'[c].row = calls[c].row
        /\ Live(c) # {} => calls'[c].row.val = RowOf(First(c)).val
    BY <1>9, AdvanceMoves
  <2>2. CASE Live(c) = {}
    BY <1>1, <2>1, <2>2
  <2>3. CASE Live(c) # {}
    <3> DEFINE i == First(c)[1]
               p == First(c)[2]
    <3>1. /\ i \in 0 .. size - 1 /\ p \in DOMAIN maps[i] /\ w = maps[i][p].val /\ Has(Captured(c), p)
      BY <2>1, <2>3, FirstRow DEF w
    <3>2. Captured(c) \in watch[c].spaces /\ Len(Captured(c)) <= 1 /\ Captured(c) \in Words
      BY <2>1, CapturedOk
    <3> HIDE DEF i, p
    <3>3. Reaches(c, w)
      BY <3>1, <3>2, HasReached
    <3> QED BY <1>2, <2>1, <3>1, <3>3
  <2> QED BY <2>2, <2>3
<1> QED BY <1>0, <1>3, <1>4, <1>5, <1>6, <1>7, <1>8, <1>9, CallGoes DEF Call

\* So it is after a step.
LEMMA SlotNextType ==
  ASSUME WholeHashes, MapTypes', NEW p \in Words
  PROVE  (IF size' = 1 THEN 0
          ELSE (IF Hashes[hash'][p] < 0 THEN -Hashes[hash'][p] ELSE Hashes[hash'][p]) % size') \in 0 .. size' - 1
<1>1. Hashes[hash'][p] \in Int /\ size' \in Nat \ {0}
  BY DEF WholeHashes, MapTypes
<1> QED BY <1>1, SlotRange

\* Where a row lies that is held after a step by which no hash function was
\* replaced over entries.
LEMMA HeldBefore ==
  ASSUME WholeHashes, LocalInv, LocalInv', Next, ~moved', NEW t \in Words, Holds(t)'
  PROVE  /\ Slot(t)' = Slot(t) /\ ~moved /\ Slot(t) \in 0 .. size - 1 /\ size' = size
         /\ \/ Holds(t) /\ At(t)' = At(t)
            \/ \E d \in Callers : Set(d) /\ t = Target(d) /\ At(t)'.val = calls[d].row.val
<1> DEFINE s == IF size' = 1 THEN 0
          ELSE (IF Hashes[hash'][t] < 0 THEN -Hashes[hash'][t] ELSE Hashes[hash'][t]) % size'
<1>1. s \in 0 .. size' - 1
  BY SlotNextType DEF LocalInv
<1>2. Slot(t)' = s /\ t \in DOMAIN maps'[s] /\ At(t)' = maps'[s][t]
  BY DEF Slot, Holds, At
<1>3. UNCHANGED <<size, hash, moved>>
  <2>1. CASE \E n \in Sizes : SetStoreSize(n)
    <3>1. DOMAIN maps'[s] = {}
      BY <1>1, <2>1, FreshPlaced DEF SetStoreSize, Resize
    <3> QED BY <1>2, <3>1
  <2>2. CASE \E h \in DOMAIN Hashes : SetStoreHash(h)
    <3>1. Entries = {} /\ maps' = maps /\ size' = size
      BY <2>2 DEF SetStoreHash, Rehash
    <3> HIDE DEF s
    <3>2. <<s, t>> \in Entries
      BY <1>1, <1>2, <3>1 DEF Entries
    <3> QED BY <3>1, <3>2
  <2>3. CASE \E c \in Callers : Call(c)
    BY <2>3, BeginMeans, SetMeans, GetMeans, RemovalMeans, DecodeMeans, PurgeMeans, AdvanceMoves DEF Call, NoneTold
  <2>4. CASE \E k \in Keyvs : Configure(k)
    BY <2>4 DEF Configure, SetNamespace, SetStore, SetSanitize, SetOptions, bigMap
  <2>5. CASE Tick
    BY <2>5 DEF Tick, bigMap
  <2> QED BY <2>1, <2>2, <2>3, <2>4, <2>5 DEF Next
<1>4. s = Slot(t)
  BY <1>3 DEF Slot
<1> HIDE DEF s
<1>5. \/ s \in 0 .. size - 1 /\ t \in DOMAIN maps[s] /\ maps'[s][t] = maps[s][t]
      \/ \E d \in Callers : Set(d) /\ t = Target(d) /\ maps'[s][t].val = calls[d].row.val
  BY <1>1, <1>2, MapVals
<1> QED BY <1>1, <1>2, <1>3, <1>4, <1>5 DEF Holds, At

\* The clock does not go back.
LEMMA ClockGrows ==
  ASSUME LocalInv, Next
  PROVE  clock' \in Nat /\ clock \in Nat /\ clock <= clock'
<1>0. clock \in Nat
  BY DEF LocalInv, MapTypes
<1>1. clock' = clock \/ clock' = clock + 1
  <2>1. CASE \E c \in Callers : Call(c)
    BY <2>1 DEF Call, Begin, Set, Get, Delete, Clear, Decode, Purge, Advance
  <2>2. CASE \E k \in Keyvs : Configure(k)
    BY <2>2 DEF Configure, SetNamespace, SetStore, SetSanitize, SetOptions
  <2>3. CASE Tick \/ (\E n \in Sizes : SetStoreSize(n)) \/ (\E h \in DOMAIN Hashes : SetStoreHash(h))
    BY <2>3 DEF Tick, SetStoreSize, SetStoreHash
  <2> QED BY <2>1, <2>2, <2>3 DEF Next
<1> QED BY <1>0, <1>1

\* What a read has found, as the next state has it.
LEMMA FoundForm ==
  ASSUME NEW c \in Callers, NEW t,
         t = Path(SpaceNext(c), calls'[c].key),
         calls'[c].at \in {"decode", "purge"} /\ ~moved' /\ Holds(t)'
           /\ watch'[c].spaces = {SpaceNext(c)} =>
           \/ At(t)'.val \in watch'[c].fresh
           \/ /\ calls'[c].at = "decode"
              /\ At(t)'.val = calls'[c].row.val /\ At(t)'.e = calls'[c].row.e
           \/ calls'[c].at = "purge" /\ At(t)'.e # Never /\ clock' > At(t)'.e
  PROVE  FoundOk(c)'
<1>1. Target(c)' = t
  BY DEF Target, SpaceNext, Space, Path
<1>2. Holds(Target(c))' = Holds(t)' /\ At(Target(c))' = At(t)'
  BY <1>1 DEF Holds, At, Slot
<1>3. Space(calls[c].kv)' = SpaceNext(c)
  BY DEF SpaceNext, Space
<1> QED BY <1>2, <1>3 DEF FoundOk, Lapsed

\* Every step leaves there what a read has found, or something newer.
LEMMA FoundStep ==
  ASSUME WholeHashes, LocalInv, LocalInv', Placed, Watches, RowInv, HNext, NEW c \in Callers
  PROVE  FoundOk(c)'
<1>t. PICK t : t = Path(SpaceNext(c), calls'[c].key)
  OBVIOUS
<1> SUFFICES ASSUME calls'[c].at \in {"decode", "purge"}, ~moved', Holds(t)', watch'[c].spaces = {SpaceNext(c)}
             PROVE  \/ At(t)'.val \in watch'[c].fresh
                    \/ /\ calls'[c].at = "decode"
                       /\ At(t)'.val = calls'[c].row.val /\ At(t)'.e = calls'[c].row.e
                    \/ calls'[c].at = "purge" /\ At(t)'.e # Never /\ clock' > At(t)'.e
  BY <1>t, FoundForm
<1>0. Next /\ Observe /\ calls'[c] # NoCall
  BY NoCallType DEF HNext
<1>1. calls[c].at # "done"
  <2>1. CASE calls'[c] = calls[c]
    BY <2>1
  <2>2. CASE calls'[c] # calls[c]
    <3>1. Call(c)
      BY <1>0, <2>2, CallGoes
    <3>2. ~Begin(c)
      BY BeginMeans
    <3> QED BY <3>1, <3>2 DEF Call, Set, Get, Delete, Clear, Decode, Purge, Advance
  <2> QED BY <2>1, <2>2
\* The namespace is the one it was.
<1>2. calls'[c].kv = calls[c].kv /\ SpaceNext(c) = Space(calls[c].kv) /\ watch[c].spaces = {Space(calls[c].kv)}
  <2>1. calls'[c].kv = calls[c].kv
    BY <1>0, <1>1, SameCall
  <2>2. Space(calls[c].kv) \in watch[c].spaces /\ watch[c].spaces \subseteq {SpaceNext(c)}
    BY <1>0, <1>1, SpacesGrow DEF RowInv, VisitOk
  <2> QED BY <2>1, <2>2
<1>3. t \in Words
  <2>1. SpaceNext(c) \in Words
    BY <1>0, <1>1, SpaceTyped
  <2>2. calls'[c].key \in Words
    BY DEF LocalInv, CallTypes, CallType
  <2> QED BY <1>t, <2>1, <2>2, PathTypes
<1>4. watch[c].fresh \subseteq watch'[c].fresh
      /\ watch'[c].fresh = watch[c].fresh \cup {calls[d].row.val : d \in {e \in Callers : Sets(e)}}
  BY <1>0, <1>1, Going, SpacesGrow
<1>5. t = Path(Space(calls[c].kv), calls'[c].key)
  BY <1>2, <1>t
<1>6. /\ Slot(t)' = Slot(t) /\ ~moved /\ Slot(t) \in 0 .. size - 1
      /\ \/ Holds(t) /\ At(t)' = At(t)
         \/ \E d \in Callers : Set(d) /\ t = Target(d) /\ At(t)'.val = calls[d].row.val
  BY <1>0, <1>3, HeldBefore
<1>7. CASE \E d \in Callers : Set(d) /\ t = Target(d) /\ At(t)'.val = calls[d].row.val
  <2>1. PICK d \in Callers : Set(d) /\ At(t)'.val = calls[d].row.val
    BY <1>7
  <2>2. Sets(d)
    BY <1>0, <2>1, SetsOne
  <2> QED BY <1>4, <2>1, <2>2
<1>8. CASE Holds(t) /\ At(t)' = At(t)
  <2>0. FoundOk(c)
    BY DEF RowInv
  <2>1. At(t) \in StoredRow
    BY <1>3, <1>6, <1>8 DEF Holds, At, LocalInv, MapTypes, RowsOrdered
  <2>2. clock' \in Nat /\ clock \in Nat /\ clock <= clock'
    BY <1>0, ClockGrows
  <2>3. CASE calls'[c] = calls[c]
    <3>1. t = Target(c)
      BY <1>5, <2>3 DEF Target
    <3>2. \/ At(t).val \in watch[c].fresh
          \/ calls[c].at = "decode" /\ At(t).val = calls[c].row.val /\ At(t).e = calls[c].row.e
          \/ calls[c].at = "purge" /\ At(t).e # Never /\ clock > At(t).e
      BY <1>2, <1>6, <1>8, <2>0, <2>3, <3>1 DEF FoundOk, Lapsed
    <3>3. CASE At(t).e # Never /\ clock > At(t).e
      <4>1. At(t).e \in Nat
        BY <2>1, <3>3 DEF StoredRow, Deadlines
      <4>2. clock' > At(t).e
        BY <2>2, <3>3, <4>1
      <4>3. CASE calls[c].at = "purge"
        BY <1>8, <2>3, <3>3, <4>2, <4>3
      <4> QED BY <1>4, <1>8, <2>3, <3>2, <4>3
    <3> QED BY <1>4, <1>8, <2>3, <3>2, <3>3
  <2>4. CASE Get(c)
    <3>1. /\ SameRequest(c) /\ calls'[c].at # "purge"
          /\ Holds(Target(c)) /\ ~Lapsed(At(Target(c))) =>
               calls'[c].row.val = At(Target(c)).val /\ calls'[c].row.e = At(Target(c)).e
          /\ ~ (Holds(Target(c)) /\ ~Lapsed(At(Target(c)))) => calls'[c].at = "done"
      BY <2>4, GetMeans
    <3>2. t = Target(c)
      BY <1>5, <3>1 DEF Target, SameRequest
    <3> QED BY <1>8, <3>1, <3>2
  <2>5. CASE Decode(c)
    <3>1. /\ SameRequest(c) /\ calls[c].at = "decode" /\ clock' = clock
          /\ ~Lapsed(calls[c].row) => calls'[c].at \in {"ask", "done"}
          /\ Lapsed(calls[c].row) => calls'[c].at = "purge"
      BY <2>5, DecodeMeans
    <3>2. t = Target(c)
      BY <1>5, <3>1 DEF Target, SameRequest
    <3>3. At(t).val \in watch[c].fresh \/ At(t).e = calls[c].row.e
      BY <1>2, <1>6, <1>8, <2>0, <3>1, <3>2 DEF FoundOk
    <3>4. Lapsed(calls[c].row) /\ calls'[c].at = "purge"
      BY <3>1
    <3> QED BY <1>4, <1>8, <3>1, <3>3, <3>4 DEF Lapsed
  <2>6. CASE Advance(c)
    <3>1. /\ calls[c].op = "iterate" /\ calls[c].at \in {"start", "ask"}
          /\ Live(c) = {} => calls'[c].at = "done"
          /\ Live(c) # {} => /\ calls'[c].at = "decode" /\ calls'[c].key = KeyOf(Captured(c), First(c)[2])
                             /\ calls'[c].row.val = RowOf(First(c)).val /\ calls'[c].row.e = RowOf(First(c)).e
      BY <2>6, AdvanceMoves
    <3>2. Live(c) # {}
      BY <3>1
    <3> DEFINE i == First(c)[1]
               p == First(c)[2]
    <3>3. /\ i \in 0 .. size - 1 /\ p \in DOMAIN maps[i] /\ RowOf(First(c)) = maps[i][p]
          /\ p \in Words /\ Has(Captured(c), p)
      BY <3>1, <3>2, FirstRow
    <3>4. Captured(c) = Space(calls[c].kv) /\ Captured(c) \in Words
      BY <1>2, <3>1, CapturedOk
    <3>5. t = p
      BY <1>5, <3>1, <3>2, <3>3, <3>4, KeyPath
    <3>6. i = Slot(p)
      BY <1>6, <3>3 DEF Placed
    <3>7. RowOf(First(c)) = At(t)
      BY <3>3, <3>5, <3>6 DEF At
    <3> QED BY <1>8, <3>1, <3>2, <3>7
  <2>7. CASE Begin(c) \/ Set(c) \/ Delete(c) \/ Clear(c) \/ Purge(c)
    <3>1. CASE Begin(c)
      BY <1>1, <3>1, BeginMeans
    <3>2. CASE Set(c) \/ Delete(c) \/ Clear(c)
      BY <1>0, <3>2, SetMeans, RemovalMeans DEF LocalInv, CallTypes
    <3>3. CASE Purge(c)
      BY <3>3, PurgeMeans
    <3> QED BY <2>7, <3>1, <3>2, <3>3
  <2> QED BY <1>0, <2>3, <2>4, <2>5, <2>6, <2>7, CallGoes DEF Call
<1> QED BY <1>6, <1>7, <1>8

\* Every step keeps RowInv.
LEMMA RowStep ==
  ASSUME WholeHashes, OneWord, LocalInv, Placed, Watches, RowInv, [HNext]_hvars
  PROVE  RowInv'
<1>0. LocalInv' /\ SpaceOk'
  BY HistoryStep, StepTypes, SpacesStep DEF RowInv
<1>1. CASE HNext
  <2>1. Next /\ Observe
    BY <1>1 DEF HNext
  <2>2. RowsOk'
    BY <2>1, RowsStep
  <2>3. ASSUME NEW c \in Callers
        PROVE  (VisitOk(c) /\ KeyOk(c) /\ ValOk(c) /\ ReadOk(c) /\ FoundOk(c))'
    <3>1. VisitOk(c)'
      BY <1>1, VisitStep
    <3>2. KeyOk(c)'
      BY <2>1, KeyStep
    <3>3. ValOk(c)'
      BY <2>1, ValStep
    <3>4. ReadOk(c)'
      BY <1>1, ReadStep
    <3>5. FoundOk(c)'
      BY <1>0, <1>1, FoundStep
    <3> QED BY <3>1, <3>2, <3>3, <3>4, <3>5
  <2> QED BY <1>0, <2>2, <2>3 DEF RowInv
<1>2. CASE UNCHANGED hvars
  <2> USE <1>2 DEF hvars, vars, bigMap, keyv, RowInv
  <2>1. RowsOk'
    BY DEF RowsOk
  <2>2. ASSUME NEW c \in Callers PROVE (VisitOk(c) /\ KeyOk(c) /\ ValOk(c) /\ ReadOk(c))'
    BY DEF VisitOk, KeyOk, ValOk, ReadOk, Reaches, Space
  <2>3. ASSUME NEW c \in Callers PROVE FoundOk(c)'
    BY DEF FoundOk, Target, Space, Holds, At, Slot, Lapsed
  <2> QED BY <1>0, <2>1, <2>2, <2>3
<1> QED BY <1>1, <1>2

\* It holds at the start.
LEMMA RowInit == OneWord /\ HInit => RowInv
<1> SUFFICES ASSUME OneWord, HInit PROVE RowInv
  OBVIOUS
<1>1. SpaceOk
  BY SpacesInit DEF HInit
<1>2. RowsOk
  <2>1. \A i \in 0 .. size - 1 : DOMAIN maps[i] = {}
    BY FreshPlaced DEF HInit, Init
  <2> QED BY <2>1 DEF RowsOk
<1>3. ASSUME NEW c \in Callers PROVE VisitOk(c) /\ KeyOk(c) /\ ValOk(c) /\ ReadOk(c) /\ FoundOk(c)
  <2>1. calls[c] = NoCall /\ writes = 0
    BY DEF HInit, Init
  <2>2. calls[c].op = "none" /\ calls[c].at = "done" /\ calls[c].row.val = 0
    BY <2>1 DEF NoCall, NoRow
  <2> QED BY <2>1, <2>2 DEF VisitOk, KeyOk, ValOk, ReadOk, FoundOk
<1> QED BY <1>1, <1>2, <1>3 DEF RowInv

\* All the invariants together, of every reachable state.
LEMMA RowsAlways ==
  ASSUME WholeHashes, OneWord
  PROVE  HSpec => [](LocalInv /\ Placed /\ Watches /\ RowInv)
<1>1. LocalInv /\ Watches /\ [HNext]_hvars => Watches'
  BY WatchesStep
<1>2. LocalInv /\ Placed /\ Watches /\ RowInv /\ [HNext]_hvars => RowInv'
  BY RowStep
<1>3. HInit => RowInv
  BY RowInit
<1> QED BY <1>1, <1>2, <1>3, WatchesInit, HistoryTyped, PTL DEF HSpec

\* What a call reads was written by a Keyv that had the namespace of its own
\* adapter, or while some adapter changed its namespace: no Keyv reads the rows
\* of another namespace in the same store, if the separator occurs in no key and
\* no namespace.
THEOREM NamespacesIsolated ==
  ASSUME WholeHashes, OneWord
  PROVE  HSpec => []Isolated
<1>1. RowInv => Isolated
  BY DEF RowInv, ReadOk, Isolated
<1> QED BY <1>1, RowsAlways, PTL

\* Whatever step takes a row away, the call it belongs to may reach that row, and
\* removes or overwrites by intent, or the row had lapsed, or was put there while
\* the call was on its way, or the namespace changed meanwhile, or an iterator
\* cleaned a key again.
LEMMA Owned ==
  ASSUME WholeHashes, OneWord, LocalInv, Placed, Watches, RowInv, HNext,
         ~moved, sets' = sets, NEW p \in Rows, Lost(p)
  PROVE  \E c \in Callers :
           /\ calls'[c] # calls[c] /\ Reaches(c, At(p).val)
           /\ \/ calls[c].op \in {"set", "delete", "clear"}
              \/ Lapsed(At(p)) \/ At(p).val \in watch[c].fresh
              \/ Cardinality(watch[c].spaces) > 1
              \/ CleanKey(clean[calls[c].kv], calls[c].key) # calls[c].key
<1> DEFINE i == Slot(p)
<1>1. p \in Words
  BY EntriesTyped DEF Rows, EntryTypes, LocalInv
<1>2. i \in 0 .. size - 1
  BY <1>1, SlotType DEF LocalInv
<1>3. p \in DOMAIN maps[i] /\ At(p) = maps[i][p]
  BY DEF Lost, Holds, At
<1>4. Len(p) \in {1, 2}
  BY <1>2, <1>3 DEF RowInv, RowsOk
<1>5. ASSUME UNCHANGED <<size, hash, maps>> PROVE FALSE
  BY <1>5 DEF Lost, Holds, At, Slot
<1>6. PICK c \in Callers : Call(c)
  <2>1. sets' # sets + 1
    BY DEF LocalInv, MapTypes
  <2>2. ~ \E k \in Keyvs : Configure(k)
    BY <2>1 DEF Configure, SetNamespace, SetStore, SetSanitize, SetOptions, Setting
  <2>3. ~ ((\E n \in Sizes : SetStoreSize(n)) \/ (\E h \in DOMAIN Hashes : SetStoreHash(h)))
    BY <2>1 DEF SetStoreSize, SetStoreHash, Setting
  <2>4. ~Tick
    BY <1>5 DEF Tick, bigMap
  <2> QED BY <2>2, <2>3, <2>4 DEF HNext, Next
<1>7. ASSUME NoneTold PROVE Slot(p)' = i
  BY <1>7 DEF NoneTold, Slot
\* What is taken away by name, and what is overwritten.
<1>8. ASSUME NEW keys, NoneTold, maps' = Without(keys) PROVE p \in keys
  <2>1. maps'[i] = [k \in {j \in DOMAIN maps[i] : j \notin keys \/ Slot(j) # i} |-> maps[i][k]]
    BY <1>2, <1>8 DEF Without
  <2>2. (~ p \in DOMAIN maps'[i]) \/ maps'[i][p].val # maps[i][p].val
    BY <1>3, <1>7, <1>8 DEF Lost, Holds, At
  <2> QED BY <1>3, <2>1, <2>2
<1>9. ASSUME NEW t, NEW row, NoneTold, maps' = With([q \in {t} |-> row]) PROVE p = t
  <2>1. maps'[i] = [k \in DOMAIN maps[i] \cup {j \in {t} : Slot(j) = i} |->
                      IF k \in {t} /\ Slot(k) = i THEN row ELSE maps[i][k]]
    BY <1>2, <1>9 DEF With
  <2>2. (~ p \in DOMAIN maps'[i]) \/ maps'[i][p].val # maps[i][p].val
    BY <1>3, <1>7, <1>9 DEF Lost, Holds, At
  <2> QED BY <1>3, <2>1, <2>2
<1>10. ASSUME calls[c].at # "done", Len(calls[c].key) = 1, p = Target(c) PROVE Reaches(c, At(p).val)
  <2>1. NameOf(p) \in watch[c].spaces
    BY <1>10, TargetName
  <2> QED BY <1>2, <1>3, <2>1, NameReached
<1>11. ASSUME NEW ns \in Words, ns \in watch[c].spaces, Len(ns) <= 1, Has(ns, p) PROVE Reaches(c, At(p).val)
  BY <1>2, <1>3, <1>11, HasReached
<1> HIDE DEF i
<1>12. CASE Begin(c) \/ Decode(c)
  BY <1>5, <1>12, BeginMeans, DecodeMeans DEF NoneTold
<1>13. CASE Set(c)
  <2>1. /\ calls[c].op = "set" /\ calls[c].at = "before" /\ NoneTold
        /\ \E row : maps' = With([q \in {Target(c)} |-> row])
        /\ calls'[c] = NoCall
    BY <1>13, SetMeans DEF LocalInv, CallTypes
  <2>2. p = Target(c)
    BY <1>9, <2>1
  <2>3. Len(calls[c].key) = 1 /\ calls'[c] # calls[c]
    BY <2>1, NoCallType DEF RowInv, KeyOk
  <2> QED BY <1>10, <2>1, <2>2, <2>3
<1>14. CASE Delete(c) \/ Clear(c)
  <2>1. /\ calls[c].op \in {"delete", "clear"} /\ calls[c].at = "before" /\ NoneTold
        /\ calls'[c] = NoCall
        /\ calls[c].op = "delete" => maps' = Without({Target(c)})
        /\ calls[c].op = "clear" => maps' = Without(Cleared(Space(calls[c].kv)))
    BY <1>14, RemovalMeans DEF LocalInv, CallTypes
  <2>2. calls'[c] # calls[c]
    BY <2>1, NoCallType
  <2>3. CASE calls[c].op = "delete"
    <3>1. p = Target(c) /\ Len(calls[c].key) = 1
      BY <1>8, <2>1, <2>3 DEF RowInv, KeyOk
    <3> QED BY <1>10, <2>1, <2>2, <3>1
  <2>4. CASE calls[c].op = "clear"
    <3> DEFINE ns == Space(calls[c].kv)
    <3>1. p \in Cleared(ns)
      BY <1>8, <2>1, <2>4
    <3>2. Has(ns, p)
      BY <3>1 DEF Cleared, Has
    <3>3. calls[c].kv \in Keyvs
      BY <2>1 DEF LocalInv, CallTypes
    <3>4. ns \in Words /\ Len(ns) <= 1 /\ ns \in watch[c].spaces
      BY <2>1, <3>3 DEF LocalInv, ConfigTypes, RowInv, SpaceOk, VisitOk, Space
    <3> HIDE DEF ns
    <3> QED BY <1>11, <2>1, <2>2, <3>2, <3>4
  <2> QED BY <2>1, <2>3, <2>4
<1>15. CASE Get(c)
  <2> DEFINE found == Holds(Target(c)) /\ ~Lapsed(At(Target(c)))
  <2>1. /\ calls[c].op = "get" /\ calls[c].at = "before" /\ NoneTold
        /\ found => maps' = maps
        /\ ~found => maps' = Without({Target(c)}) /\ calls'[c].at = "done"
    BY <1>15, GetMeans
  <2>2. ~found
    BY <1>5, <2>1 DEF NoneTold
  <2>3. p = Target(c) /\ Len(calls[c].key) = 1
    BY <1>8, <2>1, <2>2 DEF RowInv, KeyOk
  <2>4. Lapsed(At(p))
    BY <2>2, <2>3 DEF Lost
  <2> QED BY <1>10, <2>1, <2>2, <2>3, <2>4
<1>16. CASE Purge(c)
  <2> DEFINE k   == calls[c].kv
             key == IF calls[c].op = "iterate" THEN CleanKey(clean[k], calls[c].key) ELSE calls[c].key
  <2>1. /\ calls[c].at = "purge" /\ NoneTold /\ calls'[c].at \in {"ask", "done"}
        /\ maps' = Without({Path(Space(k), key)})
    BY <1>16, PurgeMeans
  <2>2. p = Path(Space(k), key) /\ calls'[c] # calls[c]
    BY <1>8, <2>1
  <2>3. calls[c].op \in {"get", "iterate"} /\ k \in Keyvs /\ calls[c].key \in Words
    BY <2>1 DEF LocalInv, CallTypes, CallType
  <2>4. Space(k) \in Words /\ Space(k) \in watch[c].spaces /\ IsFiniteSet(watch[c].spaces)
    BY <2>1, <2>3 DEF LocalInv, ConfigTypes, RowInv, VisitOk, Space
  \* It reaches what it takes.
  <2>5. Reaches(c, At(p).val)
    <3>1. CASE Len(calls[c].key) = 1
      <4>1. key \in Words /\ Len(key) = 1
        BY <2>3, <3>1, CleanKeyType DEF LocalInv, ConfigTypes
      <4> HIDE DEF key, k
      <4>2. NameOf(p) = Space(k)
        BY <2>2, <2>4, <4>1, PathName
      <4> QED BY <1>2, <1>3, <2>4, <4>2, NameReached
    <3>2. CASE Len(calls[c].key) # 1
      <4>1. calls[c].op = "iterate" /\ calls[c].ns = <<>>
        BY <2>1, <2>3, <3>2 DEF RowInv, KeyOk
      <4> QED BY <2>1, <4>1 DEF RowInv, VisitOk, Reaches
    <3> QED BY <3>1, <3>2
  <2>6. CASE Cardinality(watch[c].spaces) > 1
    BY <2>2, <2>5, <2>6
  <2>7. CASE CleanKey(clean[k], calls[c].key) # calls[c].key
    BY <2>2, <2>5, <2>7
  <2>8. CASE ~ (Cardinality(watch[c].spaces) > 1) /\ CleanKey(clean[k], calls[c].key) = calls[c].key
    <3>1. watch[c].spaces = {Space(k)}
      <4> DEFINE S == watch[c].spaces
                 x == Space(k)
      <4>1. IsFiniteSet(S) /\ x \in S /\ ~ (Cardinality(S) > 1)
        BY <2>4, <2>8
      <4> HIDE DEF S, x
      <4>2. Cardinality(S) \in Nat /\ Cardinality(S) # 0
        BY <4>1, FS_CardinalityType, FS_EmptySet
      <4>3. Cardinality(S) = 1
        BY <4>1, <4>2
      <4>4. PICK y : S = {y}
        BY <4>1, <4>3, FS_Singleton
      <4>5. S = {x}
        BY <4>1, <4>4
      <4> QED BY <4>5 DEF S, x
    <3>2. p = Target(c)
      BY <2>2, <2>8 DEF Target
    <3>3. At(p).val \in watch[c].fresh \/ Lapsed(At(p))
      BY <2>1, <3>1, <3>2 DEF RowInv, FoundOk, Lost
    <3> QED BY <2>2, <2>5, <3>3
  <2> QED BY <2>6, <2>7, <2>8
<1>17. CASE Advance(c)
  <2>1. /\ calls[c].op = "iterate" /\ calls[c].at \in {"start", "ask"} /\ NoneTold
        /\ maps' = Without({entry[2] : entry \in Dead(c)})
        /\ Live(c) = {} => calls'[c].at = "done"
        /\ Live(c) # {} => calls'[c].at = "decode"
    BY <1>17, AdvanceMoves
  <2>2. PICK entry \in Dead(c) : p = entry[2]
    BY <1>8, <2>1
  <2>3. entry \in Ahead(Captured(c), calls[c].walk) \ Live(c) /\ entry \in Entries
    BY DEF Dead, Ahead, After
  <2>4. entry = <<entry[1], p>> /\ entry[1] \in 0 .. size - 1 /\ p \in DOMAIN maps[entry[1]]
        /\ RowOf(entry) = maps[entry[1]][p]
    BY <2>2, <2>3, EntriesTyped DEF EntryTypes, LocalInv, RowOf
  <2>5. entry[1] = i
    BY <2>4 DEF Placed, i
  <2>6. RowOf(entry) = At(p)
    BY <1>3, <2>4, <2>5
  <2>7. Lapsed(At(p))
    <3>1. CASE Lapsed(RowOf(entry))
      BY <2>6, <3>1
    <3>2. CASE ~Lapsed(RowOf(entry))
      <4>1. PICK old \in Ahead(Captured(c), calls[c].walk) :
              Lapsed(RowOf(old)) /\ <<Slot(old[2]), old[2]>> = entry
        BY <2>3, <3>2 DEF Live
      <4>2. old \in Entries
        BY DEF Ahead, After
      <4>3. old = <<old[1], old[2]>> /\ old[1] = Slot(old[2])
        BY <4>2, EntriesTyped DEF Placed, EntryTypes, LocalInv
      <4>4. old = entry
        BY <4>1, <4>3, Zenon
      <4> QED BY <3>2, <4>1, <4>4
    <3> QED BY <3>1, <3>2
  <2>8. Reaches(c, At(p).val)
    <3>1. Has(Captured(c), p)
      BY <2>2, <2>3 DEF Ahead, Has
    <3>2. Captured(c) \in watch[c].spaces /\ Len(Captured(c)) <= 1 /\ Captured(c) \in Words
      BY <2>1, CapturedOk
    <3> QED BY <1>11, <3>1, <3>2
  <2>9. calls'[c] # calls[c]
    BY <2>1
  <2> QED BY <2>7, <2>8, <2>9
<1> QED BY <1>6, <1>12, <1>13, <1>14, <1>15, <1>16, <1>17 DEF Call

\* No call takes away a row of another namespace: what goes is in reach of the
\* call that takes it, and goes by set(), delete(), clear() or expiry, but for
\* rows that came while the call was on its way or a namespace that changed.
THEOREM RowsOwned ==
  ASSUME WholeHashes, OneWord
  PROVE  HSpec => OwnRowsOnly
<1> DEFINE Taken == \A p \in Rows : Lost(p) /\ ~moved /\ sets' = sets =>
       \E c \in Callers :
         /\ calls'[c] # calls[c] /\ Reaches(c, At(p).val)
         /\ \/ calls[c].op \in {"set", "delete", "clear"}
            \/ Lapsed(At(p)) \/ At(p).val \in watch[c].fresh
            \/ Cardinality(watch[c].spaces) > 1
            \/ CleanKey(clean[calls[c].kv], calls[c].key) # calls[c].key
<1>1. LocalInv /\ Placed /\ Watches /\ RowInv /\ [HNext]_hvars => [Taken]_hvars
  <2>1. ASSUME LocalInv, Placed, Watches, RowInv, HNext PROVE Taken
    BY <2>1, Owned
  <2> HIDE DEF Taken
  <2> QED BY <2>1
<1> QED BY <1>1, RowsAlways, PTL DEF HSpec, OwnRowsOnly
=============================================================================
