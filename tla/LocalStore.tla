----------------------------- MODULE LocalStore -----------------------------
(***************************************************************************)
(* Keyv instances in one process over one Map or BigMap, each through a    *)
(* KeyvMemoryAdapter that puts its namespace before the keys.  Calls are   *)
(* under way while the setters of Keyv, the adapters, the sanitizer and    *)
(* the BigMap run: the setters take effect at once, a call goes on with    *)
(* what it then finds.  KeyvCore is about everything else in a call.       *)
(*                                                                         *)
(* Names are sequences of words: "a:b" is <<"a", "b">>, no namespace is    *)
(* <<>>, and a row's name is that of the namespace followed by the key's.  *)
(***************************************************************************)
EXTENDS BigMap, SequencesExt, FiniteSets

CONSTANTS
  Callers, Keyvs, Adapters,
  Names,      \* namespaces given to Keyv
  Keys,       \* keys given to Keyv
  Patterns,   \* the categories of patterns
  Strip,      \* what each of them makes of the words it changes
  CacheMax,   \* _cacheMax of the sanitizer
  Sizes,      \* numbers of Maps of the BigMap
  Scenes,     \* what is constructed and called: the adapters the Keyvs use, their
              \* namespaces, the number of Maps and the hash function; for each
              \* caller the operations on which Keyvs; the setters, and how
              \* often they are called
  Lifetimes, Never,    \* how long an entry is to live; for ever
  MaxTime, MaxWrites   \* bounds: the clock and the writes

AllOps     == {"set", "get", "delete", "clear", "iterate"}
AllSetters == {"namespace", "setStore", "sanitize", "updateOptions", "storeSize",
               "storeHashFunction"}

ASSUME NamesAssumption == Names \cup Keys \subseteq Seq(STRING)
ASSUME SceneAssumption ==
  \A s \in Scenes :
    /\ s.use \in [Keyvs -> Adapters] /\ s.name \in [Keyvs -> Names]
    /\ s.size \in Sizes /\ s.hash \in DOMAIN Hashes
    /\ s.ops \in [Callers -> SUBSET (AllOps \X Keyvs)]
    /\ s.setters \subseteq AllSetters /\ s.sets \in Nat
ASSUME StripAssumption == /\ DOMAIN Strip = Patterns
                          /\ \A g \in Patterns : Strip[g] \in [DOMAIN Strip[g] -> STRING]
ASSUME SizeAssumption  == Sizes \subseteq Nat \ {0} /\ CacheMax \in Nat \ {0}
ASSUME LifeAssumption  == Lifetimes \subseteq Nat \cup {Never} /\ Never \notin Nat
ASSUME BoundAssumption == MaxTime \in Nat /\ MaxWrites \in Nat

VARIABLES
  scene,    \* which of the scenes
  clock,    \* Date.now()
  writes,   \* the writes begun so far, and the serial number of the last
  puts,     \* the rows put into the Maps so far
  sets,     \* the setters called so far
  use,      \* _store of each Keyv
  name,     \* _namespace of each Keyv
  space,    \* _namespace of each adapter
  clean,    \* _sanitize of each Keyv: whether it changes keys and namespaces,
            \* and the answers for keys it remembers, the oldest first
  calls     \* the call each caller has under way, or its outcome

keyv == <<use, name, space, clean>>
vars == <<scene, clock, writes, puts, sets, bigMap, keyv, calls>>

-----------------------------------------------------------------------------
(* sanitize.ts *)

Off == [keys |-> {}, names |-> {}, cached |-> <<>>]

\* applyPatterns(): each word loses what the patterns match.
Stripped(words, patterns) ==
  [i \in 1 .. Len(words) |->
     IF \E g \in patterns : words[i] \in DOMAIN Strip[g]
     THEN LET g == CHOOSE h \in patterns : words[i] \in DOMAIN Strip[h] IN Strip[g][words[i]]
     ELSE words[i]]

CleanName(san, ns) == Stripped(ns, san.names)

\* cleanKey(): what it answers, and what it remembers then: the answer moves to
\* the young end, and the oldest goes when there are too many.
Remembered(san, key) == {i \in 1 .. Len(san.cached) : san.cached[i].key = key}
CleanKey(san, key) ==
  IF san.keys = {} THEN key
  ELSE IF Remembered(san, key) # {}
       THEN san.cached[CHOOSE i \in Remembered(san, key) : TRUE].answer
  ELSE Stripped(key, san.keys)
Cached(san, key) ==
  LET known  == Remembered(san, key)
      others == IF known = {} THEN san.cached
                ELSE RemoveAt(san.cached, CHOOSE i \in known : TRUE)
      all    == Append(others, [key |-> key, answer |-> CleanKey(san, key)])
  IN  IF san.keys = {} THEN san.cached
      ELSE IF Len(all) > CacheMax THEN Tail(all) ELSE all

\* A variant of UpdateOptions that keeps the remembered answers.
UpdateOptions_KeepsCache(san, keys, names) == [san EXCEPT !.keys = keys, !.names = names]
UpdateOptions(san, keys, names) == [keys |-> keys, names |-> names, cached |-> <<>>]

-----------------------------------------------------------------------------
(* memory.ts *)

\* getKeyPrefix(); the test for a prefix, and what is left without it.
Path(ns, key)    == ns \o key
Within(ns, path) == Len(ns) < Len(path) /\ SubSeq(path, 1, Len(ns)) = ns
KeyOf(ns, path)  == SubSeq(path, Len(ns) + 1, Len(path))

Lapsed(row) == row.e # Never /\ clock > row.e

\* The namespace the store of a Keyv has now.
Space(k) == space[use[k]]

\* clear(): the rows of the namespace, or all; and a variant that takes all.
Cleared_All(ns) == {entry[2] : entry \in Entries}
Cleared(ns)     == {entry[2] : entry \in {e \in Entries : ns = <<>> \/ Within(ns, e[2])}}

\* iterator(): the rows that are still to come; in a variant, of any namespace.
Ahead_All(ns, place) == After(place)
Ahead(ns, place) == {entry \in After(place) : ns = <<>> \/ Within(ns, entry[2])}
RowOf(entry)     == maps[entry[1]][entry[2]]

-----------------------------------------------------------------------------
(* Calls.  "before" is the hook before the operation, "decode" the codec    *)
(* after it, "purge" the hook before the deletion of a row that was found   *)
(* expired, "ask" an iterator whose consumer is busy.                       *)

NoRow  == [val |-> 0, e |-> Never]
NoCall == [op |-> "none", kv |-> CHOOSE k \in Keyvs : TRUE, key |-> <<>>, at |-> "done",
           row |-> NoRow,    \* the row to be written, or the row found
           ns |-> <<>>,      \* an iterator's namespace
           walk |-> Start]   \* and the place it has come to

\* A call begins: the key is cleaned.  A generator does nothing until its
\* consumer asks it for the first row.
Begin(c) ==
  /\ calls[c].at = "done"
  /\ \E call \in scene.ops[c], key \in Keys, life \in Lifetimes :
       LET op    == call[1]
           k     == call[2]
           keyed == op \in {"set", "get", "delete"}
           due   == IF life = Never THEN Never ELSE clock + life
       IN  /\ keyed \/ key = CHOOSE other \in Keys : TRUE
           /\ op = "set" \/ life = CHOOSE l \in Lifetimes : TRUE
           /\ op = "set" => writes < MaxWrites
           /\ writes' = IF op = "set" THEN writes + 1 ELSE writes
           /\ clean' = [clean EXCEPT ![k].cached = IF keyed THEN Cached(clean[k], key) ELSE @]
           /\ calls' = [calls EXCEPT ![c] =
                [NoCall EXCEPT !.op = op, !.kv = k,
                   !.key = IF keyed THEN CleanKey(clean[k], key) ELSE <<>>,
                   !.row = IF op = "set" THEN [val |-> writes + 1, e |-> due] ELSE NoRow,
                   !.at = IF op = "iterate" THEN "start" ELSE "before"]]
  /\ UNCHANGED <<scene, clock, puts, sets, bigMap, use, name, space>>

\* The row a call is about, in the namespace its Keyv's store has now.
Target(c) == Path(Space(calls[c].kv), calls[c].key)

\* set(): a row that was there keeps its place in the Map.
Set(c) ==
  LET row == [val |-> calls[c].row.val, e |-> calls[c].row.e,
              at |-> IF Holds(Target(c)) THEN At(Target(c)).at ELSE puts + 1]
  IN  /\ calls[c].at = "before" /\ calls[c].op = "set"
      /\ maps' = With([p \in {Target(c)} |-> row])
      /\ puts' = puts + 1
      /\ calls' = [calls EXCEPT ![c] = NoCall]
      /\ UNCHANGED <<scene, clock, writes, sets, size, hash, moved, keyv>>

\* get(): the adapter drops a row that has expired.
Get(c) ==
  LET found == Holds(Target(c)) /\ ~Lapsed(At(Target(c)))
  IN  /\ calls[c].at = "before" /\ calls[c].op = "get"
      /\ maps' = IF found THEN maps ELSE Without({Target(c)})
      /\ calls' = [calls EXCEPT ![c].at = IF found THEN "decode" ELSE "done",
                                ![c].row = IF found THEN [val |-> At(Target(c)).val,
                                                          e |-> At(Target(c)).e]
                                           ELSE @]
      /\ UNCHANGED <<scene, clock, writes, puts, sets, size, hash, moved, keyv>>

Delete(c) ==
  /\ calls[c].at = "before" /\ calls[c].op = "delete"
  /\ maps' = Without({Target(c)})
  /\ calls' = [calls EXCEPT ![c] = NoCall]
  /\ UNCHANGED <<scene, clock, writes, puts, sets, size, hash, moved, keyv>>

Clear(c) ==
  /\ calls[c].at = "before" /\ calls[c].op = "clear"
  /\ maps' = Without(Cleared(Space(calls[c].kv)))
  /\ calls' = [calls EXCEPT ![c] = NoCall]
  /\ UNCHANGED <<scene, clock, writes, puts, sets, size, hash, moved, keyv>>

\* Keyv looks at the deadline again when the row is decoded.
Decode(c) ==
  LET dead == Lapsed(calls[c].row)
  IN  /\ calls[c].at = "decode"
      /\ calls' = [calls EXCEPT ![c].at = IF dead THEN "purge"
                                         ELSE IF calls[c].op = "iterate" THEN "ask" ELSE "done",
                                ![c].row = IF dead THEN NoRow ELSE @]
      /\ UNCHANGED <<scene, clock, writes, puts, sets, bigMap, keyv>>

\* deleteMany() of what a read, or delete() of what an iterator, found expired,
\* in the namespace of the moment.
Purge(c) ==
  LET walks == calls[c].op = "iterate"
      k     == calls[c].kv
      key   == IF walks THEN CleanKey(clean[k], calls[c].key) ELSE calls[c].key
  IN  /\ calls[c].at = "purge"
      /\ maps' = Without({Path(Space(k), key)})
      /\ clean' = [clean EXCEPT ![k].cached = IF walks THEN Cached(clean[k], calls[c].key) ELSE @]
      /\ calls' = [calls EXCEPT ![c].at = IF walks THEN "ask" ELSE "done"]
      /\ UNCHANGED <<scene, clock, writes, puts, sets, size, hash, moved, use, name, space>>

\* The namespace an iterator goes by, and a variant that looks it up each time.
Captured_Late(c) == Space(calls[c].kv)
Captured(c)      == IF calls[c].at = "start" THEN Space(calls[c].kv) ELSE calls[c].ns

\* The next row of an iterator: those that have expired are dropped on the way,
\* by name, so that where a name lies in two Maps it is the other one that goes.
Advance(c) ==
  LET ahead == Ahead(Captured(c), calls[c].walk)
      drops(old, entry) == /\ Lapsed(RowOf(old)) /\ Precedes(Place(old), Place(entry))
                           /\ <<Slot(old[2]), old[2]>> = entry
      live  == {entry \in ahead : /\ ~Lapsed(RowOf(entry))
                                  /\ ~\E old \in ahead : drops(old, entry)}
      first == CHOOSE entry \in live : \A other \in live \ {entry} :
                                         Precedes(Place(entry), Place(other))
      dead  == {entry \in ahead \ live : live = {} \/ Precedes(Place(entry), Place(first))}
      row   == RowOf(first)
  IN  /\ calls[c].op = "iterate" /\ calls[c].at \in {"start", "ask"}
      /\ maps' = Without({entry[2] : entry \in dead})
      /\ calls' = [calls EXCEPT ![c] =
           IF live = {} THEN [@ EXCEPT !.at = "done", !.ns = Captured(c)]
           ELSE [@ EXCEPT !.at = "decode", !.ns = Captured(c), !.walk = Place(first),
                          !.key = KeyOf(Captured(c), first[2]),
                          !.row = [val |-> row.val, e |-> row.e]]]
      /\ UNCHANGED <<scene, clock, writes, puts, sets, size, hash, moved, keyv>>

-----------------------------------------------------------------------------
(* Setters *)

Setting(setter) == /\ setter \in scene.setters
                   /\ sets < scene.sets /\ sets' = sets + 1

\* namespace: the Keyv and the adapter it uses are told.
SetNamespace(k, ns) ==
  LET cleaned == CleanName(clean[k], ns)
  IN  /\ Setting("namespace")
      /\ name'  = [name EXCEPT ![k] = cleaned]
      /\ space' = [space EXCEPT ![use[k]] = cleaned]
      /\ UNCHANGED <<scene, clock, writes, puts, bigMap, use, clean, calls>>

\* setStore(): a variant that leaves the adapter's namespace alone.
SetStore_Silent(k, a) ==
  /\ Setting("setStore")
  /\ use' = [use EXCEPT ![k] = a]
  /\ UNCHANGED <<scene, clock, writes, puts, bigMap, name, space, clean, calls>>

\* setStore(), with another memory adapter over the same rows.
SetStore(k, a) ==
  /\ Setting("setStore")
  /\ use'   = [use EXCEPT ![k] = a]
  /\ space' = [space EXCEPT ![a] = name[k]]
  /\ UNCHANGED <<scene, clock, writes, puts, bigMap, name, clean, calls>>

\* sanitize, its setter: another sanitizer.  The adapter is not told what it
\* makes of the namespace.
SetSanitize(k, keys, names) ==
  LET san == UpdateOptions(Off, keys, names)
  IN  /\ Setting("sanitize")
      /\ clean' = [clean EXCEPT ![k] = san]
      /\ name'  = [name EXCEPT ![k] = CleanName(san, @)]
      /\ UNCHANGED <<scene, clock, writes, puts, bigMap, use, space, calls>>

\* updateOptions() of the sanitizer in use.
SetOptions(k, keys, names) ==
  /\ Setting("updateOptions")
  /\ clean' = [clean EXCEPT ![k] = UpdateOptions(@, keys, names)]
  /\ UNCHANGED <<scene, clock, writes, puts, bigMap, use, name, space, calls>>

\* An iterator under way would go on over the Maps that are thrown away; that
\* is left out.
SetStoreSize(n) ==
  /\ Setting("storeSize")
  /\ \A c \in Callers : calls[c].op = "iterate" => calls[c].at \in {"start", "done"}
  /\ Resize(n)
  /\ UNCHANGED <<scene, clock, writes, puts, keyv, calls>>

\* Another hash function: what was stored may not be found any more.
SetStoreHash(h) ==
  /\ Setting("storeHashFunction")
  /\ Rehash(h)
  /\ UNCHANGED <<scene, clock, writes, puts, keyv, calls>>

Tick == /\ clock < MaxTime /\ clock' = clock + 1
        /\ UNCHANGED <<scene, writes, puts, sets, bigMap, keyv, calls>>

-----------------------------------------------------------------------------
\* The Keyvs are constructed one after the other: of those that share an
\* adapter the last one names it.
Init ==
  /\ clock = 0 /\ writes = 0 /\ puts = 0 /\ sets = 0
  /\ scene \in Scenes
  /\ use = scene.use /\ name = scene.name
  /\ size = scene.size /\ hash = scene.hash
  /\ maps = Fresh(size) /\ moved = FALSE
  /\ space \in [Adapters -> Names \cup {<<>>}]
  /\ \A a \in Adapters : IF \E k \in Keyvs : use[k] = a
                          THEN \E k \in Keyvs : use[k] = a /\ space[a] = name[k]
                          ELSE space[a] = <<>>
  /\ clean = [k \in Keyvs |-> Off]
  /\ calls = [c \in Callers |-> NoCall]

Call(c) == \/ Begin(c) \/ Set(c) \/ Get(c) \/ Delete(c) \/ Clear(c)
           \/ Decode(c) \/ Purge(c) \/ Advance(c)

Configure(k) == \/ \E ns \in Names : SetNamespace(k, ns)
                \/ \E a \in Adapters : SetStore(k, a)
                \/ \E keys, names \in SUBSET Patterns : SetSanitize(k, keys, names)
                \/ \E keys, names \in SUBSET Patterns : SetOptions(k, keys, names)

Next == \/ Tick
        \/ \E c \in Callers : Call(c)
        \/ \E k \in Keyvs : Configure(k)
        \/ \E n \in Sizes : SetStoreSize(n)
        \/ \E h \in DOMAIN Hashes : SetStoreHash(h)

Spec == Init /\ [][Next]_vars

-----------------------------------------------------------------------------
\* Every entry of a BigMap lies in the Map that get(), has() and delete() look
\* in for its key, so that none is stored twice and none is out of reach, unless
\* the hash function was replaced over entries (core/bigmap/src/index.ts:239:
\* "The store that holds (or would hold) the key").
Placed == ~moved => \A i \in 0 .. size - 1 : \A k \in DOMAIN maps[i] : i = Slot(k)
=============================================================================
