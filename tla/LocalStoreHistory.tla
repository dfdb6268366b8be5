-------------------------- MODULE LocalStoreHistory --------------------------
(* LocalStore with history variables, and its properties. *)
EXTENDS LocalStore

CONSTANT Anyone   \* the author of a row, when the code makes no promise

VARIABLES
  watch,   \* what is known of each caller's call
  author,  \* the namespace each write was made in
  apart    \* the Keyvs of which no agreement with their adapter is promised

hvars == <<vars, watch, author, apart>>

Unwatched == [ns |-> <<>>,      \* the namespace of the Keyv when it was called
              spaces |-> {},    \* those its adapter had during the call
              fresh |-> {},     \* the rows put there during the call
              lasting |-> {},   \* the places of the rows an iterator owes
              passed |-> {},    \* and of those it has come to
              twice |-> FALSE]  \* it has come to one twice

Rows == {entry[2] : entry \in Entries}

Begins(c)   == calls[c].at = "done" /\ calls'[c].at # "done"
Advances(c) == calls'[c].walk # calls[c].walk /\ calls'[c].walk # Start
Sets(c)     == calls[c].op = "set" /\ calls[c].at = "before" /\ calls'[c] = NoCall

\* The places of the rows that have not expired, and of those in a namespace.
Alive    == {Place(entry) : entry \in {e \in Entries : ~Lapsed(RowOf(e))}}
Owed(ns) == {Place(entry) : entry \in {e \in Ahead(ns, Start) : ~Lapsed(RowOf(e))}}

Watched(c) ==
  LET k   == calls'[c].kv
      now == space'[use'[k]]
  IN
  IF Begins(c) THEN [Unwatched EXCEPT !.ns = name[k], !.spaces = {now}]
  ELSE IF calls'[c] = NoCall THEN Unwatched
  ELSE IF calls[c].at = "done" THEN watch[c]
  ELSE [watch[c] EXCEPT
          !.spaces  = @ \cup {now},
          !.fresh   = @ \cup {calls[d].row.val : d \in {e \in Callers : Sets(e)}},
          !.lasting = IF moved' THEN {}
                      ELSE (IF calls[c].at = "start" THEN Owed(Captured(c)) ELSE @) \cap Alive',
          !.passed  = IF Advances(c) THEN @ \cup {calls'[c].walk} ELSE @,
          !.twice   = @ \/ (Advances(c) /\ calls'[c].walk \in watch[c].passed)]

\* A new sanitizer has changed the namespace of the Keyv by this step.
Cleaned(k) == name'[k] # name[k] /\ name'[k] = CleanName(clean'[k], name[k]) /\ space' = space

\* A write is the namespace's when Keyv and adapter agreed throughout.
Observe ==
  /\ watch' = [c \in Callers |-> Watched(c)]
  /\ author' = [w \in 1 .. MaxWrites |->
       LET by == {c \in Callers : Sets(c) /\ calls[c].row.val = w}
       IN  IF by = {} THEN author[w]
           ELSE IF \A c \in by : watch[c].spaces = {watch[c].ns}
                THEN watch[CHOOSE c \in by : TRUE].ns
           ELSE Anyone]
  \* The adapter is shared, or the namespace was cleaned and no adapter told.
  /\ apart' = {k \in Keyvs :
       \/ \E j \in Keyvs \ {k} : use'[j] = use'[k]
       \/ Cleaned(k)
       \/ k \in apart /\ name'[k] = name[k] /\ use'[k] = use[k]}

HInit == /\ Init
         /\ watch = [c \in Callers |-> Unwatched]
         /\ author = [w \in 1 .. MaxWrites |-> Anyone]
         /\ apart = {k \in Keyvs : \E j \in Keyvs \ {k} : use[j] = use[k]}

HNext == Next /\ Observe
HSpec == HInit /\ [][HNext]_hvars

-----------------------------------------------------------------------------
\* A Keyv and the adapter it uses agree about the namespace after every setter,
\* unless the adapter is shared with another Keyv or a new sanitizer has changed
\* the namespace since (core/keyv/src/keyv.ts:353: setStore() wires up "namespace
\* propagation").
NamespaceInStep == \A k \in Keyvs \ apart : name[k] = Space(k)

\* What a sanitizer answers from its cache is what the patterns now in use make
\* of the key, and it remembers no key twice and no more than its limit.
SanitizerTrue ==
  \A k \in Keyvs : LET cached == clean[k].cached IN
    /\ Len(cached) <= CacheMax
    /\ \A i \in 1 .. Len(cached) :
         /\ cached[i].answer = Stripped(cached[i].key, clean[k].keys)
         /\ Remembered(clean[k], cached[i].key) = {i}

\* The row was set through a Keyv of a namespace the call's adapter has had, or
\* that adapter has had none.
Reaches(c, val) == <<>> \in watch[c].spaces \/ author[val] \in watch[c].spaces \cup {Anyone}

\* A get answers, and an iterator yields, only what was set in its namespace,
\* whoever else uses the Map (core/keyv/src/keyv.ts:96: namespaces "isolate keys
\* across different Keyv instances sharing the same store").
Isolated ==
  \A c \in Callers :
    calls[c].op \in {"get", "iterate"} /\ calls[c].at \in {"ask", "done"} /\ calls[c].row.val # 0
      => Reaches(c, calls[c].row.val)

\* The row at p is taken away or overwritten by this step.
Lost(p) == Holds(p) /\ (~Holds(p)' \/ At(p)'.val # At(p).val)

\* A call takes away or overwrites no row of another namespace, and a read or an
\* iterator takes only rows that have expired or were put there after it began,
\* unless the namespace was changed under it, or the sanitizer makes another key
\* of the one an iterator has come to.  (A name may lie in two Maps once the hash
\* function was replaced over entries.)
OwnRowsOnly ==
  [][\A p \in Rows : Lost(p) /\ ~moved /\ sets' = sets =>
       \E c \in Callers :
         /\ calls'[c] # calls[c] /\ Reaches(c, At(p).val)
         /\ \/ calls[c].op \in {"set", "delete", "clear"}
            \/ Lapsed(At(p)) \/ At(p).val \in watch[c].fresh
            \/ Cardinality(watch[c].spaces) > 1
            \/ CleanKey(clean[calls[c].kv], calls[c].key) # calls[c].key]_hvars

\* An iterator that has come to its end came to every row of its namespace that
\* was there, unexpired, from its first step to its last, and to none twice,
\* whatever was set, deleted or expired meanwhile and whatever setters ran, but
\* for the hash function's over entries.
IteratorComplete ==
  \A c \in Callers : calls[c].op = "iterate" =>
    /\ calls[c].at = "done" => watch[c].lasting \subseteq watch[c].passed
    /\ ~watch[c].twice
=============================================================================
