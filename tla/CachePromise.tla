---------------------------- MODULE CachePromise ----------------------------
(***************************************************************************)
(* What a cache promises whoever calls it, whatever the adapter: entries   *)
(* may vanish at any moment (they expire, are deleted, are evicted), but   *)
(*   - a value that was overwritten or has vanished never comes back;      *)
(*   - what a read returns was live in the cache at one single instant of  *)
(*     the call, all its keys at the same instant.                         *)
(***************************************************************************)
EXTENDS Integers

CONSTANTS Clients, Keys, None

VARIABLES
  content,  \* the live value of each key, or None
  past,     \* every pair <<key, value>> content ever held
  held      \* what each read has looked up so far, per key

promiseVars == <<content, past, held>>

Value == Nat
Cell  == Value \cup {None}

Empty == [k \in Keys |-> None]
Pairs(f) == {<<k, f[k]>> : k \in {key \in Keys : f[key] # None}}

Init ==
  /\ content = Empty
  /\ past    = {}
  /\ held    = [c \in Clients |-> Empty]

\* Every key keeps its value, loses it, or takes a value it never had; reads
\* may give up what they hold (it expired meanwhile, or the call is over).
Change ==
  /\ content' \in [Keys -> Cell]
  /\ \A k \in Keys : \/ content'[k] \in {content[k], None}
                     \/ <<k, content'[k]>> \notin past
  /\ past' = past \cup Pairs(content')
  /\ held' \in [Clients -> [Keys -> Cell]]
  /\ \A c \in Clients, k \in Keys : held'[c][k] \in {held[c][k], None}

\* A read looks its keys up, all at once; it may overlook any of them.
Lookup(c) ==
  /\ \E ks \in SUBSET Keys :
       held' = [held EXCEPT ![c] =
                  [k \in Keys |-> IF k \in ks THEN content[k] ELSE None]]
  /\ UNCHANGED <<content, past>>

Next == Change \/ \E c \in Clients : Lookup(c)

Spec == Init /\ [][Next]_promiseVars
=============================================================================
