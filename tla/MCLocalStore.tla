---------------------------- MODULE MCLocalStore ----------------------------
(* Instances of LocalStoreHistory for TLC. *)
EXTENDS LocalStoreHistory, TLC

CONSTANTS c1, c2, k1, k2, a1, a2

SomeNames == {<<>>, <<"a">>, <<"b;">>}
SomeKeys  == {<<"x;">>, <<"x../">>}
SomeStrip == [sql |-> ("x;" :> "x" @@ "b;" :> "b"), path |-> ("x../" :> "x")]
Paths     == {ns \o <<word>> : ns \in SomeNames \cup {<<"b">>}, word \in {"x", "x;", "x../"}}

Each(one, two) == [k \in Keyvs |-> IF k = k1 THEN one ELSE two]

\* Two hash functions: by the key, and everything to the second Map.
ByKey     == [p \in Paths |-> IF p[Len(p)] = "x;" THEN -2 ELSE 1]
SecondMap == [p \in Paths |-> 1]
SomeHashes == <<ByKey, SecondMap>>

\* One caller does this, the other that.
Between(this, that) == [c \in Callers |-> IF c = c1 THEN this ELSE that]

\* The setters of a BigMap; those that tell adapters of namespaces, each Keyv
\* with its own and both with one; and the sanitizer's, under reads and under an
\* iterator, which comes to rows named by uncleaned keys.
SomeScenes == {
  [use |-> Each(a1, a2), name |-> Each(<<"a">>, <<"b;">>), size |-> 2, hash |-> 1,
   ops |-> Between({<<"iterate", k1>>}, {<<"set", k1>>, <<"set", k2>>, <<"delete", k1>>, <<"clear", k2>>}),
   setters |-> {"storeSize", "storeHashFunction"}, sets |-> 1],
  [use |-> Each(a1, a2), name |-> Each(<<"a">>, <<>>), size |-> 1, hash |-> 1,
   ops |-> Between({<<"get", k1>>, <<"iterate", k1>>}, {<<"set", k1>>, <<"set", k2>>}),
   setters |-> {"namespace", "setStore"}, sets |-> 1],
  [use |-> Each(a1, a1), name |-> Each(<<"a">>, <<"b;">>), size |-> 1, hash |-> 1,
   ops |-> Between({<<"get", k1>>}, {<<"set", k2>>, <<"clear", k1>>}), setters |-> {"namespace"}, sets |-> 1],
  [use |-> Each(a1, a2), name |-> Each(<<"a">>, <<"b;">>), size |-> 1, hash |-> 1,
   ops |-> Between({<<"get", k1>>}, {}),
   setters |-> AllSetters \ {"storeSize", "storeHashFunction"}, sets |-> 2],
  [use |-> Each(a1, a2), name |-> Each(<<"a">>, <<"b;">>), size |-> 1, hash |-> 1,
   ops |-> Between({<<"iterate", k1>>}, {<<"set", k1>>}), setters |-> {"updateOptions"}, sets |-> 1]}
=============================================================================
