----------------------------- MODULE MCTableStart -----------------------------
(* Instances of TableStart for TLC: a database without the table, with a table *)
(* of each earlier version, and with the table as it is now.                  *)
EXTENDS TableStart, TLC

CONSTANTS a1, a2, a3

Row(namespace, key) == [namespace |-> namespace, key |-> key]
OldRows == {Row("", <<"a", "x">>), Row("", <<"b", "x">>), Row("", <<"x">>)}
NewRows == {Row("a", <<"x">>), Row("b", <<"x">>)}

Old    == [Absent EXCEPT !.status = "active", !.byId = TRUE, !.rows = OldRows]
Recent == [Absent EXCEPT !.status = "active", !.columns = {"namespace"}, !.unique = "right", !.rows = NewRows]

SomeScenes ==
  {[store |-> s, db |-> Absent] : s \in Stores} \cup
  {[store |-> s, db |-> Old] : s \in {"sqlite", "postgres"}} \cup
  {[store |-> s, db |-> Recent] : s \in {"sqlite", "postgres"}} \cup
  {[store |-> "mysql", db |-> [Old EXCEPT !.text = {"id"}]],
   [store |-> "mysql", db |-> [Recent EXCEPT !.text = {"id", "namespace"}, !.unique = "reversed"]],
   [store |-> "dynamo", db |-> [Absent EXCEPT !.status = "creating"]]}
Symmetry == Permutations(Adapters)
==============================================================================
