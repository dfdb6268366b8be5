------------------------------ MODULE TableStart ------------------------------
(***************************************************************************)
(* Adapters that are constructed over one table, one after the other or at *)
(* once, in one process or in several: sqlite, postgres and mysql create   *)
(* it or bring a table of an earlier version up to date, dynamo creates it *)
(* and waits for it.  Each statement runs in a transaction of its own; in  *)
(* between the others run, and a process may crash.                        *)
(*                                                                         *)
(* A row is a namespace and a key; a key is a sequence of words, "a:x" is  *)
(* <<"a", "x">>.  Before there was a column for it, the namespace was the  *)
(* key's first word.                                                       *)
(***************************************************************************)
EXTENDS Naturals, Sequences, FiniteSets

CONSTANTS
  Adapters,
  Scenes,      \* the server, and the database the first start finds
  MaxStarts, MaxCrashes, MaxRefusals   \* bounds: adapters constructed, crashes, and
               \* statements that are refused or whose answer is lost

Stores  == {"sqlite", "postgres", "mysql", "dynamo"}
Columns == {"namespace", "expires"}

ASSUME StartAssumption == {MaxStarts, MaxCrashes, MaxRefusals} \subseteq Nat

VARIABLES
  scene,
  db,      \* the table as the server has it
  at,      \* of each adapter: the statement that is next, "off", "ready" or "failed"
  seen,    \* the columns of text it has found (mysql)
  err,     \* what ended its start early: "none", "refused", "clash", "createRace",
           \* "indexRace"
  starts, crashes, refusals,   \* counted
  clash    \* history: two adapters have been migrating one SQLite table at once

startVars == <<scene, db, at, seen, err, starts, crashes, refusals, clash>>
store     == scene.store

Absent == [status |-> "none",        \* or "creating", or "active"
           columns |-> {},           \* those of Columns it has
           text |-> {},              \* id and namespace, where they are text yet
           byId |-> FALSE,           \* there is a primary key, of the key alone
           unique |-> "none",        \* the unique index of key and namespace: "right",
                                     \* or "reversed"
           expiresIndex |-> FALSE,
           ttl |-> FALSE,            \* rows expire (dynamo)
           rows |-> {},
           renamed |-> FALSE,        \* there is a table "..._migration_old"
           aside |-> {}]             \* and what is in it

\* The tables a start may find: none, one of an earlier version, or today's.
Found(s, d) ==
  /\ d = [Absent EXCEPT !.status = d.status, !.columns = d.columns, !.text = d.text, !.byId = d.byId,
                        !.unique = d.unique, !.expiresIndex = d.expiresIndex, !.ttl = d.ttl,
                        !.rows = d.rows]
  /\ d.status \in {"none", "active"} \cup (IF s = "dynamo" THEN {"creating"} ELSE {})
  /\ d.status = "none" => d = Absent
  /\ d.columns \subseteq Columns /\ {d.byId, d.expiresIndex, d.ttl} \subseteq BOOLEAN
  /\ d.unique \in {"none", "right"} \cup (IF s = "mysql" THEN {"reversed"} ELSE {})
  /\ s # "mysql" => d.text = {}
  /\ s = "sqlite" /\ "namespace" \in d.columns => d.unique = "right" /\ ~d.byId

ASSUME SceneAssumption == \A s \in Scenes : s.store \in Stores /\ Found(s.store, s.db)

\* What the statement that creates the table makes of it.
Created ==
  CASE store = "sqlite"   -> [db EXCEPT !.status = "active", !.columns = Columns, !.unique = "right"]
    [] store = "postgres" -> [db EXCEPT !.status = "active", !.columns = Columns]
    [] store = "mysql"    -> [db EXCEPT !.status = "active", !.columns = Columns,
                                        !.unique = "right", !.expiresIndex = TRUE]
    [] store = "dynamo"   -> [db EXCEPT !.status = "creating"]
IfNotExists == IF db.status = "none" THEN Created ELSE db

UnderWay(a) == at[a] \notin {"off", "ready", "failed"}
Quiet       == \A a \in Adapters : ~UnderWay(a)

-----------------------------------------------------------------------------
\* The start goes on, or a statement throws: postgres and dynamo emit the error,
\* or swallow it, and are ready all the same, over whatever table there is.
Goes(a, place) == at' = [at EXCEPT ![a] = place] /\ UNCHANGED err
Throws(a, why) ==
  /\ at'  = [at EXCEPT ![a] = IF store \in {"postgres", "dynamo"} THEN "ready" ELSE "failed"]
  /\ err' = [err EXCEPT ![a] = why]

\* A statement has been executed; its answer may be lost.
Executed(a, effect, place) ==
  /\ db' = effect
  /\ Goes(a, place) \/ (refusals < MaxRefusals /\ Throws(a, "refused"))
  /\ UNCHANGED <<seen>>

Refused(a) == /\ UnderWay(a) /\ refusals < MaxRefusals
              /\ Throws(a, "refused") /\ UNCHANGED <<db, seen>>

Looks(a, here, place) == at[a] = here /\ Goes(a, place) /\ UNCHANGED <<db, seen>>

\* The statements whose failure is expected when another adapter was faster,
\* by the code of the error, and a variant that forgets one.
Tolerated_NoIndexes ==
  {<<"addNamespace", 1060>>, <<"dropPrimary", 1091>>, <<"createIndex", 1061>>, <<"addExpires", 1060>>}
Tolerated ==
  {<<"addNamespace", 1060>>, <<"dropPrimary", 1091>>, <<"createIndex", 1061>>, <<"addExpires", 1060>>,
   <<"expiresIndex", 1061>>}

\* A statement that changes the table, or fails with that code when it cannot.
Alters(a, here, can, code, effect, place) ==
  /\ at[a] = here
  /\ \/ can /\ Executed(a, effect, place)
     \/ /\ ~can /\ UNCHANGED <<db, seen>>
        /\ IF store = "mysql" /\ <<here, code>> \in Tolerated THEN Goes(a, place)
           ELSE Throws(a, "clash")

-----------------------------------------------------------------------------
(* sqlite *)

\* The migration's statements, each with the next; in a variant the old table
\* goes before its rows are copied.
Follows_DropFirst == [rename |-> "recreate", recreate |-> "drop", drop |-> "copy", copy |-> "index"]
Follows == [rename |-> "recreate", recreate |-> "copy", copy |-> "drop", drop |-> "index"]

\* The row with the namespace split off its key.
Split(row) == IF Len(row.key) > 1 THEN [namespace |-> Head(row.key), key |-> Tail(row.key)]
              ELSE [namespace |-> "", key |-> row.key]

SqliteInspect(a) ==
  Looks(a, "inspect", IF db.status = "none" THEN "create"
                      ELSE IF "namespace" \notin db.columns THEN "rename"
                      ELSE IF "expires" \notin db.columns THEN "addExpires" ELSE "index")

Sqlite(a) ==
  \/ SqliteInspect(a)
  \/ Alters(a, "create", TRUE, 1, IfNotExists, "index")
  \/ Alters(a, "rename", db.status # "none" /\ ~db.renamed, 1,
            [Absent EXCEPT !.renamed = TRUE, !.aside = db.rows], Follows["rename"])
  \/ Alters(a, "recreate", TRUE, 1, IfNotExists, Follows["recreate"])
  \/ Alters(a, "copy", db.status # "none" /\ db.renamed, 1,
            [db EXCEPT !.rows = @ \cup {Split(row) : row \in db.aside}], Follows["copy"])
  \/ Alters(a, "drop", db.renamed, 1, [db EXCEPT !.renamed = FALSE, !.aside = {}], Follows["drop"])
  \/ Alters(a, "addExpires", db.status # "none" /\ "expires" \notin db.columns, 1,
            [db EXCEPT !.columns = @ \cup {"expires"}], "index")
  \/ Alters(a, "index", db.status # "none", 1, [db EXCEPT !.expiresIndex = TRUE], "ready")

-----------------------------------------------------------------------------
(* postgres: IF NOT EXISTS looks first and makes the thing then; when another *)
(* one made it in between, error 23505 ends the start, silently.             *)

IfMissing(a, here, making, there, effect, place, race) ==
  \/ Looks(a, here, IF there THEN place ELSE making)
  \/ at[a] = making /\ ~there /\ Executed(a, effect, place)
  \/ at[a] = making /\ there /\ Throws(a, race) /\ UNCHANGED <<db, seen>>

Postgres(a) ==
  \/ IfMissing(a, "create", "creating", db.status # "none", Created, "addNamespace", "createRace")
  \/ Alters(a, "addNamespace", TRUE, 1, [db EXCEPT !.columns = @ \cup {"namespace"}], "addExpires")
  \/ Alters(a, "addExpires", TRUE, 1, [db EXCEPT !.columns = @ \cup {"expires"}], "dropPrimary")
  \/ Alters(a, "dropPrimary", TRUE, 1, [db EXCEPT !.byId = FALSE], "index")
  \/ IfMissing(a, "index", "indexing", db.unique # "none", [db EXCEPT !.unique = "right"],
               "expiresIndex", "indexRace")
  \/ IfMissing(a, "expiresIndex", "expiresIndexing", db.expiresIndex,
               [db EXCEPT !.expiresIndex = TRUE], "ready", "indexRace")

-----------------------------------------------------------------------------
(* mysql, initializeTable() *)

\* The second look at the columns of id and namespace.
MysqlTypes(a) ==
  /\ at[a] = "types"
  /\ seen' = [seen EXCEPT ![a] = db.text]
  /\ Goes(a, IF db.text = {} THEN "dropPrimary" ELSE "toText")
  /\ UNCHANGED db

MysqlIndex(a) ==
  Looks(a, "showIndex", CASE db.unique = "right"    -> "addExpires"
                          [] db.unique = "reversed" -> "reorder"
                          [] db.unique = "none"     -> "createIndex")

Mysql(a) ==
  \/ Alters(a, "create", TRUE, 1, IfNotExists, "columns")
  \/ Looks(a, "columns", IF "namespace" \in db.columns THEN "types" ELSE "addNamespace")
  \/ Alters(a, "addNamespace", "namespace" \notin db.columns, 1060,
            [db EXCEPT !.columns = @ \cup {"namespace"}], "types")
  \/ MysqlTypes(a)
  \/ Alters(a, "toText", TRUE, 1, [db EXCEPT !.text = @ \cup seen[a]], "toBinary")
  \/ Alters(a, "toBinary", TRUE, 1, [db EXCEPT !.text = @ \ seen[a]], "dropPrimary")
  \/ Alters(a, "dropPrimary", db.byId, 1091, [db EXCEPT !.byId = FALSE], "showIndex")
  \/ MysqlIndex(a)
  \/ Alters(a, "reorder", TRUE, 1, [db EXCEPT !.unique = "right"], "addExpires")
  \/ Alters(a, "createIndex", db.unique = "none", 1061, [db EXCEPT !.unique = "right"], "addExpires")
  \/ Alters(a, "addExpires", "expires" \notin db.columns, 1060,
            [db EXCEPT !.columns = @ \cup {"expires"}], "expiresIndex")
  \/ Alters(a, "expiresIndex", ~db.expiresIndex, 1061, [db EXCEPT !.expiresIndex = TRUE], "ready")

-----------------------------------------------------------------------------
(* dynamo: ensureTable(), createTable() *)

Describe(a, here, missing) ==
  Looks(a, here, CASE db.status = "none"     -> missing
                   [] db.status = "creating" -> "wait"
                   [] db.status = "active"   -> "ready")

\* waitUntilTableExists()
Wait(a, here, place) == db.status = "active" /\ Looks(a, here, place)

\* What follows when another adapter has created the table meanwhile, and a
\* variant that does not wait.
InUse_NoWait == "ttl"
InUse == "waitOwn"

Dynamo(a) ==
  \/ Describe(a, "describe", "describeAgain")
  \/ Describe(a, "describeAgain", "create")
  \/ Wait(a, "wait", "ready")
  \/ at[a] = "create" /\ db.status = "none" /\ Executed(a, Created, "waitOwn")
  \/ db.status # "none" /\ Looks(a, "create", InUse)
  \/ Wait(a, "waitOwn", "ttl")
  \/ at[a] = "ttl" /\ Executed(a, [db EXCEPT !.ttl = TRUE], "ready")

\* The server has made the table.
Activate == /\ db.status = "creating" /\ db' = [db EXCEPT !.status = "active"]
            /\ UNCHANGED <<scene, at, seen, err, starts, crashes, refusals, clash>>

-----------------------------------------------------------------------------
First == [sqlite |-> "inspect", postgres |-> "create", mysql |-> "create", dynamo |-> "describe"]

\* The constructor of an adapter, in a process that has none under way.
Start(a) ==
  /\ starts < MaxStarts /\ ~UnderWay(a)
  /\ starts' = starts + 1
  /\ at'  = [at EXCEPT ![a] = First[store]]
  /\ err' = [err EXCEPT ![a] = "none"]
  /\ UNCHANGED <<scene, db, seen, crashes, refusals, clash>>

Crash(a) ==
  /\ crashes < MaxCrashes /\ UnderWay(a)
  /\ crashes' = crashes + 1
  /\ at' = [at EXCEPT ![a] = "off"]
  /\ UNCHANGED <<scene, db, seen, err, starts, refusals, clash>>

Migrating(place) == place \in DOMAIN Follows \cup {"addExpires"}

Statement(a) ==
  /\ \/ store = "sqlite"   /\ Sqlite(a)
     \/ store = "postgres" /\ Postgres(a)
     \/ store = "mysql"    /\ Mysql(a)
     \/ store = "dynamo"   /\ Dynamo(a)
     \/ Refused(a)
  /\ refusals' = IF err'[a] = "refused" THEN refusals + 1 ELSE refusals
  /\ clash' = (clash \/ (/\ store = "sqlite" /\ Migrating(at'[a])
                         /\ \E b \in Adapters \ {a} : Migrating(at[b])))
  /\ UNCHANGED <<scene, starts, crashes>>

StartInit ==
  /\ scene \in Scenes
  /\ db = scene.db
  /\ at = [a \in Adapters |-> "off"] /\ seen = [a \in Adapters |-> {}]
  /\ err = [a \in Adapters |-> "none"]
  /\ starts = 0 /\ crashes = 0 /\ refusals = 0 /\ clash = FALSE

StartNext == Activate \/ \E a \in Adapters : Start(a) \/ Crash(a) \/ Statement(a)

StartSpec == StartInit /\ [][StartNext]_startVars

-----------------------------------------------------------------------------
\* What the statements of the operations rely on.
Usable == /\ db.status = "active"
          /\ store # "dynamo" =>
               db.columns = Columns /\ db.unique = "right" /\ ~db.byId

\* What a start makes of a table when it comes to its end.
Complete == /\ Usable
            /\ store = "dynamo" => (scene.db.status = "none" => db.ttl)
            /\ store # "dynamo" => db.expiresIndex /\ db.text = {}

\* Nothing has gone wrong but that starts ran at once.
Calm == crashes = 0 /\ refusals = 0

\* An adapter that is ready finds a table its operations can use, from then on
\* and whoever else starts or crashes; and when every start is over, and nothing
\* has gone wrong, the table is complete.  Adapters of postgres and dynamo are
\* ready as well when a statement was refused, one of postgres also when another
\* created the table at the same time: what storage/postgres/src/index.ts:649
\* calls "safe to ignore" is so for the indexes.
StartsComplete ==
  ~clash =>
    /\ \A a \in Adapters : at[a] = "ready" =>
         Usable \/ (store \in {"postgres", "dynamo"} /\ err[a] \in {"refused", "createRace"})
    /\ Calm /\ Quiet /\ (\E a \in Adapters : at[a] = "ready") => Complete

\* A start that fails had a statement refused: that others start at the same
\* time does not matter (storage/mysql/src/index.ts:903: "another adapter already
\* added the column").  Two that migrate one SQLite table at once do fail each
\* other.
StartsIndependent == \A a \in Adapters : at[a] = "failed" /\ ~clash => err[a] = "refused"

\* The row as it is to be in the end.
Owed(row) == IF store = "sqlite" /\ "namespace" \notin scene.db.columns THEN Split(row) ELSE row

\* No migration destroys a row, wherever a process crashes or a statement fails:
\* it is in the table or in the one put aside, and when nothing has gone wrong
\* it ends up in the table (storage/sqlite/README.md:224: it "migrates existing
\* data on connect").  After a crash it may stay aside for good.
RowsKept ==
  ~clash => \A row \in scene.db.rows :
    /\ {row, Owed(row)} \cap db.rows # {} \/ row \in db.aside
    /\ Calm /\ Quiet /\ starts > 0 => Owed(row) \in db.rows
=============================================================================
