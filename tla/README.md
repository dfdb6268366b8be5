# Keyv: a verification development

TLA+ modules of [Keyv](https://github.com/jaredwray/keyv) v6, a key-value cache
for JavaScript with interchangeable storage adapters; TLC configurations that
check them on small instances; and theorems checked by TLAPS. Source paths are
relative to the repository's `src/` copy.

## The system

| Part | State | Operations | What is hard |
|---|---|---|---|
| **Keyv** `core/keyv/src/keyv.ts`, `utils.ts` | the adapter, namespace, default ttl, hooks; nothing about a key but what the adapter stores | get/set/delete/has, their `Many` and `Raw` forms, clear, iterator, disconnect | every operation is a chain of awaits (hooks, codec, adapter); other calls and time pass at each; an adapter may return expired entries, throw, refuse or half-apply |
| **KeyvStats** `stats.ts` | counters, LRU maps, listeners on one emitter | setters, subscribe, unsubscribe, reset | listener bookkeeping over any sequence of setters |
| **Memory adapter** `adapters/memory.ts` | a Map, a namespace | the adapter interface | the Map, its size and the namespace change under an iterator |
| **Bridge** `adapters/bridge.ts`, `capabilities.ts` | what the foreign store can do | the adapter interface | a batch is one request or a loop, depending on the store |
| **Sanitizer** `sanitize.ts` | cache of cleaned keys | cleanKey, cleanNamespace, updateOptions | staleness of the cache |
| **BigMap** `core/bigmap` | an array of Maps, a hash function | the Map interface, changing size and hash | routing after a change |
| **SQLite, PostgreSQL, MySQL** `storage/*/src/index.ts` | one table shared by processes; a connection; a clean-up timer | one or a few SQL statements per operation; creating and migrating the table | atomic is the statement, not the operation or the migration |
| **PostgreSQL pools** `storage/postgres/src/pool.ts` | a process-wide map of pools | getPool, endPool, endAllPools | sharing without a count; end() is awaited |
| **MySQL lifecycle** | pool, promises, pending queries, transition queue, generation | disconnect, reconnect, useTable, resizeKeyColumns | all of them interleave at awaits |
| **etcd** `storage/etcd` | leases | one request per step | leases in seconds, deadlines in milliseconds |
| **Redis, Valkey** `storage/redis`, `storage/valkey` | what the adapter believes of the server; a set of the namespace's keys | one transaction per batch, or per slot of a cluster; clear and iterator walk a cursor | batches that fail in part; two requests where one was meant |
| **memcached** `storage/memcache` | none | one request per key | deadlines as seconds or dates |
| **DynamoDB** `storage/dynamo` | its table | creating it; chunks that may come back in part unprocessed | rows outlive their deadline on the server and are judged and deleted later |
| **Cloudflare KV** `storage/cloudflare-kv` | none | a request or two per key | the same; metadata read apart from the value |
| **MongoDB** `storage/mongo` | a client connection | the adapter interface, on documents or on files | expired documents deleted by `_id`; files are revisions |
| **Compression, encryption, serialization** | none | encode, decode | they may throw |

A call to Keyv runs its hooks and codec, then calls the adapter (a promise), and
on the way back checks expiry, deletes what it found expired, and emits telemetry
events that KeyvStats counts. Two Keyv instances, in one process or in two, meet
only in the adapter's storage.

What makes each part correct:

- *Keyv*: a read returns what was in the cache at one instant of the call and
  never an expired entry; a live entry goes only on request; a miss means there
  was nothing; telemetry says what happened.
- *SQL adapters*: the same against other processes; a `true` is the truth; an
  iterator skips nothing.
- *Starting*: an adapter that is ready has the table it needs, whoever starts, crashes or
  migrates beside it, and no migration loses a row.
- *Namespaces*: Keyv and its adapter agree on the namespace through every setter, and no call
  reads, yields or deletes another's rows.
- *BigMap, sanitizer*: entries are where they are looked for; a cached answer is today's answer.
- *Pools and lifecycles*: no pool is closed under its users, none is leaked, and
  disconnect() and every transition settle.
- *etcd*: no lease cuts a deadline short; a `true` is the truth.
- *Redis and the other remote stores*: the same; clear() leaves nothing of its namespace and
  takes nothing of another; iterators and reads miss nothing that stayed; what a read deletes
  had expired.
- *Statistics*: every event is counted once, by whom it should be; maps keep the
  most recent keys.

## Modules

`X.tla` is a component; `XHistory.tla` adds history variables and the properties
that need them; `MCX.tla` gives TLC its instances; `XProofs.tla` holds proofs.

### KeyvCore, KeyvCoreHistory, CachePromise

Several calls run on one Keyv instance over one adapter. `pc[c]` is the await at
which call `c` is suspended; a step is the code from one await to the next. `Begin`
is the code up to the first hook; `ReadStore`, `WriteStore`, `RemoveStore` are the
instant at which the adapter acts (with `AdapterGet`, `StoreAfterGet`, ... saying
what the memory adapter does), the `...Fails` actions its failures; `Encode`,
`Decode` and `DecodeThrows` the codec; `Purge` is the `deleteMany` a read awaits for
what it found expired; `Finish` the rest of the call with its telemetry. `clock` is
`Date.now()`. A value is the serial number of the write that made it.

`CachePromise` is what a cache owes its callers whatever its storage does: an entry
may vanish at any time; a value never comes back; all a read returns was live at
one instant. `KeepsPromise` is the refinement, with `content` mapped to the entries
that are live and `held` to what a read has looked up.

Left out: a stored `undefined`, and hooks that change the data. Namespaces, key sanitizing,
`setStore` and the iterator are `LocalStore`'s.

### BigMap, LocalStore, LocalStoreHistory

`BigMap` is the operators of `core/bigmap`: `Slot` routes a key, `With` and `Without` change
entries, `After` is what an iterator has yet to come to, `Resize` and `Rehash` are the two
setters. `LocalStore` puts Keyvs and memory adapters on one of it. A call waits at `before` (the
hook before it), `decode` (the codec), `purge` (before the deletion of what an iterator found
expired) and `ask` (an iterator's consumer is busy); `SetNamespace`, `SetStore`, `SetSanitize`,
`SetOptions`, `SetStoreSize` and `SetStoreHash` run between any two. `space` is the
namespace of each adapter, `name` that of each Keyv, `clean` each Keyv's sanitizer with its
cache. Names are sequences of words, so that a prefix is a prefix and a pattern changes words.

The history keeps, for each call, the namespaces its adapter had and the rows an iterator owes;
for each row the namespace it was set in; and `apart`, the Keyvs that cannot agree with
their adapter: another Keyv shares it, or the name their adapter was given is not what the sanitizer
they have now would make of it.

Left out: namespaces of which one begins another ("a", "a:b"); a word that is cleaned away
altogether; and `storeSize` changed while an iterator is on its way.

### SqlStore, SqlStoreHistory

The statements of the three SQL adapters against one table, each statement atomic,
each operation a sequence of them. `Select`/`Purge` are the SELECT of a read and the
DELETE of what it found expired; `GuardedDelete` says whether that DELETE repeats the
expiry condition (mysql does, sqlite and postgres do not). `Upsert`, `Remove`, `Fetch`
are writes, deletes and pages of the iterator, in batches of the sizes the code
chooses (sqlite's parameter limit). A failed query may have been applied
(`LostAnswers`). postgres's `deleteMany`, whose deletes run side by side, is taken to
stop at the first failure like the others.

### TableStart

Adapters of one kind that are constructed over one table. `at` is the statement an adapter
comes to next; `Sqlite`, `Postgres`, `Mysql` and `Dynamo` are the statements of the constructor,
of `init()`, of `initializeTable()` and of `ensureTable()` and `createTable()`, in their order and
with the codes they tolerate. `db` is the table as the server has it: its columns, keys and
indexes, its rows, and for sqlite the table put aside during the migration. `Found` says which
tables a start may find: none, or one with some of today's columns, keys and indexes, which is more
than the earlier versions left behind. `Crash` ends a
process between two statements, `Refused` and `Executed` fail one, before or after its effect.
postgres's `IF NOT EXISTS` is two steps, which is what makes error 23505 possible. Lengths of
columns, the limits on indexes and the schema option are left out, as are old rows whose key
begins with ":".

### PgPool

The pool manager and the adapters holding pools. `Construct`, `Switch` (the uri and ssl
setters), `Query`, `Disconnect`/`Disconnected` (the two halves of `endPool` around its
await), `EndAll`/`EndedAll`, one at a time. `End` and `Answer` are pg's: end() waits for
the queries in flight, throws when called twice, and makes later queries fail. `overlap`
remembers that endAllPools() met a pool that was being ended, or that a pool was made while
it waited: after that the map may be wrong for good, and the properties of the map say
nothing.

### MysqlLifecycle

One adapter and its pools. A query waits for `_connected`, then runs; `_pendingQueries`
is the set of those not settled. `Request` queues a transition; `Open`, `Prepare`,
`Proceed`, `Initialize`, `Switch`, `ChangeTable`, `Drained` are its segments between
awaits, `Refuse`, `InitializeFails`, `Interrupt` its exits. `Disconnect` and `Shutdown`
are the two sides of the await in disconnect().

### EtcdAdapter

Each call works on a set of keys, each key with requests of its own. `Write` computes the
lease's seconds at once; `GrantOwn`/`GrantShared` are `Lease.grant()`, for a lease per
write or the adapter's single one; `Put` attaches the entry. `Read` and `Remove` are a get
and the delete it sends for an expired entry. `Revoke` is the server's, at any time after
a lease ran out. `Second` is the number of clock ticks in a second, so that rounding
matters. disconnect() changes nothing in this client.

### RemoteServer; RedisStore, ValkeyStore, MemcacheStore, DynamoStore, CloudflareStore, MongoStore, GridFsStore, BridgeStore; RemoteStores

`RemoteServer` is what these adapters have in common: calls made of requests, each naming
a set of rows, and a server that carries them out one at a time, may refuse one, and may carry
one out and lose the answer. `calls[c]` is the call of a caller: `at` says how far each row has
come (`sent` is a request under way, `held` an answer under way, `purge` the DELETE of a
row found expired), `ahead` is what a listing has yet to pass. A row carries the deadline stored
with the value (`e`) and the time at which the server drops it by itself (`dies`): at once on redis,
valkey and memcached, some time later (`Reap`) on DynamoDB, KV and MongoDB. A call is over when
every request it sent is settled, those that go on after its answer was an error included.

Each adapter's module extends it with what the adapter sends and makes of the answers:

- `RedisStore`: `RedisSet`, `RedisInfo` (the PXAT detection), `RedisWrite`, `RedisFetch`,
  `RedisRemove`, `RedisPage` (a SCAN of clear() or of the iterator); one request per batch,
  per slot on a cluster.
- `ValkeyStore`: the same commands with MULTI, and `index`, the set of the namespace that
  `useSets` keeps; `ValkeyUnindex` is the SREM of clear(), which runs beside its UNLINK.
- `MemcacheStore`: `Exptime`, seconds up to a month and a date above it.
- `DynamoStore`: `DynamoWrite` with rows left unprocessed, chunk by chunk; `DynamoFetch`
  asks again for what was left; `DynamoJudge` checks the deadlines once all rows are there.
- `CloudflareStore`: `CloudflareFetch`, `CloudflareMeta` (a second request of the REST
  client), `CloudflareJudge`, `CloudflarePurge`, `CloudflarePage`.
- `MongoStore`: `MongoFetch` and `MongoJudge`, which get() does by the time of the answer and
  getMany() and the iterator by the time they began; `MongoPurge` deletes by `_id`, so that a
  document put there anew is spared. The standard mode, without GridFS.
- `GridFsStore`: KeyvMongo with `useGridFS`. A row is a file, and the rows are the files, or
  revisions, that one key may have: `GridSet` makes another. `GridFind` takes one of the files it
  finds; `GridJudge`, `GridTouch` and `GridLoad` are get() going on with it; `GridList` is the query of
  clear(), clearExpired() and clearUnusedFor(), `GridPurge` a `bucket.delete()`, which throws when the
  file is gone.
- `BridgeStore`: KeyvBridgeAdapter over three foreign stores: one with every method, one that is
  like a Map, and one with the least it accepts. `Detected` and `Resolved` are the look at the
  methods that decides for the bridge; what the store lacks, `Loop` makes of single requests
  (`BridgeTurn`). A key that is twice in one batch is left out.

`RemoteStores` puts them under one `Next`: `store` says which adapter a behaviour is about.
`steady` holds, for each read, clear() or iterator, the rows that were there when it began and that
nobody touched since. The servers are taken to be consistent, which Cloudflare KV does
not promise.

### KeyvStats, KeyvStatsHistory

`listeners` counts the listener sets on each Keyv; `Emit` is an event as every listener
counts it; `SetStats` is Keyv's setter; the other actions are the methods of the class.
The history keeps the keys counted, by the time they were counted last.

## Runs

| Run | Shows | Bounds |
|---|---|---|
| `keyv_expiry` | `NoExpiredAnswer`, `KeepsPromise`, `ReadsTakeOnlyNewcomers` under races over an adapter that returns expired entries and fails | 2 callers, 1 key, clock to 2, 2 writes |
| `keyv_calls` | `TypeOk`, `TelemetryTruthful`, `LiveEntriesKept`, `MissesJustified` with every operation and a failing adapter | 1 caller, batches of 2 keys, clock to 2, 2 writes |
| `sql_rows` | `LiveRowsKept`, `DeletesConserved`, `WritesTruthful`, `MissesJustified`, `IteratorComplete`, with failures and lost answers between batches and pages | 2 clients, 2 keys, batches and pages of 1, clock to 1, 2 writes |
| `pg_pool_sharing` | `NoOpenOrphan`, `DisconnectCloses`, `DisconnectSettles` with uri changes and endAllPools() | 2 adapters, 2 configurations, 3 pools |
| `mysql_safety` | `PoolsOutliveQueries`, `NoPoolLeaks`, `TableReady`, `DisconnectSticks`, `AllSettle` | 2 queries, 2 transitions, 2 disconnects, 4 pools |
| `etcd_leases` | `LeaseOutlivesDeadline`, `SetTruthful` with failures | 2 callers, 1 key, 2 leases, 2 ticks to the second |
| `remote_stores` | `AnswersTrue`, `DeadlinesKept`, `ClearComplete`, `OthersKept`, `IteratorComplete`, `MissesJustified`, `CleanUpTakesStale` for fourteen set-ups of the six adapters and the bridge, with failures | a reader and a writer, 2 keys and 1 row of another namespace, clock 1 to 2, 1 or 2 writes, 2 ticks to the second, 1 second to the month, DynamoDB batches of 1 |
| `stats_listeners` | `ListenersAccounted`, `MapIsLru` | 2 Keyvs, 2 objects, 3 keys, maxEntries 0 or 2, 4 events |
| `local_store` | `Placed`, `NamespaceInStep`, `SanitizerTrue`, `Isolated`, `IteratorComplete`, `OwnRowsOnly` while setters run between awaits | 2 callers, 2 Keyvs, 2 adapters, 2 keys that are cleaned to one, 1 or 2 Maps; five scenes, each with its operations and 1 or 2 setter calls |
| `table_starts` | `StartsComplete`, `StartsIndependent`, `RowsKept` for four servers and the tables of earlier versions | 3 adapters, 4 starts, 1 crash, 1 refused or unanswered statement |

Why these are enough: each race needs two actors, one entry, and one change of the clock
between its write and its deadline; a third write or tick repeats a situation already
reached. Batches of one and pages of one make every boundary between batches occur
with the fewest keys. Two transitions and two disconnects give every order of reconnect,
useTable and disconnect around one another. In `stats_listeners` three keys over a map of
two force evictions, and four events let a key return. In `remote_stores` the foreign row lies
between the two keys in the server's order, so that listings have a page with no key; reads and
deletes name both keys, writes one or both; deadlines of 1 and 3 ticks are rounded in both ways
and reach beyond the "month". A second write is allowed where it meets something of the first: a cached answer, an index,
an expired row. Only there does a caller either read or write (`MixedKinds`):
every pair of operations whose order matters is one of each, but for two writers, whose requests the
server takes in some order anyway. The scenes of `local_store` keep apart what does not meet:
setters of the map, of namespaces over separate adapters and over a shared one, of the
sanitizer, with two calls, so that a cache filled under one option is asked under
the next, and of a sanitizer under an iterator that meets an expired row. In `table_starts` a third adapter meets a table that one is migrating and another has
given up, and a fourth start follows the crash.

Runs that are expected to fail, each on what a doc, a comment or a test says:

| Run | What happens |
|---|---|
| `pg_pool_shared` | disconnect() closes the pool another adapter uses |
| `etcd_set_many` | `true` for a write that failed |

### Behaviours the models show and no run keeps

Each of these can be seen by changing a constant or dropping a condition of a property.

- Keyv (`keyv_calls` with two callers, `LiveEntriesKept`): a read deletes by key what it saw expired, and the
  hooks of deleteMany run in between; an entry another caller stored meanwhile is lost.
  `ReadsTakeOnlyNewcomers` says how far this goes. etcd, DynamoDB and Cloudflare KV do the same.
- sqlite, postgres (`GuardedDelete = FALSE`): `LiveRowsKept` fails, a read's DELETE takes a
  row refreshed since its SELECT.
- `keyv_calls` with two callers, `MissesJustified`: a get can miss a key that was live throughout, when
  the entry it read is replaced before it lapses.
- setMany emits stat:set for entries the adapter refused (`TelemetryTruthful` leaves it out).
- sqlite: two processes that migrate one table at once fail each other, or the second renames the
  table the first has just made and splits its keys once more, and rows lose their namespace
  (`clash` excludes this); after a crash in the migration the old rows stay in
  `..._migration_old` for good, for the next start finds a table that is up to date.
- postgres: an adapter is ready whatever statement of init() was refused; error 23505 is ignored
  when it comes from CREATE TABLE too, and that adapter may write before there is a unique index.
  dynamo is ready as well when the table could not be made.
- namespaces: an adapter two Keyvs share has the namespace set last, on either; replacing the
  sanitizer, or its options, leaves the namespace cleaned by the old one (`apart` excludes both).
- iterator: it deletes an expired row with `delete()`, which cleans the stored key again; where the
  sanitizer changes that key (it was stored under other options), another row goes, live as it
  may be, and the expired one stays (`OwnRowsOnly` excludes it).
  setStore() leaves the error listener on the old store.
- BigMap: a hash function replaced over entries leaves them where they were (`moved` excludes it).
- bridge: a deadline that comes while ttlFromExpires() reads the clock again becomes no deadline.
- postgres: after the uri setter disconnect() looks for another pool than its own
  (`DisconnectCloses` excludes this); endAllPools() drops a pool made while it waits.
- mysql: disconnect(), reconnect(), disconnect() before the reconnect ran leaves the adapter
  connected, for the second disconnect() counts no generation (`DisconnectSticks` excludes it).
- etcd: after the ttl setter gave an adapter its first ttl, set() stores nothing and answers
  true (`LaterTtl` with a positive ttl over `DefaultTtl = 0`, `SetTruthful`); entries of the
  default ttl share one lease and are reaped with it.
- redis: an error of INFO counts as "PXAT is understood", for good (the adapter's README says so):
  on a server before 6.2 every write with a deadline then fails. The relative PX that older
  servers get counts from the arrival of the request and so lengthens a life, never shortens it.
- valkey: clear() without sets lists `namespace:a*`, with no separator behind the name, and takes
  the rows of a namespace "ab" (`OthersKept` excludes it); with sets, a set() between the UNLINK and
  the SREM of clear() leaves a row outside the set, which no later clear() finds (`ClearComplete`
  asks for rows the set knows).
- dynamo: clear() deletes one page of the table (`ClearComplete` excludes it); when a chunk of
  setMany throws, chunks stored before are reported as not written.
- Cloudflare KV: two deleters of a row may both be told they deleted it (`AnswersTrue`
  excludes it); the native ttl is rounded down and ends up to a second early (`DeadlinesKept` allows
  it); over REST a value and the metadata of its successor may be read together.
- mongo with GridFS: a set() leaves the older files of its key, get() reads whichever findOne()
  yields (an expired one hides a live one), and delete() takes one of them, so that an older value
  may come back. Two readers that meet one expired file both delete it: the second get() rejects,
  as do clear() and the sweeps when a file they found is gone, and the iterator. clearUnusedFor()
  takes a file that was accessed after its query. A download that fails reads as `undefined`.
- memcached: clear() flushes the server, whatever the namespace, as its documentation says.
- statistics: a disabled object assigned to `keyv.stats` counts; a map above a lowered
  maxEntries stays above it.

### Fairness

- `PgPool!FairSpec`: queries are answered and promise continuations run.
- `MysqlLifecycle!FairSpec`: statements are answered, one way or the other, and
  continuations run. Nobody is obliged to start a query or to call disconnect().

Deadlock is not checked where a bounded clock or a bounded number of calls ends the
behaviour.

## Proofs

`KeyvCoreProofs` proves, for any sets of callers and keys, any ttls, and any bounds:

- `TypeCorrect`: `Spec => []TypeOk`.
- `ReadsNeverExpired`: with history, `NoExpiredAnswer`. The property is not inductive: the
  strengthening `TimelyInv` adds that calls began no later than now and that a read holds
  only keys it asked for.
- `Refinement`: `KeyvCore` implements `CachePromise` if Keyv or the adapter checks expiry.
  `FreshInv` says that every value in the store is a value of the past and that serial
  numbers of pending writes are unused, which is why no value comes back; `HeldStep`,
  `LookupStep` and `ChangeStep` map each step to a look-up, a change or a stutter.

- `TelemetryTellsTrue` (`TelemetryTruthful`): `ReportInv` ties what a call is going to report to
  what it holds and to what the adapter has answered it, await by await.
- `OnlyNewcomersTaken` (`ReadsTakeOnlyNewcomers`), an action property: by `FreshInv`, `SpentInv` and
  `WitnessInv`, whatever a read holds and found expired was seen by it, and what is deleted in its
  place came later.
- `SoleMissesJustified` (`MissesJustified`) and `SoleEntriesKept` (`LiveEntriesKept`), for a single
  caller (`Clients = {caller}`). The hypothesis is needed: with a second caller an entry may be read,
  overwritten, and lapse before it is decoded, which is a miss of a key that was live throughout; and
  a read deletes by key what another caller has just stored. `SoleInv` says that what a lone caller
  holds is what the store has.

They rest on the named assumptions of `KeyvCore` and that hypothesis alone.

`LocalStoreProofs` is about any hash functions, keys, Keyvs, sanitizers, scenes and numbers of Maps:

- `AlwaysPlaced` (`Placed`), inductive by itself: `WithPlaced`, `WithoutPlaced`, `FreshPlaced` and
  `RehashPlaced` say so of the four ways in which the Maps change, and every action is one of them.
- `AnswersRemembered` (`SanitizerTrue`): what a sanitizer has cached is what it would answer now.
- `AdaptersInStep` (`NamespaceInStep`), unless a Keyv is `apart` from its adapter.
- `IteratorsComplete` (`IteratorComplete`): the row an iterator owes is yielded, or in the page it
  holds, or ahead of it; setters of size and hash are the hard case. It asks that hashes are whole
  numbers (`WholeHashes`): under any other value a row may be in no Map.
- `NamespacesIsolated` and `RowsOwned` (`Isolated`, `OwnRowsOnly`), which relate the rows a call was
  shown to the namespaces its adapter had. `RowsOwned` asks as well that a name is one word
  (`OneWord`): of "a" and "a:b" the first is a prefix of the second.

`Least` is what replaces induction over numbers here: a set of numbers with a member has a least
one, from the library's well-foundedness of the naturals.

`RemoteProofs` proves all seven properties of `RemoteStores`, for the seven adapters and the bridge
at once, any callers, keys, rows, clocks and batches: `AnswersAreTrue`, `DeadlinesAreKept`,
`OthersAreKept`, `ClearsComplete`, `IteratorsMissNothing`, `ReadsMissNothing`, and the action property
`CleanUpsTakeStale`. They follow from one inductive invariant, `RemoteInv` (`RemoteSteady`), a
conjunction of parts that need each other: a row's two deadlines agree as its adapter would have them
(`DeadlineOk`); rows are where their namespace has them (`SpaceOk`); each call has the shape its
operation gives it (`ShapeOk`); what it has answered is what the server did (`AnswerOk`); a caller has
one write under way (`OneWrite`); and what is owed to a read, a clear() or a listing is still held, sent
or ahead (`ReadOk`, `ClearOk`). Every action is the start of a call or a step of one:
the `Starting` and `Going` lemmas treat the caller that acts, `FrameOk` the others, whose
calls may only find that a row was touched, and `IndexMoves` the set that valkey keeps beside the rows.

`KeyvStatsProofs` proves, for any Keyvs and objects:

- `EventsCountedOnce` (`ListenersAccounted`): the invariant adds the types of the wiring alone;
  `UnwiredIsSilent` and `RewiredIsOnce` say what unsubscribe() and subscribe() do to the listeners of
  one object, and the setters are made of those.
- `MapsAreLru` (`MapIsLru`), for any limits: the names of a map are the end of the list of all names by
  the time they were counted last, and that list loses the name counted and gains it at its end, as the
  map does (`LatestEnd`, `TailEnd`). It rests on `ListenersAccounted`: with an event counted twice, a
  key would stand for two.

`SqlStoreProofs` proves five properties of the statements over a shared table, for any callers,
keys and batches, whichever adapter's constants are given:

- `WritesAnswerTruly` (`WritesTruthful`), from `Recorded` (a row is one that was written and said
  so in its call) and `Writing` (what a write has answered so far, batch by batch).
- `CleanUpSparesLiveRows` (`LiveRowsKept`), under the hypothesis `GuardedDelete`: mysql's DELETE.
  Without it the property fails, see above.
- `MissesAreJustified` (`MissesJustified`), from `Reading`: whatever a read no longer asks for it
  holds, or there was a moment in the call without it.
- `DeletesCreditOnce` (`DeletesConserved`): `Conserved` counts rows stored, rows there and deletes
  that took credit, across all callers.
- `IteratorsComplete` (`IteratorComplete`), from `Paging`: a row that stayed is yielded, in the page at
  hand, or behind it. Pages are ranges of keys (`PageHasNoGap`, `ShortPageIsLast`). The hypothesis
  `ErrorsSurface` is needed: on sqlite and postgres a page whose query fails ends the iterator as if
  there were no more rows.

It also proves the three properties of `TableStart`, for any adapters, any bounds on starts, crashes and
refused statements, and any table of an earlier version (`SceneAssumption`, by `Found`):

- `StartsAreIndependent` (`StartsIndependent`), `StartsKeepRows` (`RowsKept`) and `StartsAreComplete`
  (`StartsComplete`), with no hypothesis. Each server has an invariant of its own, which says what the
  table has when an adapter comes to a statement (`SqliteAt`, `PostgresAt`, `MysqlAt`, `DynamoAt`):
  a statement is reached by several paths, and others change the table in between. For `Complete` one
  needs besides that whatever the table lacks somebody is still going to see to (`PostgresGoal`,
  `MysqlText`), and for the rows where each one is (`There`). On SQLite all of it holds until two
  migrate at once (`OneMigrates`), which is where `clash` is in the properties. The `Means` lemmas say
  what a statement may be, given the table; the `Step` lemmas that each keeps the invariant.

`PgPoolProofs` proves `NoPoolIsOrphaned` (`NoOpenOrphan`) and `DisconnectedIsClosed`
(`DisconnectCloses`) for any adapters, pools and configurations
(of which `ConfigAssumption` wants one). Its invariant has two storeys: that
adapters hold pools that exist (`Linked`) always, and, until `overlap`, that open pools are in the map
(`Kept`), that pools a call awaits are ended (`Awaited`, `Swept`), and what a disconnect() has
achieved (`Closing`).

`EtcdProofs` proves `LeasesReachDeadlines` (`LeaseOutlivesDeadline`) for any keys, lives, clock and
length of a second. `CeilReaches` is the rounding; `Asking`, `Holding` and `Hanging` carry the
deadline through the three places where it is at stake: the seconds a call asks for, the lease it was
granted, and the entry on it. Grants only come later than the request was computed, hence never end early.
`SetsAnswerTruly` (`SetTruthful`) follows from what each request may answer (`Honest`). It asks that the
ttl setter does not give an adapter built without a ttl its first (`LeaseMade`), see above.

`MysqlProofs` proves the four safety properties of the lifecycle: `QueriesKeepTheirPools`,
`PoolsAreClosed`, `TablesAreReady`, `DisconnectPrevails`, for any number of queries and pools. None
is inductive alone; together they need who may close which pool and when: the adapter's own pool is
open while it is connected (`Own`), a pool being drained serves none but those waited for (`Shut`,
`Served`), queued transitions are of a later generation (`Queued`, `Left`), and the pool a transition
opened is still its own to close (`Opened`, `Working`).

These rest on the named assumptions of their modules alone, but for the hypotheses named above
(`GuardedDelete`, `ErrorsSurface`, `WholeHashes`, `OneWord`, `LeaseMade`, the single caller). Only
model-checked are the liveness properties `DisconnectSettles` and `AllSettle`, which are beyond the
prover.

## Not modelled

Of the remote adapters, connecting and disconnecting, valkey on a cluster and the sets of its
versions before 6; one redis cluster stands for all, each key in a slot of its own and one scan
for its masters; the widths of columns and encodings of keys and values, the SQL drivers, the
serializer, the codecs, and the website and scripts. `PROJECT.json` lists each with its reason.
Type invariants other than KeyvCore's are not among the checked properties.

## Plan

1. `RedisConnection`: connecting with a timeout, destroying and replacing the client,
   and the PXAT answer that survives it.
2. The clean-up timers of sqlite and postgres after disconnect().
