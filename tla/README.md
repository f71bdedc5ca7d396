# A verification project for soroban-lens

soroban-lens indexes the contract events of the Stellar network: `lens index`
polls an RPC node for events and stores them in SQLite or PostgreSQL, `lens api`
serves them over REST, GraphQL, server-sent events and webhooks, and a web
explorer reads that API. This directory holds TLA+ models of the parts whose
correctness depends on the order in which things happen, the TLC configurations
that check them on small instances, and TLAPS proofs, for every value of the
constants, of most of the safety properties.

`PROJECT.json` lists components, runs, mutants, the map from definitions to
source lines, findings, hazards and theorems. Paths below are relative to
`packages/` unless they start with another top-level directory.

Run everything from this directory:

    tlc -config Ingest.cfg Ingest             # a .cfg and the module it is named after,
    tlc -config IndexerRun_gap.cfg IndexerRun # up to an underscore
    tlapm IngestProofs.tla                    # and the other modules named ...Proofs

## 1. Inventory

| Component | Source | State it keeps | Operations | Modelled by |
|---|---|---|---|---|
| Event poller | `ingest/src/poller.ts`, `retention.ts` | stream position, `RecentIds`, page in hand | resolve start, fetch, deliver, save, recover, sleep | `Ingest`, `Failover` |
| RPC client, retries | `ingest/src/rpc-client.ts`, `retry.ts`, `clock-skew.ts` | none across calls | `getEvents`, `getEventsChunked`, `health`, backoff | `RpcClient`; outcomes in `Ingest`, `Failover` |
| RPC provider pool | `ingest/src/rpc-pool.ts` | active provider, error count, last probe | `getEvents`, `#request`, return to primary | `Failover` |
| Indexer pipeline | `cli/src/indexer.ts` | counters, timers | `runIndexer`, size prune, archive backfill | `IndexerRun`, `Ingest`, `SizePrune` |
| Archive source | `ingest/src/archive.ts` | none | one ranged request | `IndexerRun` |
| File cursor store, ingest command line | `ingest/src/cursor.ts`, `bin.ts` | one file per stream, a page in hand | load, save by rename, put out, signals | `IngestCli` |
| SQLite store | `store/src/sqlite-store.ts`, `schema.ts` | events, addresses, FTS, `stream_state`, specs, migrations | insert, query, prune, migrate, redecode, verify, export, import | `SqliteStore`, `Readers`, `SizePrune`, `Ingest` |
| PostgreSQL store | `store/src/postgres-store.ts`, `postgres-schema.ts` | the same | the same, with real awaits and a connection pool | `PostgresStore`, `Readers` |
| Decoding, specs | `store/src/decode.ts`, `spec.ts`, `cli/src/specs.ts` | spec records, lookup queue, parsed specs | decode, look up, re-check, cache | `IndexerRun` (queue), `Caches` |
| Webhooks | `api/src/webhooks.ts` | subscriptions, cursors, limiters, dead letters | register, remove, dispatch, deliver, retry, stop | `Webhooks` |
| Event streams | `api/src/stream.ts` | subscribers with one id each, timers | subscribe, poll, drain, close | `EventStream` |
| HTTP server | `api/src/server.ts`, `params.ts`, `csv.ts`, `auth.ts`, `errors.ts`, `bin.ts` | requests in flight | routes, entity tags, CSV export, shutdown | `ApiServer`, `Readers` |
| Rate limiter | `api/src/rate-limit.ts` | a bucket per client | take, sweep | `RateLimit` |
| GraphQL | `api/src/graphql.ts` | none | parse, check cost, execute | `GraphQL` (without the parser) |
| Command line | `cli/src/bin.ts`, `doctor.ts`, `config.ts` | none | one-shot commands, diagnostics | `CliCommand` (without `config.ts`) |
| Web explorer | `apps/web/src` | view state, requests in flight | stream, poll, page, change filter | `Explorer`; its stream client in `EventStream` |
| Metrics, logging, store tooling | `ingest/src/metrics*.ts`, `store/src/logger.ts`, `bin.ts` | counters | expose | no |
| Client, deployment, benchmarks, fixtures | `client/`, `deploy/`, `bench/`, `fixtures/` | none | | no |

How they interact:

* The indexer is one process. The poller is an async generator; its consumer, the
  `for await` loop of `runIndexer`, inserts a batch in one transaction and asks for
  the next, and only then the poller saves the position. Both rows are in the same
  database, in different transactions.
* The RPC node is outside: it closes ledgers, forgets old ones (about seven days),
  and may not answer. With several providers each has a window of its own.
* The API is another process that shares nothing with the indexer but the database.
  Webhooks and streams poll the store for ids above their cursor.
* A browser's `EventSource` reconnects by itself and sends the last id it received.

What is hard, and what makes each part correct:

| Component | Hard behaviour | Correct when |
|---|---|---|
| Poller | kill between insert and save; retention sliding past the cursor; failing requests during the recovery; deduplication by a bounded window | no acknowledged event is missing; at most one page repeats; the stream never wedges |
| Provider pool | a switch in the middle of a stream; lagging providers; opaque cursors; the ledger committed for an overlap | the same, whichever provider answered what |
| Size prune | a file that does not shrink when rows go; kills between statements; ledgers half read | oldest first, whole ledgers, no more than needed, always ends |
| Webhooks | several activations of one pump; awaits between check and use; retries, limits, removal and stop during a wait | in order, once, nothing skipped, every attempt paid for, silence after removal |
| Streams | poll and own drain on one stream; slow, leaving and resuming clients; position that jumps | no gap, no repeat, bounded memory, no stream starves |
| SQLite file | several processes that open, migrate, roll back, write and prune it; decoders of two versions | a schema is whole or refused; address and search entries are those of the rows |
| PostgreSQL | transactions that overlap on a bounded pool | no circle of waits among inserters; address entries are those of the rows; every call ends |
| SpecFetcher | serial queue, stop, transient failures | nothing is looked up after close; a contract seen gets its answer |
| Ingest command line | kill and signals between output and cursor | the cursor is whole and never ahead of the output |
| Chunked requests | workers, retries and answers in any order | every page at its own chunk, adjoining the one before |
| Pagination, export | inserts and prunes around a keyset cursor | pages adjoin; each surviving row once |
| HTTP server | tag and body read apart; shutdown with requests in flight | 304 only for what the client has; the store closes last |
| Caches | loads shared, failing, settling after a change | nothing older than its time to live is answered |
| GraphQL | nested lists, fragments, concurrent failures | no more work than the estimate allowed |
| Rate limiter | refill, sweep | as if no bucket were ever dropped |
| Explorer | late answers, stream and polling at once | the list is of the filter shown, each row once |
| Command line | a step of several fails | the exit code tells |

## 2. The modules

### Delivery: the promise

`Delivery.tla` states ADR-004 without a mechanism: events are published, stored
(idempotently), forgotten by the node and given up; a position may be acknowledged
only when every wanted event before it is stored or given up; it moves forward, and may
be dropped only when the node has forgotten everything before it (`Spec`, which `Ingest`
implements). `SpecOfMany` is the promise that is left where several nodes serve the
events or several indexers save to one place: an acknowledged position is as safe, but
it may go back, and what is given up is what *some* node no longer holds.

### Ingest: one provider

`Ingest.tla` is `EventPoller.stream()` with `#resolveStart()`, the getEvents request
it makes, the consumer loop of `runIndexer` and the saved position.

* Matching events are numbered in ledger order; `upTo[l]` counts those of ledgers
  `1..l`. A page is an interval of numbers. An RPC cursor is the number of events
  before it and the ledger it points into, which is what the node compares with its
  window.
* `pc` names the awaits of the generator: `resolve`, `fetch`, `recover` (the
  `retention()` call in the catch block), `clear`, `consume` (the consumer has the
  page), `save`, `sleep`, and `down`/`done` for the process. Between two awaits
  nothing else of the process runs, so an action is the code between them.
* `Recover` and `ClearPosition` are two actions because a kill or a failing
  `retention()` may come between them. `RecoverFails` ends the process because the
  call in the catch block is not guarded; `StartRefused` because a refused ledger is
  not a refused cursor.
* `Crash` stands for a kill and for any error the loop does not catch; a process
  that is down holds nothing (`Blank`) and resumes from the database.
* The NDJSON consumer of `lens-ingest`, with `FileCursorStore` and `endLedger`,
  runs the same generator; `EndLedger` is its option. `IngestCli` has the rest of it.

### Failover: several providers

`Failover.tla` puts `FailoverRpcClient` under the same poller. Each provider has its
own `tip` and `oldest`. `pool` is `#active` and `#errors`. The error path of
`getEvents` is `FetchErrors` (below the threshold), `Switch`, `RetryCursor` and
`RetryLedger` (the request with the cursor and then the one by ledger on the
replacement), and `SwitchIsFatal`. A probe of the primary may be due at any call
(`Probed`): the clock is not modelled. The count of errors of `#request` is
saturated at the threshold, beyond which the code does not tell values apart.
`RecentIds` is a sequence here, because an overlap delivers ids out of order and
which id is evicted matters. Every ledger has `PerLedger` events, so that a page can
end inside a ledger.

`Failover` implements `SpecOfMany` of `Delivery` (`DeliversAtLeastOnce`, which is proved; the
runs check the invariant `FailoverLosesNothing`) and not `Spec`.
`Forfeit` drops a position only when the node has forgotten everything before it; a provider
that lags behind the saved position refuses it too (`Holds`), and after `Recover` the
position is dropped with every event still at hand. Nothing is lost by it: what a restart
gives up is what the provider it begins at had forgotten.

### SizePrune: the disk budget

`SizePrune.tla` is the timer of `runIndexer` and `SqliteEventStore.pruneToSize()`
against SQLite: a DELETE leaves the file as large as it was and writes to the WAL; only VACUUM and the
truncating checkpoint make them smaller, and they are one step. A row is a page; a
transaction makes the WAL longer by up to a page for each row, or writes it from its
start again (`WalAfter`). `node:sqlite` is synchronous, so a prune is never interleaved with
an insert of the same process, but a kill may come between its statements.

### Webhooks

`Webhooks.tla` is `WebhookManager`. An activation of `pump()` is a process `k` of
subscription `s` whose control points are its awaits: `query`, `next` (the loop),
`throttle`, `post`, `backoff`. Several activations exist because the timer and
`pollOnce()` do not wait for each other; `busy` is what keeps them apart.
`register()` is three actions, since it awaits the store between its checks and the
insertion. A token is a unit; `Refill` is time. Filters, signatures, the checks on
target addresses and the trimming of the dead-letter list are left out: delivery and
dead-lettering both append to `log`.

### Pages

`Pages.tla` is what a query for the events above a cursor answers `Webhooks` and
`EventStream`: the next matching ids in ascending order, `Batch` of them. An ascending
list of a set of ids is chosen from `Ascending(S)`, which has one member.

### EventStream

`EventStream.tla` is `EventStreamHub` and its clients. `drainPc` is the drain of a stream
(`draining` of the code is `drainPc # "idle"`), `polling`, `toVisit`, `visiting` and
`pollLatest` are `#poll()`. A socket is the events written and not yet received; it asks for a drain
at `HighWater` and stops asking when it is empty. `subscribe()` is `Ask`,
`ReadNewest`, `AddSubscriber` and `FirstDrain`, or `Resume` and `FirstDrain` with a
Last-Event-ID; a client may leave between any two. A drain whose response is gone
has no effect any more, so it leaves with its subscriber. With SQLite the await in
`subscribe()` (and in `register()`) resolves before other I/O is handled; with
PostgreSQL it is a round trip, and that is the case modelled.

### SqliteStore

`SqliteStore.tla` is one database file and the processes that use it: the indexer,
the API, `lens migrate`, `prune`, `redecode`, `verify`, `export`, `import`. A method is
one step of its process, since `node:sqlite` is synchronous; what it reads before BEGIN
is kept in `seen`, and the transaction is a second step (`Open` and `Migrate`,
`MigrateDown` and `RollBack`, `Redecode` and `Rewrite`, `Verify` and `RepairRow`, an export or import
batch by batch). A row is known by the decoder that wrote its columns, so that the
projected columns, the address table and the search table can each be out of step with
it. Processes may have decoders of two versions and SQLite builds with and without FTS5.
Migration 4 and 5 decide what an insert has to write. `Damage` stands for the corruption
that `verify` exists for. The triggers of the search table hang on the events table, so
dropping that drops them (`Triggers`). Two rollbacks that overlap a start can leave a gap
in the recorded versions, which the next start fills; `SchemaWhole` covers it.

### PostgresStore

`PostgresStore.tla` has a step for every statement of a transaction: `Connect` takes a
connection of the pool, `Begin` the advisory lock when it is a migration, `InsertRow`,
`RewriteRow` and `DeleteRow` wait for the locks of others, `Commit` makes all visible.
`Deadlocked` is PostgreSQL's own detector, which rolls one of two back.

### Readers

`Readers.tla` is a query, a client that pages both ways, and the CSV export, which pages
twice (for the header's width and for the rows). `Scan` and `Probe` are the statements of
`queryEvents`; rows come and go between them. `cameFrom`, `steady` and `lasting` are history.
`EventRow` gives each id what the filters look at.

### IndexerRun

`IndexerRun.tla` is `runIndexer` around the loop: `StartRun`, `Backfill`, `CheckSkew`,
the loop, whose batches enqueue contracts, and the `finally` block, `Leave`, `Idle`,
`Close`. `SpecFetcher` is a queue and a lookup in flight that runs through `ReadSpec`,
`GetInstance`, `GetWasm` and `SaveSpec`, any of which may fail; `SpecCommand` is
`lens spec` in another process.

### IngestCli, RpcClient

`IngestCli.tla` is `soroban-lens-ingest`: `Poll`, `Emit`, `WriteTemp`, `Rename`, each of
which a kill may precede. `written` is standard output, `cursorFile` what the file holds;
read as `stored` and `acked`, they implement `SpecOfMany` of `Delivery`
(`WritesAtLeastOnce`, which is proved; the runs check the invariant `ResumeIsSafe`, which
it implies): nothing is skipped, forgotten or given up, and processes that share the file
can take the position back.

`RpcClient.tla` is `getEventsChunked`: `worker` is a worker of the pool, `nextChunk` the
shared counter; answers and failures come in any order.

### ApiServer, RateLimit, GraphQL, Caches

`ApiServer.tla` has an action for each await of `handle()` and follows a response to the
client, which remembers list and tag; `Throws` is the catch of `handle()`. `Shutdown`,
`Deadline`, `CloseServer`, `CloseStore` and
`ApiExit` are `shutdownApiServer` and `api/src/bin.ts`. `RateLimit.tla` runs the buckets
beside buckets that are never dropped. `GraphQL.tla` reads a document as
selections with an id, in document order, and the ids of those inside; `FieldOf` merges
them by response key, `depth` and `cost` are the recursions of `analyse()`. Each walk of
`analyse()` (`walksBelow`) holds its total so far against the limit after every field but
`__typename` (`Exceeds`), and `Analyse` rejects when one does. Then fields resolve in any
order and failures null what they must. A limit is any integer (`NoLimit` where none is
given): the analysis caps it at `MaxLimit` and takes what is below 1 as it is, and
`FieldResolves` refuses it, as `boundedLimit` does when the field resolves. A list without a limit holds what the store's own default allows, which for
`contracts` is not the one `analyse()` takes (`ContractsLimit`). `Caches.tla` has a version number for the total and for each spec,
a promise that several requests may wait for (`Get`, `Await`, `Settle`), and a clock.

### Explorer, CliCommand

`Explorer.tla` is the list of events of the web page: requests carry their number and
filter (`requestId` and the closure of `loadFirstPage`), are read at one moment and
answered at a later one. `PageRequest`, `Show`, `AppendPage` are the request and what its
answer does; `stream` is the `EventSource`. `CliCommand.tla` is `main`: a command is a sequence of steps on
the store (`BeginCommand`, `Succeed`, `StepThrows`, `CloseAtEnd`), and each may fail.
`SpecArguments` are the checks of `lens spec`, which come after it has opened the store: a
missing argument is 2, a malformed contract id throws;
`doctor` is its checks, in any order.

### Composition

The modules share the store. `Ingest` and `Failover` contain the indexer with the
database; `Webhooks`, `EventStream`, `Readers`, `ApiServer` and `Explorer` see it as an
insertion, in the order of ids unless they say otherwise. `Webhooks` with
`InOrder = FALSE` drops that assumption: an archive backfill and a second ingest stream
insert events with smaller ids later. `SqliteStore` composes all the processes on
one file; `IndexerRun` composes the consumer loop, the lookups and the store's life.

`MCSafety` and `MCProgress` check many machines in one run. They are not compositions:
`which` names the machine that runs, in all its steps, and the variables of the others
keep their initial values. `MCSafety` EXTENDS all of its thirteen, so that the properties
it checks are the very definitions of the theorems. `MCProgress` EXTENDS `SizePrune` and
`IndexerRun`; the others are instances, each with variables of its own, since its fairness
is stated over them. Modules that are extended together have names of their own for what
they share an idea of (`ApiInit`, `CmdInit`, `cacheVars`, ...).

## 3. The runs

"Variant" operators in the modules are plausible bugs of the definition that follows
them; `PROJECT.json` pairs each checked property with one that breaks it. Four machines
that need a run of their own, for their assumptions or their size, have it; the rest
share `safety` and `progress`.

| Run | What it asks |
|---|---|
| `ingest` | Is anything lost, hidden by deduplication, or replayed by more than a page, whatever is killed or refused? Does the pipeline implement `Delivery`? Is every wanted event in the end stored or given up? |
| `webhooks` | Is every event delivered or dead-lettered, once and in order, by attempts that were paid for? |
| `stream` | Does a client that stays see every matching event in the end, whatever drops, stalls, fails or shuts down? |
| `safety` | The safety of thirteen machines, below |
| `progress` | What must end or come, for eight machines, below; that a size prune takes the oldest, and that no lookup outlives the store |
| `ingest_bounded` (violation) | Does a run with `endLedger` stay within it? |
| `failover_retries` (violation) | Does a failover only retry? |
| `prune_stops` (violation) | Does a size prune stop when what is left and the WAL are no more than the target? |
| `webhooks_skip` (violation) | Is an event inserted below the cursor delivered? |
| `archive_gap` (violation) | Does the backfill reach the window? |
| `csv_backward` (violation) | Does an export with `direction=backward` list every event? |
| `explorer_overwrites` (violation) | Does the list end up with the newest events? |

Bounds, and why they are enough:

| Machine (run) | Properties | Bounds |
|---|---|---|
| `Ingest` (`ingest`) | `TypeOK` to `EveryEventSettles` | 3 ledgers of up to 2 events, start ledger 2, pages of 2, window of 3 pages, 1 kill: pages end inside and at the end of ledgers, are full, short and empty, the node can forget what is in flight, and the recovery, with failing requests, can repeat. The theorems cover every value. |
| `Failover` (`safety`) | `FailoverLosesNothing`: `NoSilentLoss`, `RememberedIsStored` and `CommittedLedgerIsSafe` of that module | 2 providers, 2 ledgers of 3 events, pages of 1, window of 2, threshold 2, 1 kill: a switch can come at every request, the overlap is longer than the window, and a lagging replacement can refuse the cursor and then the ledger |
| `Failover` (`progress`) | `EveryEventSettles` | 2 ledgers, primary dead |
| `Webhooks` (`webhooks`) | `DeliveriesAreExact`, `AttemptsAreAllowed` | 2 subscriptions on one host, 2 activations each, 2 events, pages of 1, 2 attempts, buckets of 1: contention for the host's token and a second page are both needed and present |
| `Webhooks` (`progress`) | `EveryEventHandled` | 1 subscription, 2 activations, 2 events, pages of 1, 2 attempts: a second page and a second activation that finds `busy` |
| `EventStream` (`safety`) | `StreamIsExact`, `BufferBounded` | 2 clients, 3 events of which 2 match, pages of 1, 1 drop: a jump over an unmatched event, a second page, a poll that waits for another stream, a resumption |
| `EventStream` (`stream`) | `EveryEventArrives` | 2 clients, 2 events of which 1 matches, pages of 1, 1 drop, shutdown |
| `SqliteStore` (`safety`) | `SchemaWhole`, `IndexesInStep` | 2 processes, one with the newer decoder, 2 events (one only it decodes, one without addresses), batches of 1, 1 rollback, 1 damaged row, FTS5 in both or in one. Every pair of operations meets. |
| `SqliteStore` (`progress`) | `EveryProcessOpens` | 2 processes, 1 event, 1 rollback |
| `PostgresStore` (`safety`, `progress`) | `InsertersDoNotDeadlock`, `PgAddressesInStep`, `CallsEnd` | 2 calls on a pool of 2, 3 events (2 in `progress`): two transactions are what a circle and a stale read need |
| `Readers` (`safety`) | `PagesAdjoin`, `ExportListsEachEventOnce` | pages of 2, 4 writes, every filter of `MCInputs`, both orders |
| `IndexerRun` (`progress`) | `StoreOutlivesLookups`, `LookupsSettle` | 2 contracts, one configured, 2 ledgers, 1 restart |
| `IngestCli` (`safety`, `progress`) | `ResumeIsSafe`, `SignalEndsRun` | 2 processes on one file, 2 events, pages of 1, 1 kill; one process for the signal |
| `RpcClient` (`safety`) | `ChunksAreExact` | 5 contracts in filters of 2, so 3 chunks and a short one; 2 workers, 2 attempts, 6 events |
| `ApiServer` (`safety`, `progress`) | `NotModifiedIsCurrent`, `StoreOutlivesRequests`, `ShutdownEnds` | 2 clients, 1 insert; one client for the shutdown |
| `RateLimit` (`safety`) | `SweepIsInvisible` | 2 clients, capacity 2 in half tokens, sweep every 3 calls |
| `GraphQL` (`safety`) | `WorkWithinCost` | 19 documents (`SomeDocuments`): nested lists, aliases, repeated and skipped fields, `__typename`, costs on both sides of the ceiling, limits below 0, of 0 and above the maximum; `contracts` has a limit |
| `Explorer` (`safety`) | `ListIsOfTheFilter` | 4 events, pages of 1, 3 requests in flight, 2 changes of filter, 1 drop |
| `Caches` (`safety`) | `AnswersAreRecent` | 1 contract, 2 requests, time to live 2, clock to 2, 1 change |
| `CliCommand` (`safety`) | `ExitIsHonest` | every command line with up to 2 contracts, 2 rows |
| `SizePrune` (`progress`) | `OldestFirst`, `SizePruneEnds`, `BudgetMetInTheEnd` | 8 rows in ledgers of 2, chunks of 1 ledger, budget of 4 pages of which the empty database takes 2, 2 kills: several chunks and several runs, and runs that find the free pages of a killed one |

`CHECK_DEADLOCK FALSE` stands where the system really stops: a command, a bounded or
`--once` run ends, the server is shut down, all rows are in, or a request is answered.

### Fairness

* *Restart* is fair: `docker-compose.yml` runs the indexer with
  `restart: unless-stopped`, the systemd units with `Restart=always`.
* The steps a process takes for itself are weakly fair: a promise that settles is
  continued, a timer fires, a sleep ends.
* A request may fail any number of times but not for ever: strong fairness of the
  steps that need an answer (`FetchPage`, `Recover`, ...), and of `Query` and `Write`
  where the store is asked. In `Failover` nothing is asked of the providers; which of them
  answer is a constant.
* A free connection or row lock comes round to each waiter (`Connect`, `PgStep`), and
  PostgreSQL ends a deadlock; SQLite's busy handler lets each process at the file in turn
  (`Migrate`). Both are strong fairness.
* A shutdown relies on its own timer and callbacks only, never on a client.
* Nothing is asked of the environment: ledgers need not close, nor be forgotten, nor
  events be inserted. Clients are fair only in reading a stream they hold open, which
  is what "unless the stream ends" leaves.

## 4. What is proved

The modules named `...Proofs` prove, for every number of ledgers, events, processes,
clients and kills, and every value of the other constants that the named assumption of
the module (or the theorem's own ASSUME) allows:

| Module | Theorem | Statement | Assumes besides |
|---|---|---|---|
| `IngestProofs` | `TypeCorrect` | `Spec => []TypeOK` | |
| | `NothingLost` | `Spec => []NoSilentLoss` | |
| | `DedupIsSound` | `Spec => []RememberedIsStored` | |
| | `PositionIsKept` | `Spec => ClearedOnlyWhenForgotten` | |
| | `ReplayIsBounded` | `Spec => []ReplayIsOnePage` | |
| | `CommittedLedgerStands` | `Spec => []CommittedLedgerIsSafe` | `EndLedger = 0` |
| | `Refinement` | `Spec => AtLeastOnce`: `Ingest` implements `Delivery` | |
| `StoreProofs` | `SchemaIsWhole`, `IndexesFollowRows` | `Spec => []SchemaWhole`, `Spec => []IndexesInStep` | |
| | `AddressesInStep` | `PgSpec => []PgAddressesInStep` | |
| | `NoDeadlock` | `PgSpec => []InsertersDoNotDeadlock` | |
| | `MigrationsApplyOnce` | `PgSpec => []MigratedOnce` | |
| `RpcProofs` | `PositionsAreCovered`, `SwitchingLosesNothing` | `FailoverSpec => []FailoverInv`, `FailoverSpec => []FailoverLosesNothing` | |
| | `PoolIsAtLeastOnce` | `FailoverSpec => DeliversAtLeastOnce`: `Failover` implements `Delivery` of many | |
| | `ChunksAreDelivered` | `RpcSpec => []ChunksAreExact` | |
| `WebhooksProofs` | `DeliveriesExact` | `Spec => []DeliveriesAreExact` | `InOrder` |
| | `EventsInOrderOnce`, `AttemptsAllowed` | `Spec => []InOrderOnce`, `Spec => AttemptsAreAllowed` | |
| `EventStreamProofs` | `StreamsAreExact`, `BuffersAreBounded` | `StreamSpec => []StreamIsExact`, `StreamSpec => []BufferBounded` | |
| | `ListIsOfItsFilter` | `ExplorerSpec => []ListIsOfTheFilter` | |
| `ApiProofs` | `StoreIsClosedLast`, `ValidatorIsHonest` | `ApiSpec => []StoreOutlivesRequests`, `ApiSpec => []NotModifiedIsCurrent` | `MaxEvent \in Nat` |
| | `SweepChangesNothing` | `LimiterSpec => []SweepIsInvisible` | `Capacity, Unit \in Nat` |
| | `CachesAreRecent` | `CacheSpec => []AnswersAreRecent` | `Ttl` positive |
| | `PagesTurnWithoutGaps` | `ReadersSpec => []PagesAdjoin` | |
| | `ExportsAreWhole` | `ReadersSpec => []ExportListsEachEventOnce` | exports go forward |
| | `CostBoundsWork` | `GqlSpec => []WorkWithinCost` | `LimitsGiven` |
| `CliProofs` | `ResumeFromGoodCursor` | `CliSpec => []ResumeIsSafe` | `LastEvent, CliPageSize \in Nat` |
| | `OutputIsAtLeastOnce` | `CliSpec => WritesAtLeastOnce`: `IngestCli` implements `Delivery` of many | `LastEvent, CliPageSize \in Nat` |
| | `LookupsEndFirst` | `RunSpec => []StoreOutlivesLookups` | |
| | `PruneTakesTheOldest` | `Spec => OldestFirst` | |
| | `ExitCodesAreHonest` | `CmdSpec => []ExitIsHonest` | |

`InOrder`: with it `FALSE` events are inserted below a cursor and are skipped, which is
the finding of `webhooks_skip`; `EventsInOrderOnce` holds all the same. `EndLedger = 0` is
`lens index`, which never sets the option. With a `Ttl` of 0 nothing is cached. An export
that goes backward is the finding of `csv_backward`. `LimitsGiven`: every `contracts` in a
document has a limit, or the store's default for it is no more than the 50 that
`analyse()` counts; with the code's 100 a document without that limit can resolve more
than its cost (section 5). `WorkWithinCost` itself speaks of documents without a limit
below 0 and, of rejected ones, of all; with such a limit the statement is false of the
code (section 5). The
assumptions named in the modules say that sizes and bounds are natural numbers, that
pages, batches and ledgers are not empty, that a selection comes before those inside it
(`GqlAssumption`), and that `"host"`, `"none"` or the name of a
step is not also the name of a client, subscription or contract; `CommandAssumption` has
a finite table.

### The inductive invariants

Each theorem rests on an inductive invariant, which adds to the property what the code
relies on between two of its steps. An action has a lemma that it keeps the invariant;
the step lemma puts them together.

`Ingest`. `NoSilentLoss` speaks of the saved position only and is not inductive: the next
position comes from the page in hand, the page from the cursor, and the cursor from the
saved row or from a start ledger. `IInv` says that each of these *covers* what lies
before it: the wanted events up to it are stored or given up.

* `NodeInv`: the node's counters are monotone and flat beyond the tip.
* `PositionInv`: saved row, cursor and start ledger cover what is before them and do
  not point beyond the tip; a cursor is the saved one.
* `ControlInv`: a request has a position; the recovery runs only with a cursor whose
  ledger the node has forgotten.
* `PageInv`: a page in hand starts at a covered position, and each of its events is
  stored or, while the consumer has it, among the fresh ones.
* `RememberedIsStored` is a part because an event dropped from a page as a repeat must
  be known to be stored.

`CoveredKept` and `CoveredClose` carry coverage over steps that only add to the database
and over a closing ledger. `PositionIsKept` reads the reason from `ControlInv`.
`Refinement` maps each action to a step of `Delivery` (close to Publish, forget to Expire,
consume to Store, save to Acknowledge, clear to Forfeit, a restart from a ledger to
GiveUp) or a stutter. That a saved position moves only forward takes `PaceInv`: a page is
read from it, or there is none (`Placed`). `PaceInv` bounds the stored events by a page beyond the place where
a restart would begin, which without a saved row is the ledger it would resolve *now*:
the tip moves it, and only upwards. `CommitInv` relates the ledger in hand to the page.

`SqliteStore`: `SqInv`. Before the first rollback a starting process has read no version
or all; after it, what it read is at most what is there (`NoRollbackYet`, `OneRollback`),
so that the loser of a race skips the rest. `ObjectsInv` ties tables and triggers to
versions; `IndexesInStep` is inductive with it, since an index entry is written in the
transaction of its row or deleted by trigger or cascade.

`PostgresStore`: `PgInv`. `LocksInv`: what one transaction has written no other has;
`OrderInv`: an insert has written only ids below those it has left. In a circle of
inserts each would hold an id above the one it waits for: `NoDeadlock` follows from the
largest. `MigrationInv`: a migration that runs holds the advisory lock and has read the
version since it took it.

`Webhooks`: `WebInv`. `OnePump`: `busy` keeps out a second activation, from the first
await to the last; `PageInv`: what is left of its page is the run of events after the
cursor; `CursorInv`: the log ends at the cursor.

`EventStream`: `StreamInv`. What a client has received and what is on the wire form one
ascending list without gaps (`SeenOK`); the stream's position is its end or lies where
nothing matches (`OpenOK`); a page in hand goes on from there (`PageOK`); a drain writes
only below the high-water mark (`BufferOK`).

`ApiServer`: `ApiInv`. Store closed after server, server after its connections; a tag on
its way is not newer than its page (`TagInOrder`), because `handle()` reads the tag first.
`RateLimit`: `LimiterInv`, a bucket in the map *is* the ideal one and a missing one stands
for a full one. `Caches`: `CacheInv`, every entry, load and answer was in the store at or
after the time its load began, and an entry is as old as its load.

`IngestCli`: `CliInv`, whatever a process has read is on standard output, what it is about
to write to the file too, whatever position the other processes wrote there; for the
refinement also `KnownInv`, nobody is ahead of the node. `IndexerRun`:
`LookupsInv`, a lookup in flight or a queue that runs implies a run that is not closing.
`SizePrune`: `PruneInv`, the rows are numbered in ledger order. `CliCommand`: `CmdInv`, what the remaining steps
can still do (`Planned`) and what code was set for what happened (`Honest`).

`Failover`: `FailoverInv` (`PositionsAreCovered`). As in `Ingest`, everything the next
position can come from is covered: the saved row, the cursor, the start ledger, the page.
New are the overlap, which starts at the ledger saved beside the cursor and so needs that
nothing before that ledger is still to be fetched, and the deduplication window: it
evicts, so what it remembers is a part of what was delivered, and that it remembers only
what is stored is what makes dropping a repeat safe. The window grows by a fold over the
page; `FoldExists`, `StepByStep` and `AddAllPasses` follow it element by element, to the
least one at which a claim could fail. `PoolIsAtLeastOnce` needs besides that the page in
hand is of events that some provider has closed (`HandInv`); `closed` and `forgotten` are
those of the provider that has gone farthest (`FarthestIsOne`, `FarthestGrows`), so that
what another one has forgotten is a part. Clearing and saving map to `AcknowledgeAny`.

`RpcClient`: `RpcInv`. Each chunk of a call has its page, is in the hands of one worker, or
is not yet taken; a worker leaves only when no chunk is left, so that when all have left
every chunk has its page, which adjoins the one before because a cursor moves only with
the answer.

`Readers`: `PageInHand`, the page lies beyond the cursor, and what was there and is not on
it lies beyond the page; `CursorsInHand`, the cursors are the ends of the page. Then the
page before and the page after one cursor adjoin (`PagesTurnWithoutGaps`). For an export
`ExportInv` adds that what was written is in order, ends at the cursor, and leaves out
nothing up to it that was there all along.

`Explorer`: `ExplorerInv`. A newest request is out, or an error is shown, or a page of an
earlier filter was appended, or the list matches the filter. It is inductive because the
newest request and the stream are always of the filter that is shown (`RequestFits`,
`StreamFits`), and because a change of filter asks for a first page in the same step.

`GraphQL`: `GqlInv`. The number of fields resolved so far is not inductive: it says nothing
of what those under way will start. So each running field holds a reserve, the units of
its `Price` (1, and what its children cost times its items) beyond its own, and the paths
touched together with all reserves stay within the limit. When a field resolves, the
fields it starts and their reserves are paid from its own (`AnswerWithin`), whatever number
of items it has up to `AtMost`; when it fails, its reserve is given back (`LessSpare`); an
admitted document starts within the limit, because the last of its outermost fields was held
against it with all before (`FieldsWithin`, `LastIsHeld`). All of this is said only of a
document without a limit below 0: there every cost is a natural number (`CostIsNatural`,
from `Safe(doc, Nat)`), without which a reserve is nothing to pay with. `cost` is a recursive function:
`CostExists` builds the solution of its equation over the last 1, 2, ... selections, which
is enough because what a field holds begins after it (`GoesDown`), and `CostUnfolds` gives
the equation. Since an induction rule that takes a predicate cannot be instantiated, the
inductions are over sets of numbers (`ByInduction`, from the least number outside).

`PageProofs` has what the others share: least and greatest of a set of ids, the members
and order of a page, the newest of a set, one list put behind another.

### Only model-checked

* Liveness: `EveryEventSettles`, `EveryEventArrives`, `SizePruneEnds`, `BudgetMetInTheEnd`, `LookupsSettle` and
  the others of `progress`. The prover has no rule for fairness or ENABLED.

Every safety and action property of a passing run is a theorem.

## 5. Findings

Shown by a run:

| Run | Disagreement |
|---|---|
| `ingest_bounded` | `endLedger` is dropped from the second request on |
| `failover_retries` | a switch without a cursor ends the process instead of retrying |
| `prune_stops` | a size prune goes on after the data and the WAL fit, and deletes every event once the database is over its budget |
| `webhooks_skip` | events inserted below a subscription's cursor are never delivered |
| `archive_gap` | the archive backfill brings whole checkpoints and one request's worth; the rest is stored by nobody |
| `csv_backward` | a CSV export with `direction=backward` stops after a page, or repeats rows |
| `explorer_overwrites` | a first page that arrives late takes an event the stream delivered off the list |

Seen while modelling. The models contain the behaviour and claim nothing against it:

* `lens index --once` polls for ever when the page at the tip has no fresh event: the
  `break` is in the consumer's loop (`cli/src/indexer.ts` 245), which an empty page never
  reaches. In `Ingest`, `FetchPage` goes to `save` and `SavePosition` to `sleep`.
* A provider that lags behind the cursor refuses it like one that has forgotten it, so
  after a failover the poller drops its position and indexes the window again
  (`ingest/src/poller.ts` 206; the refused branch of `Throw` in `Failover`).
* A size prune that reaches the ledger in which the last page ended removes its first
  part, and the next page inserts the rest (`store/src/sqlite-store.ts` 716-728).
* A size prune killed after the chunk that left no event and before its VACUUM leaves the
  file above the budget: the next runs find no event and return without VACUUM
  (`store/src/sqlite-store.ts` 722, 743) until one is inserted. `BudgetIsMet` speaks of a
  database that holds events.
* The caps on subscriptions and on streams are checked before an await and can be
  overrun (`api/src/webhooks.ts` 477-508, `api/src/stream.ts` 76-105).
* A client that leaves while its stream awaits the newest id stays a subscriber
  (`SubscribeGone`, counted in `leaked`), and one in that await when `closeAll()` runs
  is added after it (`api/src/stream.ts` 80-117).
* A stream that was quiet gives a browser no id to resume from, so what was inserted
  during a drop is not replayed (`apps/web/src/hooks.ts` 45 says otherwise).
* `soroban-lens-ingest --once` has the same gap (`ingest/src/bin.ts` 377), and a run that
  ends at a limit or a signal does not save its last page's position.
* The clean-up of temporary cursor files looks for a name (`ingest/src/cursor.ts` 72)
  that `save()` never gives them (112).
* When one chunk of `getEventsChunked` fails for good, the caller gets the error while
  the other workers go on requesting (`ingest/src/rpc-client.ts` 168-195).
* A contract without a spec is looked up once per process and never again
  (`cli/src/specs.ts` 163-195), and a lookup that began earlier may overwrite a spec found
  or imported since, because the upsert is unconditional (`store/src/sqlite-store.ts` 539).
* A spec that failed to load is remembered as "no spec" until it expires
  (`store/src/spec.ts` 271). PostgreSQL's cached total takes its expiry after the await, so
  an older count can replace a newer one (`store/src/postgres-store.ts` 427-439).
* PostgreSQL's `pruneToSize` has the loop of SQLite's, and its checkpoint does nothing,
  so it too deletes until nothing is left (`store/src/postgres-store.ts` 633-677).
* The entity tag is the newest id: a spec saved, rows decoded again, pruned or inserted
  below it do not change it (`api/src/server.ts` 892).
* An empty page carries neither cursor, so a reader whose page was pruned away under it
  cannot go on (`store/src/sqlite-store.ts` 349). The CSV header's width is measured in a
  walk of its own and can be overtaken by inserts (`api/src/server.ts` 212-246).
* GraphQL's `contracts` without a limit is estimated at 50 rows and returns up to 100
  (`api/src/graphql.ts` 917-922, `store/src/sqlite-store.ts` 414).
* GraphQL's estimate takes a limit below 0 for a number of items (`Math.min` alone,
  `api/src/graphql.ts` 917): its list then costs less than nothing and lowers the total
  of the document (927), which may pass the limit with a list beside it that costs far
  more, contrary to the cost model of lines 862-873; the limit is refused (`boundedLimit`, 694)
  only when its own field resolves. `WorkWithinCost` names these documents
  (`HasLimitBelowZero`) and leaves them out; the model runs them. `__typename` is counted
  but not held against the limit (898-901), so that a total may end above it.
* `lens spec` opens the store before it looks at its subcommand and contracts
  (`cli/src/bin.ts` 372-392), so a command line that is refused with 2 has created the
  database and applied its migrations.
* In the explorer, older pages are appended whatever the filter has become
  (`apps/web/src/App.tsx` 333), the total grows with a message that repeats an event (391), and
  polling faster than the API answers discards every answer (304).
* `LENS_RPC_URLS` beats `--rpc-url` (`cli/src/config.ts` 86), though line 62 says flags
  beat the environment; and the name under which the cursor is kept, like `lens doctor`'s
  report, comes from `network.rpcUrl`, which does not know `LENS_RPC_URLS`.
* `lens doctor` leaves the database open when `getStats()` throws (`cli/src/doctor.ts`
  120-150); `lens verify --repair` exits with 0 whether or not a repair changed the row.
* The key of a saved position does not depend on topics, event type or start ledger
  (`ingest/src/poller.ts` 329): a run with another filter goes on from a position that
  skipped events it wants.
* The rate limiter trusts the clock not to step back (`api/src/rate-limit.ts` 65).

## 6. Plan

Done, in this order: `Delivery`, `Ingest`, `IngestProofs`, `Failover`, `Webhooks`,
`EventStream`, `SizePrune`; `SqliteStore`, `PostgresStore`, `IndexerRun`, `RpcClient`,
`IngestCli`, `ApiServer`, `RateLimit`, `Readers`, `GraphQL`, `Explorer`, `Caches`,
`CliCommand`.

Theorems done: all of section 4, last the bound of GraphQL's work, for which `cost` became
a function over ids. What is left of the properties that are checked is liveness. Planned next: the parts of the GraphQL and HTTP servers that
section 7 leaves out.

## 7. Not modelled, and why

* Decoding, XDR, the parsing of contract specs, CSV and GraphQL text, parameters and
  configuration: pure functions whose interest is in data, not in order; the test suites
  compare them with fixtures.
* Metrics, logs, the client package, rendering and translations: nothing else depends on
  their state.
* Read-only queries other than `queryEvents` (statistics, search terms, lists of contracts
  and topics): one statement each.
* Deployment files and benchmarks: configuration and measurement.
* Time: backoff, jitter, intervals and probe periods are "eventually"; the models
  hold for every choice of them. `RateLimit` and `Caches` have a clock, because their
  code compares times.
* SQLite's own locking: its transactions are atomic steps. Of PostgreSQL's concurrency
  control `PostgresStore` has row locks, visibility at COMMIT and the deadlock detector.
* A scan limit of the node's own: a page is short only when nothing is left to scan. A CSV
  export's total limit and the cursor it may begin at (`api/src/server.ts` 197-206). That
  a webhook's timeout is one of the idle socket (`api/src/webhooks.ts` 353): an endpoint
  that trickles its answer can take longer, and the model has it answer or fail.
* `health()` and `clockSkew()` of the provider pool, and a change of configuration
  between runs of the indexer.
