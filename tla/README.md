# A verification project for safedep/dry

`safedep/dry` is SafeDep's library of Go packages: an event pipeline (outbox,
inbox, streams), an offline-first sync client, a local database, credentials,
and many small helpers and clients. This directory holds TLA+ modules translated
from that code, TLC configurations that check them on small instances, and
proofs, checked by TLAPS, that hold for every instance.

Three components carry state across processes, failures and restarts and have
modules and runs of their own: the transactional **outbox** (`src/events/outbox`), the
**inbox** with its S2 source (`src/events/inbox`), and the **endpoint sync** client
with its write-ahead log (`src/cloud/endpointsync`). The **event pipeline** composes
outbox, stream and inbox, from the producer's transaction to the consumer's handler.
Eleven are smaller and have a module each, checked by one run: the **local
database**, the **error sink**, the **NATS consumer**, the **Docker sandbox**, the
**credential store** and the **credential resolver**, the **spinner**, the **MySQL
cache**, the **trie**, the **S3 writer** and the **scoped access to streams**.

## Files

| file | what it is |
|---|---|
| `Outbox.tla` | the outbox: producers, leader election, drain, cleanup, faults; its properties |
| `EventDelivery.tla` | what the outbox promises, with no table, pass or leader in sight |
| `OutboxProofs.tla` | theorems about `Outbox` |
| `MCOutbox.tla`, `MCOutbox_*.cfg` | small instances |
| `Inbox.tla` | Consume, the S2 source, its advisory leader, cursor and dedup |
| `InboxProofs.tla`, `MCInbox.tla`, `MCInbox_*.cfg` | theorems and small instances |
| `EndpointSync.tla` | Emit, Sync, the log, the circuit breaker |
| `ReliableSync.tla` | what the endpoint sync promises, with no row, batch or breaker in sight |
| `EndpointSyncProofs.tla`, `MCEndpointSync.tla`, `MCEndpointSync_two.cfg` | theorems and a small instance |
| `EventPipeline.tla`, `MCEventPipeline.tla`, `MCEventPipeline_both.cfg` | `Outbox` and `Inbox` composed through a stream; implements `EventDelivery` end to end |
| `LocalDB.tla`, `LocalDBProofs.tla` | the shared SQLite file and its migrations |
| `MigratedStore.tla` | what the local database promises, with no file, log, lock or retry in sight |
| `PipelineProofs.tla` | theorems about `EventPipeline`, from those of its parts, and about `InboxTail` |
| `InboxTail.tla` | an inbox of one replica that starts at the tail of its feed |
| `Trie.tla`, `TrieProofs.tla` | the prefix tree against a dictionary |
| `ErrorSink.tla`, `NatsConsumer.tla` | the asynchronous error sink; a durable JetStream consumer and its subscribers |
| `DockerSandbox.tla`, `Spinner.tla`, `MysqlCache.tla` | three small components |
| `PartsProofs.tla` | theorems about the last five |
| `CredentialStore.tla`, `CredentialResolver.tla` | saving credentials; reading them back beside the saves |
| `S3Writer.tla`, `StreamAccess.tla` | an upload through a pipe; tokens for streams and their prefixes |
| `CloudProofs.tla` | theorems about the last four |
| `MCParts.tla`, `MCParts_each.cfg` | a small instance of each of the small components, and of an inbox that starts at the tail |
| `PROJECT.json` | components, runs, mutants, the map from definitions to source lines, findings, hazards, theorems |

Check a model with `tlc -config MCOutbox_leader.cfg MCOutbox.tla`, a proof with
`tlapm OutboxProofs.tla`. An operator whose comment begins with "Mutant:" is not
part of a specification: it is a plausible bug in the operator below it, and put
in its place it breaks the property `PROJECT.json` names.

## Inventory

State, operations and hard behaviour of the components with state. The rest is
under "Not modelled"; `PROJECT.json` lists every part.

**Outbox** (`events/outbox`). State: the tables `event_outbox` and
`event_outbox_delivery`, a Postgres advisory lock, the locals of a drain pass.
Operations: Emit/Send (rows written with the business transaction), Run (try the
lock, drain each destination in id order, mark, purge, ping). Interacts with
the database, with destinations (NATS, S2) by calls whose answer may be lost,
and with other replicas through the lock and the rows. Hard: a lock whose
session dies under a live leader; whole-row saves of stale copies; a failure
between publish, save, count and mark; per-subject blocking across windows.
Right when: nothing committed is lost, nothing unpublished is marked, subjects
keep their order, others keep flowing.

**Inbox** (`events/inbox`). State: the cursor row, dedup's table, the advisory
lock, per replica a term, a read session and a record in hand. Operations:
Consume's loop (Receive, decode, Seen, handler, Mark, Ack or dispose). Interacts
with the stream, the database, the handler and other replicas. Hard: a term
that ends at any statement, a former leader reading beside the new one, failed
acks, bootstrap from the tail. Right when: the cursor never leads the handler,
order is the stream's, reruns are paid for by faults, everything is settled.

**Endpoint sync** (`cloud/endpointsync`). State: the tables `events` and
`wal_meta`, a circuit breaker per client. Operations: Emit, Sync, Close.
Interacts with the server (answers per event, errors after acceptance). Hard:
two Syncs on one log, a crash between acceptance and mark, the counter beside
the rows, corrupted and refused events, the breaker's generations. Right when:
nothing is lost, the counter is exact, nothing is reported twice, calls return,
the log drains.

**Event pipeline** (`events`, `events/outbox/destinations`, `stream`). State: the
stream, named by the exposure, the feed and the tenant of the events in it. Operations: a
publish appends to the stream or sends a NATS message; a read session reads on. Hard:
the faults of both ends together: an event appended twice, and each record read by the
term that failed and by the next. Right when: the handler first takes a subject's events in
the order of their commits, and in the end all of them.

**NATS messaging** (`async`). State: a durable JetStream consumer in the server,
a loop per subscriber. Operations: publish, queue subscribe with explicit ack.
Hard: a failed ack or InProgress is only logged; redelivery to another member while the
first callback still runs; MaxDeliver; the stream's own limit. Right when: a message
leaves the consumer only handled, given up or pushed out, and two callbacks have
one message only if the server did not hear of it in time.

**Local database** (`localdb`). State: a SQLite file shared by processes, the
migration tables; per process a Manager. Operations: Store (open with bounded retry,
the framework's migrations, the module's), Close with checkpoint. Hard: the
version-ahead check precedes the write lock (localdb.go:453); two processes open a
fresh file; a power failure with synchronous=NORMAL. Right when: each migration
is applied once and in order, and a store that is returned is migrated.

**Error sink** (`errors/sink.go`). State: a bounded channel, a worker, a closed
flag under a read-write lock. Operations: Handle, Close. Hard: Close waits for
the worker under the write lock, so Handle blocks; after the timeout the driver
is closed under a busy worker. Right when: an accepted error is handled, in
order, and both calls return.

**Sandbox** (`sandbox`). State: the id of one container; in the daemon, the
containers and the commands that run in them. Operations: Setup, Execute, Close. Hard:
every call may fail after it took effect; commands outlive the calls that started
them. Right when: a container that exists is the one Close will remove, and calls
return.

**Keychain and credential store** (`keychain`, `cloud`). State: a file of
secrets, replaced by rename under a process-local mutex; the parts of one
credential under several keys. Operations: save an API key, save a token pair,
clear. Hard: read-modify-write from two processes; a later Set fails; two
credentials share the tenant; Resolve reads the parts one by one and falls through a
chain. Right when: a change is undone by no call of the same provider, a call that ran
alone and succeeded left a whole credential, and Resolve finds the own secrets of one save
and the tenant of the last (one per profile, shared by both types).

**Spinner** (`tui/spinner`). State: fields under a mutex, an animation
goroutine, a signal handler. Operations: Start, Stop, Fail, the signal. Hard: the
mutex does not span a call, and the animation reads fields without it. Right
when: no animation or handler outlives Stop.

**Cache** (`cache`). State: a table of rows. Operations: Through (Get, the function,
Put). Hard: two processes find one expired row. Right when: a fresh row is not
deleted for an expired one.

**Trie** (`ds/trie`). State: nodes and marks. Operations: Insert, Delete,
GetWord, ContainsPrefix, WordsWithPrefix. Hard: Delete prunes on its way up; listing
re-encodes bytes from 0x80 on (trie.go:198). Right when: it is the dictionary of
what was inserted.

**S3 writer** (`storage/s3.go`). State: a pipe between a caller and the goroutine that
uploads, a channel for its result. Operations: Write, Close. Hard: the upload fails while a
Write waits for a reader. Right when: Close returns nil only for a stored object,
an object is whole, and both calls return.

**Stream access** (`stream`). State: the tokens the provider keeps. Operations: create a
token for a stream or a scope, delete it. Hard: a scope is enforced as a prefix of ids
joined by colons, which no segment is checked for; answers get lost. Right when: a token
covers what was asked for, and nothing else among ids that can be told apart, it allows
what its role says, and a revoked one is gone.

## How the modules correspond to the code

In every module a database statement, a call to a server, or a transaction that is atomic in
the database, is one step (a lock's critical section another), and control between two of them is the variable `pc`;
the name of each action is the code's, or what its branch does. `faults` counts
what the environment does wrong and bounds it (`MaxFaults`); no other step needs
a fault. Of the small components only `LocalDB` (`MaxCrashes`) and the tail's inbox count them;
elsewhere a failure needs no bound because it cannot grow the state.

### Outbox

`record[e]` is e's row of `event_outbox` ("delivered" when `delivered_at` is
set), `delivery[e][d]` its row for destination d, `outboxId` the id it was
inserted with, `tx` the producer's transaction, `lock` the session holding the
advisory lock, `pass[r]` the locals of drainOnce, drainDestination and Cleanup in
replica r.

* `Insert`, `Commit`, `Rollback`: Emit and Send. The id is taken at insert,
  the rows appear at commit: the two orders differ when transactions overlap.
  `SerialWriters` says whether they may.
* `TryLock`, `Ping`, `DrainTick`: runWithLeader and drainLoop. A leader whose
  session is gone finds out at the ping after its pass, and drains until then.
* `Query`, `LoadRecords`, `SkipHeld`, `MissingRecord`, `Attempt`,
  `PublishAcked`, `PublishFailed`, `SaveAck`, `SaveFailure`,
  `CountOutstanding`, `MarkDelivered`, `EndWindow`: one pass over one
  destination, statement by statement. gorm's Save writes every column of the
  copy the window query read, and inserts the row when it is gone; `Save` does
  both. A failed Publish may have delivered.
* `SelectExpired`, `Purge`: Cleanup. Time is abstracted: any delivered record
  may be old enough, except one a running pass still holds, unless `LongStall`.
* `StatementFails`, `PurgeFails`, `LoseSession`, `Crash`, `Restart`.

An event is one emission, so two emissions with equal payloads are two events.
`attempts` saturates at MaxAttempts, the only value it is compared with. The
choice of eligible destinations is the constant `Accepts`, whose empty value is
the code's refusal to emit. `Unroutable` events are those whose FQN the draining
binary does not know, `Rejected` those a destination refuses every time.
`Send` without a store publishes at once, keeps nothing and is left out. Of the
statistics `StateTotals` is modelled, as one statement over both tables: the flags
`SaveAck` and `SaveFailure` write are what a monitor sees of a failing delivery.

`EventDelivery` says what this is for: commits are ordered, and a destination
first receives an event when it has every earlier one of the subject. `Outbox`
implements it with `rank` mapped to the id of a committed event, when producers
are serial.

### Inbox

A record is its position; `feed[i + 1]` is the event it carries, and an event may
come twice. `src[r]` holds the s2Source's fields: the open session's position,
what reopen chose, the record in hand, and tailResolvedPosition. `live[r]` is the
term's context, `lock` the session in Postgres: the two part when the session
dies, until hold's ping fails.

* `Acquire`, `StillLeading`, `PingFails`: ensureLeading, tryAcquire, hold, release.
* `Load`, `Open`, `Cancelled`, `ReadRecord`, `NextLost`: Receive and reopen. A
  term cancelled between ensureLeading and the reopen gives context.Canceled,
  which Consume takes for its own cancellation (`Cancelled`).
* `Decode`, `HandlerOk`, `HandlerFails`, `SeenFails`, `Mark`, `Ack`, `AckFails`:
  handleOne, dispose, the gorm stores. The handler and dedup are steps of their
  own, and so is what another replica does between them.
* `ReceiveFails`, `LoseSession`, `Crash`, `Restart`, `AppendRecord`.

The error policy is the switch `SkipOnError`. A record that does not decode and a
record the handler never takes are both `Malformed`: dispose treats them
alike. Backoff is not modelled (it delays, and steps take any time), nor stall
detection (it logs).

### Endpoint sync

`row`, `rowId`, `nextRow` are the table `events`, `pendingCount` the counter in
`wal_meta`; `call[p]` the locals of a Sync, `breaker[c]` gobreaker's state and
consecutive failures, `counted[p]` that a send belongs to the breaker's current
generation (the answer of an older one is ignored by it).

* `Emit`: insert's transaction. A refused event changes nothing.
* `StartSync`, `ReadPending`, `DropCorrupt`, `Purge`, `SendRejected`,
  `SendBegins`, `Answer`, `Confirm`, `Discard`: Sync. The server may confirm
  what is valid, refuse for good what is invalid or what it has, and leave
  anything else unresolved (over quota, or a code the client does not know).
* `BreakerTimeout`; `StatementFails`, `PurgeFails`, `SendFails` (with any of the
  batch accepted), `Crash`, which also stands for Close and for a process that
  exits with a call under way.

Each of the log's operations is one transaction under its mutex, and in SQLite's
write lock from the first statement, so it is one step for other processes too.
Event ids are unique (NewEvent draws them), so an event is emitted once.

`ReliableSync` says what this is for, and `EndpointSync` implements it: at most the limit
of events wait; the server accepts an event only while it waits; an event stops waiting
delivered or hopeless (corrupted, or refused for good), and is reported at that
moment if ever.

### Event pipeline

`EventPipeline` instantiates `Outbox` and `Inbox` whole and joins them in one place:
a publish to S2 appends the event to the stream that `StreamID` computes, and
the inbox reads the stream `PlStream` (its own `AppendRecord` is left out: there is no other
publisher). A publish whose answer is lost has appended its record all the same, so
the stream holds duplicates. `DestAccepts` is what the destinations' Accepts say of
public feeds. The faults of both ends have one budget. `Delivery` is `EventDelivery`
with one destination, the handler, which accepts the events of its stream: the
same abstract specification the outbox implements alone, now from end to end.
`NothingInBetween` says where a committed event is meanwhile: pending in the outbox, in the
stream at or after the cursor, or with the handler.

### Local database

`dbLog` is the file as the sequence of its committed transactions, each with
the versions that hold after it; `dbDurable` of them survive a power failure.
`dbLock` and `dbExclusive` are SQLite's write lock and the switch of a fresh file
to WAL mode; the rest is each process's Manager and its running call.

* `DbStoreCall`, `DbConnect`, `DbSwitchToWal`, `DbBusy`: Store and ensureOpen, with
  the retry that only ensureOpen has.
* `DbReadVersion`, `DbBegin`, `DbSkip`, `DbExec`, `DbCommit`, `DbOpened`,
  `DbStored`: the two migration loops and withImmediateTx, one loop for both lists.
* `DbFails`, `DbClose`, `DbNew`, `DbCrash`, `DbPowerLoss`. A checkpoint that is busy
  promises nothing and Close still returns nil: `DbClose` may leave `dbDurable`
  as it was.

`MigratedStore` says what this is for, and `LocalDB` implements it
(`DbMigratesAsPromised`): a list of migrations moves one step at a time, only while a
process waits whose binary knows the step, and a module's only once the framework's has
run; a schema that was newer than the binary when Store was called is neither changed nor handed
out by that call; a handle is given out when both lists have run as far as its binary knows;
and a power failure takes back the last steps only, none that a checkpoint has covered. The
versions of the file are `applied`, those at `dbDurable` are `kept`, and reading, locking,
passing a migration over and executing one that is not committed are steps it does not see.
`DbStoreMeansMigrated`, the part of this about one returned handle, is a consequence and
is proved by itself.

### Error sink

`skWriter` holds the write lock, Handle's step needs it free (a read lock held for one
step). `SinkHandle`'s two disjuncts are the select and the early return;
`SinkTake`, `SinkNotice`, `SinkExit`, `SinkDriverReturns` the worker's two loops;
`SinkLock` to `SinkCloseDriver` Close, step by step. `SinkWaited` takes the timeout
whenever it likes.

### NATS consumer

`nsMsg` and `nsCount` are the server's view of a message, modelled by what the
consumer's configuration asks for (explicit ack, AckWait, MaxDeliver, LimitsPolicy).
`NsFetch`, `NsReport`, `NsReturn`, `NsAnswer`, `NsStop` are the loop. `NsReport` is
InProgress: the server hears it, or the failure is only logged, and the callback starts
either way. `NsExpire` is AckWait, which may pass before the report, before the
answer, and during a callback the server has not heard of; only while a callback is
within its time and the server has heard of it (`nsHeard`) it may not, since InProgress
restarted it and the callback's context ends no later. `NsOverrun` is a callback that
outlives it, also one that returns just as its context expires. `nsLate` is history:
the messages of which the server did not hear in time. The plain queue
subscription, request and reply and the drain of connections keep no state.

### Docker sandbox

`sbId` is all the sandbox remembers; `sbBox`, `sbExecs` live in the daemon. Each
call to the daemon is one step with the outcomes: done, refused, and done without
an answer. `SbPoll`, `SbInspect` are the waits, `SbTimeout` their timeouts,
`SbStreamsEnd` the end of the copying of an Execute with streams, which has none.

### Credentials

A call is a sequence of Sets or Deletes (`CrOrder`); `CrLoad` takes the provider's mutex
and reads the file, `CrReplace` renames the changed copy into place, `CrFails` and
`CrDies` leave the rest undone. A secret's value is the number of its call, which
is what tells two saves apart. `CrProviderOf` says which goroutines share a mutex.

`CredentialResolver` adds a Resolve: `RsGet` is one Get under the provider's read lock, `RsNextResolver`
the chain's fall-through after any error. Two histories say what it should return:
`crSaved`, the last save of each type, kept while it ran alone and returned nil and no
later call of the type, Clear or overlap has touched its secrets; and `rsAlone`, that
nothing was saved or cleared beside Resolve. The tenant is one per profile: after a
token pair was saved with one tenant and an API key with another, a chain that asks for
the token first answers with the token and the key's tenant. The code does so, the
model does so, and `RsResolvedWhole` says exactly that.

### Spinner

A round is one Start; its channels are named by its number. `SpStart` to `SpSpawn`
are Start, `SpStop` to `SpWaited` Stop and Fail, split where the mutex is released.
`SpAnimate`, `SpFrame`, `SpLeave` are the animation: which of the fields it reads, and
when, is what the module is about.

### Cache and trie

`MysqlCache` has a step for each SQL statement of Through; a row is named by its
primary key, since delete uses that and not the lookup key. `Trie` names a node by
its path; `TriePrune` is one level of Delete's climb and
`trieDict` the dictionary it must equal between calls. The lookups are operators.

### S3 writer and stream access

`upLoop` is where the uploading goroutine is, `upCaller` the caller. `UpRead` is a
rendezvous in the pipe; `UpStore`, `UpFail` are the outcomes of the SDK's upload, which is
external; the pipe is closed before the result is sent, as in the code.

In `StreamAccess` ids and prefixes are sequences of letters and colons put together as
`Stream.ID` and `s2ScopePrefix` do, since which ids begin with which prefix is the
question. The provider's tokens live `left` ticks; creation and revocation may
happen and lose their answer. The names are arbitrary: a segment may hold a colon, a tenant may be
named like a namespace, as nothing in the code forbids either. Which streams a request
describes is said in terms of their fields (`AcDescribes`); a token must cover them whatever
the names, and must cover nothing else as far as the ids can be told apart
(`AcToldApart`, which names the two cases the code leaves to its callers: see the notes below).

### MCParts

The small components share no state. `MCParts` takes one of them per behaviour
(`part` never changes) with the component's own Init, next-state relation and
fairness, so the state space is the sum of theirs, and a property speaks of one of
them, but for `CallsReturn`, the liveness of four of them. Fairness asks nothing of a component that does not run: each is written so that
none of the steps it speaks of is enabled in the initial state.

## Runs

Every passing run checks deadlock, except the inbox's, the pipeline's and
`parts_each`: there a consumer at the end of a bounded feed waits for ever, as it
should, and a small component may be closed, or out of calls that its bound allows.
Type invariants are proved rather than run; the small components' are too, within the
inductive invariants.

| run | shows |
|---|---|
| `outbox_leader` | two replicas, two events of one subject, two destinations, two faults; sessions die only with their processes. No subject skips an event; only the lock's holder drains; a delivered record has no pending delivery; a published delivery is never put back |
| `outbox_split` | the same with one destination, sessions that die under live leaders and passes that outlast the retention: at-least-once and honest marks still hold, and the outbox implements EventDelivery |
| `outbox_flow` | liveness with an unroutable and a refused event of one subject and a good one of another: the good one arrives, the stuck flag and the totals are exact, and without faults what is published is marked |
| `inbox_single` | two replicas, a malformed record that is skipped, dedup, two faults: the cursor never goes back, each second run of a handler is paid for by a fault |
| `inbox_split` | two readers at once before a malformed record that blocks: the cursor never leads, order holds, and what is before the malformed record is settled in the end, unless every Consume has returned as `inbox_returns` shows |
| `pipeline_both` | one publisher and one consumer, serial producers (`SerialWriters`), with a crash, a dead session or a failed statement at either end and a publish whose answer is lost: the pipeline implements EventDelivery, no committed event falls between the parts, and every committed event of the stream is handled in the end, unless every Consume has returned as `inbox_returns` shows |
| `parts_each` | the small components. Local database: migrations once and in order over crashes and power failures, the file implements MigratedStore, Store returns. Sink: nothing accepted is stranded, calls return. Sandbox: no unknown container, calls return. NATS: nothing lost, two callbacks only when the server did not hear in time. Credentials: no lost update within a provider, saves whole, read back with their own secrets and the last tenant. Spinner: quiet after Stop. Cache: only expired rows go. Trie: the dictionary. S3 writer: Close is honest, calls return. Stream access: tokens grant the streams and operations that were asked for. Inbox from the tail: what was read before the first ack is redelivered |
| `sync_two` | two callers, a log of two, a corrupted, a refused and a good event, a breaker that opens at the second failure, two faults: the client implements ReliableSync, nothing lost, counter exact, reports honest, calls return, the log drains |

Four runs find a violation of what the repository says; `findings` in
`PROJECT.json` quotes the lines.

| run | what the code does |
|---|---|
| `outbox_unmarked` | a failed count or mark after the last delivery's save is never made up for: later passes read only unpublished deliveries, so the record stays outstanding and is never purged |
| `outbox_starved` | failed attempts use the batch: as many failing subjects as the batch has attempts and no other subject is published again |
| `outbox_commit` | overlapping transactions commit out of id order, and the later event of the subject is published first |
| `inbox_returns` | a term that ends between the election and the reopen ends Consume although its own context lives |

Some guarantees hold only under a switch, which is why runs and theorems name
it. With `SessionLoss`, two replicas drain, a stale save puts a published
delivery back to pending (it is published again) and, in the inbox, a former
leader may move the cursor back for a moment; none of it loses an event, as
`outbox_split`, `inbox_split` and `pipeline_both` show. Without `SerialWriters` subjects lose their
order (`outbox_commit`); `EventPipeline` sets it to TRUE, so what is said of the pipeline is said of
serial producers. A replica that hands over after a
bootstrap from the tail and before its first ack loses the records it had read,
so the tail's instance has one replica and no crash.

## Bounds, and why they are enough

* Two replicas: every race in the code is between a leader and its successor;
  a third would be another standby. Replicas are symmetric in the code, so
  symmetry is used in the runs without liveness.
* Two events of one subject are what order needs; a third event, of
  another subject, is what flow and starvation need. `BatchSize = 2` makes a
  window both full and short, and lets failures use up a pass in `starved`.
* One or two destinations: marks need two, since a record is marked when the
  last of them is done; the rest works on one at a time.
* Three positions in a feed: one behind the cursor, one in hand, one to come.
* A log of two for three events: Emit meets its limit, a batch is full, and a
  second batch follows.
* `MaxFaults` is two where the interest is in two faults together (a lost
  session and a failed statement; a failed send and a crash), one in the
  liveness runs of the outbox and the inbox, whose graphs would else be too large,
  and three for the tail, which may lose term, session and ack. It bounds only
  the environment; the proofs have no bound.
* Pipeline: two events of one subject are published, read and handled beside each
  other, the fault falls at any statement of either end, and the stream is never
  full: it has room for the two events, a duplicate of a lost answer and one of the fault. Races between two replicas of one end are what the runs of
  Outbox and Inbox are for (a second consumer here makes 935,000 states, a third event
  more than can be searched for liveness).
* Local database: an old binary with one migration in each list and a new one with
  two is the least in which each can be ahead of the other in either list;
  one retry makes both the retry and its end happen; two crashes let a power
  failure take back what an earlier one left half done.
* Error sink: a channel of one is full or empty at every step; two Handles and two
  Closes race each other; four errors wrap it.
* NATS: two subscribers, three deliveries, so that a message is given to both and
  given up, with the report, the delivery or the answer lost each time; a stream of one and
  two messages, so that one is pushed out while another subscriber holds it.
* Sandbox: a second container shows what a failed first Setup or Close left; two
  commands, one of this call and one of an earlier one.
* Credentials: two goroutines with one mutex and one with another, two calls of
  any kind; a third only repeats a pair.
* Spinner: two callers, two rounds: a leftover of the first in the second.
* Cache: two callers and three rows: the row read, the row put meanwhile, the
  next.
* Resolver: it reads through the provider two of the goroutines save to, alone or as a chain of two.
* S3 writer: two chunks, so that the upload fails before, between and after them.
* Stream access: two namespaces of which one begins with the other; two tenants, one of them
  named like a namespace; three names, two that begin with another and one of these with a
  colon; two tokens; a role the code refuses, and write, whose token may append and not read (the theorem has every role); the
  default lifetime and one that is too long.
* Trie: words that share no, some or all letters, one of them with a high byte;
  two values, so that overwriting shows.

## Fairness

Outbox and Inbox: each replica keeps taking the steps of its own loop (the
tickers fire, the database answers) and a dead one is restarted; both are weak.
The lock's connection is pinged, so a term whose session died ends. A destination
that is retried for ever accepts an event it does not refuse for good, and a
handler that is retried for ever succeeds: both strong, as the event may be tried
only now and then, and both the assumption under which at-least-once is worth
something. Nothing is assumed of the error branches.

Endpoint sync: tools call Sync again and again and its statements return; an open
breaker's timer runs. `EventuallyResolved` assumes in addition, in the formula
itself, that a server asked for ever resolves an event now and then: without
it an account that is over quota for ever keeps its events, as intended.
`SyncReturns` needs no such assumption.

Local database: a running Store keeps taking steps (its waits all have a timeout);
no process need start or close anything. Error sink: the goroutines run and
CloseTimeout passes, but the driver need never return. Sandbox: the daemon answers,
one way or another, and the timeouts of the waits pass; commands need not end,
streams need not close, the caller need not cancel. S3 writer: its two goroutines run, and
while a caller waits the service takes the chunks or answers one way or another. The
other small components state no liveness.

Pipeline: both loops run, and publishing and handling succeed now and then (strong fairness
of all publishes together and of all handlers together, weaker than what the two ends assume alone).

## What is proved

For every number of replicas, events, destinations and faults, with and without
dedup, session loss, serial writers and long stalls, from the ASSUMEs on the
constants alone (types of the constants, distinct destinations, positive limits),
unless a theorem names a switch:

* `OutboxProofs`: `TypeCorrect`; `NothingForgotten` (AtLeastOnce),
  `MarkingIsSound` (MarkedMeansReceived), `NothingUncommittedPublished`
  (OnlyCommitted); `SingleDrainer` (OnlyHolderDrains), from ~SessionLoss. None
  of the three in the middle is inductive alone: a pass marks what an earlier
  step of it learnt, and another replica may purge in between. `DeliveryInv` adds
  that rows belong to committed events and accepting destinations
  (`RowsOfCommitted`) and what every pass, stale or not, knows at each of its
  statements (`PassInv`: its copies are of pending rows of committed events, what
  it is about to save as published its destination has, and what it is about to
  mark or to delete every destination has). A step of another replica leaves it
  alone because commits are final and a destination forgets nothing (`Onward`).
* `DeliveredIsDone` (DeliveredMeansPublished), `PublishedIsFinal` (NeverUnpublished) and
  `StuckFlagIsExact` (StuckMeansFailing), from ~SessionLoss. `FreshInv` says that the
  leader's copies of the rows it has not saved equal the table, which is what saving whole
  rows needs; there is one leader, by `LeaderInv`. `FlagInv` says of every copy of a row,
  however old, that its flag agrees with its attempts; totals follow.
* `OrderKept` (NoGap) and `DeliversAsPromised` (ImplementsPromise), from
  SerialWriters, with or without session loss. `SerialInv`: ids are given in the order
  of commits. `GapPass`: of the committed events of a pass's destination, all up to its cursor are there,
  held back by a failure of their subject, or in its hands, and all before a row of its
  window are there, held or in the window. So the row it publishes has nothing of its subject missing
  before it. The window query re-establishes it because what is owed and not there is pending
  (AtLeastOnce) and the query returns a beginning of what is pending. The refinement
  follows: a commit's id is larger than all before, a publish is a Receive of an event
  whose predecessors are there, or a duplicate and a stutter.
* `InboxProofs`: `TypeCorrect`, `CursorIsSafe` (CursorNeverLeads), `StreamOrder`
  (HandledInOrder). `ConsumerInv` adds that every replica, leader or not, has
  settled everything before its position (`Order`), that the record in hand is
  the one before the session's position (`Shape`), and that dedup's table holds
  only events that were handled (`HandledMarks`). This is why two readers at
  once do no harm: the cursor is only ever set to a settled position.
  `CursorNeverGoesBack` (CursorMonotone), from ~SessionLoss: `LeaseInv` says a live term holds the
  lock and is nowhere behind the cursor. `RerunsBounded` (RerunsAreFaults), from Dedup and
  ~SessionLoss: `RerunInv` keeps an account. A replica whose term ended with a record ahead of it
  (`Stale`) may run one handler more, and so may the leader for an event that was handled and not
  marked (`Owing`); the reruns that happened and these two sets together never outnumber the
  faults. A handler that ends well moves one unit of the account (from `Stale` to `Owing`, or from
  either to the reruns), and only a fault adds one. With lost sessions the bound is false: two
  readers that decode each record before the other's mark cost a rerun per record for one fault.
  `NothingReadIsPassed` (NothingReadIsLost), for a replica alone that does not crash:
  `TailInv` says that every place it may read on from is past nothing read and unsettled.
* `EndpointSyncProofs`: `TypeCorrect`, `NoEventLost` (NothingLost),
  `CounterIsExact` (CountExact), `ReportsAreHonest` (SyncedHonest), `SyncsAsPromised`
  (SyncAsPromised). `Emission` says that the emitted events are finitely many and
  hold all that any caller has in hand, which gives every cardinality its value; `AnswersKnown`, that
  what a caller is about to mark the server has, or refuses for good; `Reported`,
  that what was reported is no longer pending, so a second mark counts nothing; `SentDecodes`,
  that no corrupted event is in a batch on its way. With it `ServerGains`: whatever a
  batch that went stale brings the server anew is pending still, since what has left the log
  is accepted or hopeless; the refinement follows from it and from the exact counter.
* `LocalDBProofs`: `MigrationsRunOnce` (DbExactlyOnceInOrder), `MigratesAsPromised`
  (DbMigratesAsPromised) and `StoredIsMigrated` (DbStoreMeansMigrated), for any number of processes, modules and migrations. `DbLogOK` speaks of
  every prefix of the log, which is why a power failure, which cuts it, keeps it; `DbCallOK`
  is what a running call knows of the file, by its place in the loop. The refinement needs `DbExact`
  too (a process takes the lock only for a migration its binary has), and that versions never go down along
  the log (`Grows`, from the invariant on prefixes), which bounds what a power failure leaves.
* `PartsProofs`: `NothingStranded` (SinkNothingStranded). `SinkNumbers`: the errors handled, the
  one in hand and those in the channel are what was accepted, in this order; `SinkOrder`: only a
  closed sink, which accepts nothing more, is drained. `NothingIsLost` (NatsNothingLost) and
  `OneCallbackInTime` (NatsOneCallback); `NsInTimeAlone`: a message that is not late and has a
  holder is not ready, has no other holder, and the server has heard of its callback. `SandboxLeavesNothing`, `CacheKeepsFreshRows`, `SpinnerGoesQuiet`.
* `TrieProofs`: `TreeIsDictionary` (TrieIsDictionary), for any alphabet and words. `TrieInv`: at
  each step the nodes are those on the way to a word or to where Delete has climbed.
* `CloudProofs`: `CredentialsKeepUpdates` (CrNoLostUpdate) and `CredentialsAreWhole`
  (CrSavedWhole; `CrSaves`: while a type's save is the last of its secrets, and no call that could change
  them has begun, the file has them); `ResolveReturnsWhole` (RsResolvedWhole), for any chain of resolvers: `RsInv` says
  that, while nobody writes beside it, what was read so far for a type that is saved is of that save, and that the
  resolvers already passed over had nothing saved or a read has failed. `CloseIsHonest` (UpCloseIsHonest).
  `TokensGrantAsAsked` (AcGrantsAsAsked), for any names and roles: a scope's prefix is
  that of each id it describes whatever the segments hold (`AcMatcherCovers`), and where ids can be told apart
  they are compared segment by segment (`AcJoinPrefix`: their first colons must agree;
  `AcScopePrefixIs`: a scope's prefix by its parts), so that it is of no other (`AcMatcherIsExact`).
* `PipelineProofs`: `NothingFallsBetween` (NothingInBetween) and `PipelineImplementsDelivery`
  (PipelineDelivers), for any number of publishers and consumers and with serial producers (the
  SerialWriters that `EventPipeline` sets). `OutboxProofs` and `InboxProofs`
  are instantiated as the pipeline instantiates `Outbox` and `Inbox`; what they assume of their constants is
  proved from the pipeline's own assumptions, and their inductive invariants are reused step by
  step (`Steps` sorts the pipeline's steps by what they move). The link is `Carried` (the stream holds
  exactly the events the S2 destination has received that belong to it) and `StreamOrdered`
  (before an event's first record stand all events of its subject committed before it),
  which the outbox's NoGap gives at each append and the inbox's order carries to the handler.
  `TailIsKept` (TailNothingReadIsLost): the run's instance of `NothingReadIsPassed`.

Every invariant, action property and refinement of a passing run is stated by one of these
theorems, those of outbox and inbox under the switches of their runs. The theorems about a
small component state the property for its own specification, without the fairness
`MCParts` adds for liveness.

Only model-checked: liveness, which needs fairness and is out of the prover's reach
(EventuallyReceived, MarkedUnlessFault, EventuallySettled, EventuallyHandled,
EventuallyResolved, SyncReturns, CallsReturn).

## Not modelled

* Generated code: `api/api.gen.go`, `apiguard/tykgen` (about a third of the repository's
  lines), mocks. It is what a generator emits for an interface, and no part of the program's own logic.
* Clients of services (`packageregistry`, `adapters`, `aiservices`, `apiguard`,
  `huggingface`, `updater`): a request, a decoded answer, no state between calls. The
  GitHub app's token cache is one value under one mutex, renewed a minute before it ends; an
  agent's memory is a list under a mutex.
* Rendering and terminal output (`tui` but the spinner), logging, tracing and metrics (`log`, `obs`):
  layout, and wrappers of libraries.
* Helpers without state (`semver`, `retry`, `utils`, `usefulerror`, `crypto`, `config`, score and report
  formats). A model of one would repeat it.
* Of modelled components: `Send` without a store; the statistics by event type; the plain NATS
  subscription, RPC and drain; creating and deleting streams and resolving basins;
  reading and writing files of a sandbox, its image pull; the operating system's keyring.

## Notes on the source

Met while modelling, and not claims of a run:

* S3 writer: a second Close waits for ever for a result that was taken (s3.go:200), and
  the upload has no timeout of its own.
* Stream access: the prefix of a tenant's scope also begins the ids of global streams
  whose namespace is named like the tenant, and no segment is checked for a colon, so that
  different streams may have one id; a token whose creation lost its answer cannot be revoked, as its id is
  never returned, and lives to its expiry.
* Credentials: an API key and a token pair share `tenant_domain`, so that saving one re-pairs the
  other; overlapping saves mix; a failed Get of one keychain resolver falls through to the next
  type, and only the last error is reported.
* Sandbox: an Execute with streams attached has no timeout while they are open, although
  `sandbox.go` says that WaitTimeout bounds the execution; a ContainerCreate whose answer is lost
  leaves a container.
* Local database: Close returns nil when the checkpoint is busy although it is called a
  durability barrier.
* Spinner: Start and Stop from two goroutines at once can close a channel twice, leave a handler
  behind, or wait for ever; `SpinQuiet` speaks of calls one after the other.
* Progress: Wait stops the renderer at once, although its comment says that it blocks until
  the trackers have completed (progress.go:117).
* Trie: WordsWithPrefix re-encodes a byte from 0x80 on (trie.go:198).
* Semver: Lowest tries only 0.0.0 to 0.0.19; Diff subtracts unsigned numbers.
* Endpoint sync: an event over quota is read again in the same call whenever another of
  its batch was resolved (client.go:221).
* MySQL cache: a Put over an existing row fails at the unique index and is only logged.
* Retry: it sleeps after the last failure too. NATS: a plain queue subscription drops the errors of its
  callback; MaxDeliver is the larger of five and what is configured.

## Plan

What is left: a second consumer in the pipeline's run under a bound on interleavings.
