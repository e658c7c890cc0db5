# cago in TLA+

cago is a Go framework for services: configuration, brokers, databases and
caches, sessions, locks, rate limits and an application life cycle around
them, and tools that generate and check code. This directory holds TLA+ models
of the parts of it in which several goroutines, processes, servers, program
runs or readers of one text have to agree, the TLC configurations that check
them on small instances, and proofs of the most important properties for every
value of the constants.

Paths below are relative to the root of the repository (`src/` in
`PROJECT.json`).

## 1. Inventory

`PROJECT.json` lists the same components with what is modelled of each, and
under `hazards` each hard case at its line with the properties that cover it.

| component | source | state | operations |
|---|---|---|---|
| Redis Stream subscriptions | `pkg/broker/redis_stream` | the group's pending list on the server; goroutines, batches, cursor | Publish, Subscribe, read, claim, ack, Unsubscribe |
| Kafka subscriptions | `pkg/broker/kafka` | committed offsets in the cluster; readers and positions | Publish, Subscribe, fetch, handle, commit, Unsubscribe |
| cached etcd client | `database/etcd`, `configs/etcd` | map `cache`, `mu`, watch goroutine | Get, Put, Delete, Watch; Scan, Has, Watch of the source |
| two-token sessions | `pkg/iam/sessions/manager`, `pkg/iam/authn` | access sessions, refresh sessions, access-token mapping | LoginBy, GetFromRequest, SaveToResponse, RefreshSession, Logout |
| broker facade | `pkg/broker/broker.go`, `wrap.go`, `utils/wrap` | default broker, chain of wrappers | Publish, Subscribe, recovery of panics |
| NSQ | `pkg/broker/nsq` | in-flight messages of nsqd | Publish, Subscribe, Finish/Requeue, Unsubscribe |
| event bus | `pkg/broker/event_bus` | the library's handlers | Publish, Subscribe |
| Redis lock | `pkg/sync/redis.go` | one key with a time to live | LockKey, TryLockKey, UnlockKey |
| rate limits | `pkg/limit` | a sorted set per key | Take and its cancel function, FuncTake, Count; CombinationLimit |
| dependent cache | `database/cache` | values with the version of their dependency | Get, Set, GetOrSet, Has, Del, InvalidKey |
| other sessions | `pkg/iam/sessions/manager` (`memory.go`, `cookie.go`), `pkg/iam/authn/authn.go` | memory store, cookie | Get, Save, Refresh, Delete; Middleware |
| life cycle | `registry.go`, `component.go`, `pkg/gogo`, `server` | component list, context, WaitGroup | Registry, RegistryCancel, Start |
| Loki writer | `pkg/logger/loki` | channel of 1024 lines | Write, push loop |
| permissions | `middleware/permission` | policies, groups | Check, QueryPolicies, AddPolicy, RemovePolicy, AddUserToGroup |
| configuration | `configs` | the file, what each program read of it | NewConfig, Scan, Has, Watch |
| migrations | `database/migrate/mongomigrate` | the collection of records | Migrate |
| router, bindings, client, replies | `server/mux`, `pkg/utils/httputils` | routes; errors that requests share | Bind, requests, HandleError |
| Swagger, linter | `pkg/swagger`, `tools/cagolint` | definitions, files | Gen, Write, checks |
| code generator | `internal/cmd/gen` | controller, service, entity and repository files | gen, gen gorm, gen mongo; the generated repository |
| databases, audit, tracing, object storage, validation | the rest | none of their own | pass-through, start-up |

How they interact:

* A handler is called by a broker's goroutine through the wrappers of the
  facade. Its result, its panic and its calls of `event.Ack` decide what the
  broker tells the server. Nothing else flows back.
* `configs/etcd` reads and watches through `database/etcd`; the client's watch
  goroutine writes the same cache as the callers of Get, Put and Delete.
* The two-token manager is built from two ordinary session managers and a
  cache; it coordinates three stores without a transaction. `authn` calls it
  from concurrent HTTP requests.
* The life cycle cancels the context that every subscription, server and
  logger watches, calls `CloseHandle` in reverse order of registration, and
  waits at most ten seconds for the goroutines of `gogo`.

What is hard in each part, and what makes it correct:

* **Redis Streams.** Concurrent consumers and claimers, in several processes,
  move pending entries between names; replies are lost, acks fail, processes
  die, the stream is trimmed, and Unsubscribe deletes the consumers. Correct:
  a message that was not dealt with stays where a claimer finds it; a closed
  subscription leaves nothing behind under a name that nobody reads; what
  failed is handled again.
* **Kafka.** Rebalances between fetch and commit, late commits that move an
  offset back, commits skipped for Retry. Correct: no gap in a partition, no
  commit ahead of the handling, everything is handled.
* **etcd.** Reads outside the lock, a watch that applies events between calls,
  a consumer that stops receiving, a write whose answer is lost. Correct: the
  cache is not behind what its user was told, follows etcd, and no call hangs.
* **Sessions.** Two or three writes per refresh, each of which may be the last
  one; two requests with one token. Correct: a working pair is usable for a
  refresh and a logout, used tokens are dead, a logout ends the login.
* **Broker facade, NSQ, event bus.** A recovered panic looks like success to
  the broker; responses race nsqd's timeout; runs of several goroutines share
  the slice of the wraps; a handler publishes while its own subscription is
  locked. Correct: what leaves the channel was settled as the options ask, each
  message leaves in the end, a run calls its own function once, Publish returns.
* **Redis lock.** The time to live of the key is the caller's patience, and
  UnlockKey deletes without looking at the owner. Correct: two holders only
  after one overran its time or a DEL was repeated; an orphaned lock is freed.
* **Rate limits.** Count and add are separate calls; a combination must take
  back what it took. Correct: the quota is exceeded by at most one per other
  goroutine, and what counts is what was admitted.
* **Dependent cache.** The version is read after the data was computed; readers
  may each create a missing version. Correct: after InvalidKey nobody gets data
  from before it, but for one race.
* **Migrations.** Instances of several versions start together and crash.
  Correct: recorded once each, in order, and complete before a program starts.
* **Memory sessions.** The store hands out the object itself, so requests
  change one object together. Correct: a replaced or ended id is dead, a
  session has one id at most, and no cookie leads to somebody else's session.
* **Life cycle, Loki.** Components are closed before the goroutines that use
  them have ended, the wait is bounded, and a full channel of log lines blocks
  every goroutine once its reader has stopped. Correct: requests are answered
  before a return in time; Start returns.
* **Permissions.** A check reads the policies one by one while they change.
  Correct: a denying policy that was there all the while is obeyed.
* **Configuration file.** Several programs rewrite one file from what they read.
  Correct: the operator's values stay, and programs start in the end.
* **Generated repositories.** A list is two queries per page, an update writes
  back what was found earlier. Correct: deleted rows stay deleted, and who reads
  all pages has seen what was there all along.
* **One declaration, five readers.** Router, documentation, linter, comments and
  client read the same tags with different code, and do differ for many of
  them. Correct: what the linter lets pass has the same routes for all of them,
  and it is known from a field's tags which of them place it as the router does.
* **Generator.** It keeps no record: each run looks at the text of files that
  people edit and that an earlier run may have left incomplete. Correct: a run
  that finished left nothing out, and its text builds.

## 2. Modules

| module | models | checked in | proofs |
|---|---|---|---|
| `RedisStream` | `pkg/broker/redis_stream` | `redis_stream*` | `RedisStreamProofs` |
| `KafkaReader` | `pkg/broker/kafka` | `kafka*` | `KafkaReaderProofs` |
| `GroupDelivery` | what both promise | through them | `RedisStreamProofs`, `KafkaReaderProofs` |
| `EtcdCache` | `database/etcd/client.go`, `configs/etcd/etcd.go` | `etcd_*` | `EtcdCacheProofs` |
| `RefreshSession` | `pkg/iam/sessions/manager`, `pkg/iam/authn` | `sessions*` | `RefreshSessionProofs` |
| `RedisLock` | `pkg/sync/redis.go` | `processes` | `ProcessProofs` |
| `NsqReader` | `pkg/broker/nsq` | `processes` | `ProcessProofs` |
| `EventBus` | `pkg/broker/event_bus` | `processes` | `ProcessProofs` |
| `HandlerWrap` | `pkg/utils/wrap`, `pkg/broker/broker.go`, `wrap.go` | `processes` | `ProcessProofs` |
| `HttpReply` | `pkg/utils/httputils/handle.go`, `server/mux/router.go` | `processes` | `ProcessProofs` |
| `Lifecycle` | `registry.go`, `pkg/gogo`, `server`, `pkg/logger/loki` | `processes` | `ProcessProofs` |
| `FileConfig` | `configs/file`, `configs/config.go` | `processes` | `ProcessProofs` |
| `PeriodLimit` | `pkg/limit` | `data` | `LimitProofs` |
| `DependCache` | `database/cache` | `data` | `DataProofs` |
| `MongoMigrate` | `database/migrate/mongomigrate` | `data` | `DataProofs` |
| `MemorySession` | `manager/memory.go`, `cookie.go`, `expire.go`, `authn` | `data` | `DataProofs` |
| `PolicyStore` | `middleware/permission` | `data` | `DataProofs` |
| `Repository` | the text of `gen/database.go` and `gen/mongo.go` as a program | `data` | `DataProofs` |
| `ApiContract` | `server/mux`, `pkg/swagger/request.go`, `cagolint`, `gen/controller.go`, `muxclient` | `data` | `ToolProofs` |
| `SwaggerDefs` | `pkg/swagger/struct.go`, `write.go` | `data` | `ToolProofs` |
| `Generator` | `gen/gen.go`, `controller.go`, `service.go` | `data` | `ToolProofs` |
| `TableGen` | `gen/database.go`, `gen/mongo.go` | `data` | `ToolProofs` |
| `MethodText` | `gen/utils/utils.go`, `gen/service.go` | `data` | `ToolProofs` |
| `Process` | the seven parts of a process side by side | `processes` | `ProcessProofs` |
| `Data` | the eleven parts that keep data and the tools side by side | `data` | `LimitProofs`, `DataProofs`, `ToolProofs` |

`Process` and `Data` each instantiate several modules that share no state: the
variable `which` chooses one of them in the first state, and a behaviour is a
behaviour of that one while the variables of the others keep their first
values. The modules are independent in the code as well; where components do
interact, they are in one module (the bus with its handlers, the life cycle
with servers and log writer, the configuration source with the etcd client, a
combination with its limits). One run then checks the parts beside each other,
and one theorem states a property of a part of the specification that the run
checks.

`MC*` modules give TLC the functions and the symmetry sets that a `.cfg`
cannot state. `MCProcess` and `MCData` also let the parts that are not at work
begin in one way only, which changes none of the behaviours of the part that is.
`MCProcess` makes two choices for the parts at work: the NSQ subscription `r`
has AutoAck and Retry, and the operator has not written the key `env` at first.
`MCRedisStream!MCOldestSpec` keeps, of what a claimer may find, the case that
all pending entries are idle and nobody handles one; it serves only the run
`redis_attempts`.
`map` in `PROJECT.json` names the lines that each definition stands for.
Definitions under a comment that starts with "Mutant" are not part of the
models: they are variants of the definition below them, with which the property
of a run must fail.

One convention holds everywhere: a remote call is a step of its own, and a
failed call is either a call that had no effect or one whose effect happened
and whose answer was lost. Failures are drawn from a budget (`faults`,
`MaxFaults`), failing handlers from `fails`, `MaxFails`.

### RedisStream

State: the server's stream (`lastId`, `first`), its group (`grouped`,
`lastDelivered`) and the group's pending list (`owner`, `deliveries`);
per subscription its life (`status`, `removed`, `undeleted`); per goroutine its
place (`pc`), its batch, the delivery counts it will report and, for the
claimer, its cursor. `outcome` and `dropped` are history.

| action | code (`subscriber.go` unless said) |
|---|---|
| Publish | `broker.go` Publish: XADD, MAXLEN ~ |
| Subscribe | newSubscribe: XGROUP CREATE MKSTREAM, the goroutines start |
| ReadGroup, ReadGroupFails, SleepOver | runConsumer, sleep |
| Tick, AutoClaim, AutoClaimFails | runClaimer, claimOnce |
| PendingAttempts | pendingAttempts |
| Handle, Ack, AckFails | process, decideAck |
| Cancel, DelConsumer, Return | Unsubscribe, the ends of the loops |
| Crash | the process dies |

Abstractions. A message is its position. How long an entry has been idle is
not counted: XAUTOCLAIM takes an arbitrary set of pending entries as idle for
long enough, also entries that are being handled at that moment, because a
handler may take longer than ClaimMinIdle. The server's delivery counter stops
at `MaxCounted`. Retry without AutoAck means nothing to the code and is left
out of `Init`. A handler's `event.Ack` counts only without AutoAck. A cancelled
context does not interrupt a handler. The check of the context and the blocking
call that follows are one place, `poll`. A handler that panics ends the process
unless the facade recovers it, so it is a `Crash` here.

### KafkaReader

State: ends and committed offsets of the partitions, the assignment as each
reader's `position`, the readers' places and the message each one works on.
The cluster, the coordinator and the reader of the client library are external
and modelled by how the code uses them: a rebalance starts a partition at its
committed offset on any member, a reader that was closed may still return what
it had fetched, and a commit sets the offset, also backwards. `Fetch`,
`Handle`, `Commit`, `CommitFails` and `Return` are the loop of runReader;
`Cancel`, `CloseReaders` and `WaitReaders` are Unsubscribe. Message keys, SASL
and TLS do not matter to the properties.

### EtcdCache

One key. A value is named by the revision that wrote it, 0 is the absent
value. `mutex` is the writer's side of `c.mu`; the reader's side and the
watch's critical section are single steps that need it free. `Lookup`, `Read`,
`Fill` are Get (Scan and Has go through it), `Lock`, `WriteEtcd`, `Store` are
Put and Delete, `CallFails` is an error of either, done or not done in etcd.
`StartWatch` ... `WatchEnds` are the goroutine of Watch with its unbuffered
channel; `Quit` is a consumer that stops receiving, as the configuration
source does when a response carries an error (`configs/etcd/etcd.go:94-97`; a
value it cannot parse does not stop it). `overtaken` records the race of section 5
so that the other properties can be stated beside it.

Each client has one watch of the key. Several watches of one key on one client
apply the same events in orders of their own; that is listed as a hazard and
planned.

### RefreshSession

The three stores, one user agent that holds the last pair it was sent, and
goroutines that serve its requests, one call of a store per step. A refresh by
`SaveToResponse` runs find, [findRefresh,] check, drop, make, dropRefresh,
makeRefresh, [unlink, link,] reply; `Authn.RefreshSession` refreshes the access
session before that; a logout runs confirm, [lookup, dropRefresh, unlink,]
drop, reply: without the mapping a logout leaves the refresh token alone, and
`SpentStaysDead` claims nothing of it. Brackets depend on the mapping option and on what is found.

Abstractions. Tokens are numbers drawn in order. A call that was done but
reported as failed ends the request like a failure of the next call, so only
calls without effect fail. Stores are those that serialise what they keep (the
cache and Redis managers); the memory manager hands out pointers to what it
stores and has a module of its own, `MemorySession`. The user agent sends its cookie with its own refresh
token or with none. An entry of the mapping outlives its refresh session: it is
set later with the same duration.

### GroupDelivery

What a consumer group promises, whatever the broker: a published message stays
open until its handling was settled as the options ask, or until the broker
itself lost it; a message is handled after its predecessors; a late ack may
open later messages again. `RedisStream!KeepsPromise` and
`KafkaReader!KeepsPromise` are `GroupDelivery!Spec` under a refinement mapping:
open messages are the pending and undelivered entries of a stream, and the
offsets from the committed one on; lost ones are trimmed or dropped by
DELCONSUMER; with Kafka the predecessors are the earlier offsets of the
partition. Goroutines, batches, positions, rebalances and crashes are not
visible in it.

### RedisLock

`key` is who made the key (Redis only stores the constant 1), `pc` where each
client is. `Try` is SET NX inside LockKey's loop or TryLockKey, `Wake` the
sleep of 100 ms and the next try, `Del` UnlockKey. `TryLost` and `DelLost` are
calls whose reply is lost: the client library repeats the command or the caller
gets an error, whatever the command did. `Expire` may come at any time,
`Abandon` is a process that dies or a caller that never unlocks. `overrun` and
`repeated` record the two ways in which exclusion is lost.

### NsqReader

nsqd's side (`channel`, `owner`, `attempts`) and the handler goroutines with
their options. `Deliver` hands out a message, `Act` is event.Ack or
event.Requeue, `Return` the deferred response, `Timeout` takes a message back
while its handler still runs, so that a late response is refused. `Crash` ends
a subscription's process. With nsqlookupd addresses Unsubscribe fails for every
one of them and changes nothing; `Unsubscribe` is the other form.

### EventBus

One topic of the library's bus. `Publish` copies the subscriptions; `HandOver`
takes a subscription's mutex and starts its callback; `Callback` starts the
handler's goroutine; `Unlock` gives the mutex back when the callback has
returned. A handler may publish (`HandlerPublishes`) and waits for it.
`Unsubscribe` removes the topic's first subscription, whichever called it: the
bus compares code pointers, and all callbacks of newSubscriber share one. No
document promises more.

### HandlerWrap

Run appends its own function to the slice of the wraps and goes through it.
Where the array behind the slice has a slot to spare, concurrent runs write
their functions into that one slot (`Run`), and `CallLast` calls what stands
there by then. The facade adds its wraps one at a time, the logger's and the
tracer's if there is one; Go's append leaves no slot to spare after one, two or
four of them, and one after three (`HasSpare`). The facade makes one or two (`WrapAssumption`);
the mutant makes three. The
recover of a handler's panic turns it into nil (`CallLast`).

### HttpReply

A request from the middleware to its reply. An error that is made once for the
whole program is written to (`Stamp`) and then encoded (`Encode`) with nothing
between to keep other requests from writing theirs; `met` records who could.

### Lifecycle

The main goroutine from Registry to Start's return (`Registry`, `Start`,
`Stopping`, `CloseHandle`, `Waited`, `TimedOut`, `Return`), a server with its
shutdown and serve goroutines and its requests, scheduled jobs, and Loki's
channel and loop. Each logged line is a step that needs room in the channel.
What a component does is a choice of these four kinds.

### FileConfig

Programs read the file when they start and Scan the keys they need in order. A
missing key is added to the program's memory and the whole memory is written;
the Scan fails all the same, so the program ends and is started again. A write
is two steps (truncated, written). The operator edits between them; crashes
fall anywhere. `lost` and `torn` record a write over a file that was changed
since it was read, and a read of a file that is being written.

### PeriodLimit

CombinationLimit.FuncTake over PeriodLimits, one Redis command per step:
`Count`, `Card`, `ZAdd`, `Expire`, the cleanup of another goroutine (`Cleanup`),
`Work` and `Cancel`. Redis keeps for each limit a set of calls with the second
of each; `clock` is seconds. `TakeFails` is an error of any command. `admitted`
and `failed` record what was decided, `slipped` calls whose set expired between
their ZADD and EXPIRE.

### DependCache

`db` is the revision of the data, `dep` the version under the dependency's key,
`entry` what is stored with which version. A reader's GetOrSet is `Get`,
`HasVersion` or `NewVersion`, `Valid`, `Load`, `Version`, `SetVersion`, `Store`,
`Return`; a writer's update is `Update`, `InvalidKey`. Times to live and
failures fall anywhere. `Datum` carries the revision and the newest confirmed
one it may stand for: where a fill is between the database and the version when
an InvalidKey comes, the entry is taken for valid afterwards, and the property
allows that and nothing else.

### MongoMigrate

The collection (`records`, `indexed`), what each migration did (`applied`), and
instances that know 1 or 3 of them. `Find` compares the records with the known
list, `Migrate` runs one, `Insert` records it and fails on a duplicate key once
the index exists. Processes end anywhere and are started again. An instance
that knows fewer migrations than are recorded panics or refuses, as the code
does (`Compare`).

### MemorySession

The map of sessions, whose values are the objects themselves. Login, Request,
Logout and Refresh follow authn through the expiring manager; `RefreshDelete`,
`RefreshClear` and `RefreshSave` are the three steps of memory.go's Refresh, and
other requests that hold the object come between them. `raced` records objects
that two changing requests held at once. The time to live is set by a login and
by the expiring manager's Refresh; its Save leaves the one that is there alone,
which is not what its comment says (section 5).

### PolicyStore

The slice of policies as Go keeps it (`array`, `len`), a check that reads it
element by element (`Read`) for the user's policies and then for the groups'
(`Follow`), and `Decide` that takes the first by priority. `Groups` are the
resources whose name begins with "group:". Only AddPolicy takes the lock; RemovePolicy shifts the array one element at a time (`Shift`).
`stable` and `during` record what was there all the time, and at any time, of a
check.

### Repository

The templates of the generated repositories as programs, for gorm and mongo.
Rows have a status and a second of creation. A caller holds what it found and
writes it back; somebody reads page after page, each page a `Count` and a
`List`. `Size`, `PageNumber` and `Offset` are those of `httputils.PageRequest`.

### ApiContract

A declaration is what five programs look at: the paths, methods and content
type of mux.Meta, the Go names and tags (`uri`, `form`, `json`, `header`, in
any combination) of the fields and those of embedded types (`form:",inline"`),
the file and the handler around them. `Bind` is the router (gin's conflicts
are external), `Document` parseRoute, `Lint` the analyzer's rules;
`Commented...` are the Swaggo comments of the generator, `Called...` the
client's request. Each is a translation of its own source. For a field,
`Reads` is the place (path, query, form, header or body) and the name from
which the router fills it, `DocumentedPlaces`, `CommentedPlace` and
`CalledPlaces` are those where the others put it. They are not the same for
every field: `RightlyDocumented`, `RightlyCommented` and `RightlyCalled` say
from the tags for which fields they are, and their comments name the others.
Paths are sequences of segments, so that a parameter whose name begins
another's can be told apart; nothing is put together character by character.

### SwaggerDefs

The recursion of parseStruct, parseFieldType and parseExpr as a stack of
frames. A field's type is one name, or two for an instance `A[B]` of a generic
type; a field may be inline. `Descend` goes to the first type the next field
names that has no definition, `Refer` leaves a reference made of the names, or
what an inline field brings along (`Brings`), `Leave` completes a definition,
`NotFound` is a type or package that does not exist, or a basic type as an
argument, for which no package is found either. The schema of an instance is
only put into InnerDefinitions, which never becomes part of the document: a
reference of two names leads nowhere (`LeadsNowhere`), whatever else holds.
`Write` writes one output file after the other.

### Generator, TableGen, MethodText

`Generator` has for each request type whether its controller method, its method
in the interface and the implementing one are absent, generated or written by
the developer, and the text that makes a run believe they are there. A run is
`Start`, one step per request type, `Service`, `Implement`; the developer edits
between runs; `Kill` ends a run between two files. `TableGen` has the two files
of a table under the two commands. `MethodText` is the text of a service method
for each form of parameter and result type: what is written, where the
generator panics, and whether the result compiles.

## 3. What the runs check

Runs that must pass:

| run | instance | properties |
|---|---|---|
| `redis_stream` | two processes, one consumer each, 2 messages, trimming to 1, s1 may unsubscribe or crash, one failing handler call | TypeOK, UnsettledStaysPending, ClosedOwnsNothing, OnlyOfflineConsumersDeleted, KeepsPromise |
| `redis_stream_live` | the same with 1 message, no trimming, one failing call of the server | EventuallyDone |
| `kafka` | two subscriptions, one partition of 2 messages, one failing commit or extra rebalance, one failing handler call, s1 may leave or crash | TypeOK, HandledIsPrefix, CommitFollowsHandling, EventuallyHandled, KeepsPromise |
| `etcd_cache` | two callers with one call each, one watch, 2 writes, one failure | TypeOK, NeverBehindDelivered, CacheFollows, CallsReturn |
| `sessions` | two goroutines, 3 requests, 8 tokens, one failure, expiry at any time | TypeOK, LivingPairIsLinked, SpentStaysDead, LogoutEndsLogin |
| `processes` | `Process`: lock, NSQ, event bus, wraps, replies, life cycle, configuration file | TypeOK, HoldersExclude, RemovedIsSettled, RunIsItsOwn, AnsweredAtReturn, OperatorIsKept, OrphanIsFreed, EveryMessageLeaves, PublishReturns, StartReturns, StartsInTheEnd |
| `data` | `Data`: limits, dependent cache, migrations, memory sessions, policies, repositories, declarations, definitions, generator, tables, texts | TypeOK, QuotaIsKept, FreshAfterInvalidKey, MigrationsInOrder, RetiredIdIsDead, DenyIsObeyed, PagesShowTheLiving, ReadersAgree, RefsResolve, FinishedIsComplete |

Brokers, etcd and the two-token sessions:

* **UnsettledStaysPending**: a message that the group was given stays pending
  until the handler did what the options ask for, unless the stream was
  trimmed past it or DELCONSUMER dropped it.
* **ClosedOwnsNothing**, **OnlyOfflineConsumersDeleted**: Unsubscribe leaves no
  pending entry under its names, and deletes no consumer that still works.
* **KeepsPromise** of `RedisStream` and `KafkaReader`: the broker implements
  `GroupDelivery` under the refinement mapping of section 2.
* **EventuallyDone**: every published message leaves the pending list or the
  stream while a subscription that nobody stops is running.
* **HandledIsPrefix**, **CommitFollowsHandling**, **EventuallyHandled**: no gap
  in a partition; no offset beyond what was handled; nothing is left behind.
* **NeverBehindDelivered**: what the consumer of a watch was told, its next Get
  knows, unless a Get overtook the event. **CacheFollows**: after the last
  write the cache holds the present value or nothing. **CallsReturn**: nobody
  keeps the mutex, not even a watch whose consumer is gone.
* **LivingPairIsLinked**: a working refresh token names, and is mapped from,
  the access token it was sent with. **SpentStaysDead**: after a refresh or a
  logout succeeded its tokens work no more, whatever else is under way.
  **LogoutEndsLogin**: after a logout no token sent since the login works, if
  the requests came one at a time. With concurrent requests this does not
  hold: a refresh that a logout overlaps may store and send a new pair after
  the logout has deleted the old one.

`processes`:

* **HoldersExclude**: two clients hold the Redis lock at once only after a time
  to live ran out under its owner, or a DEL was sent twice. **OrphanIsFreed**:
  a key whose owner crashed, or never learned that it has the lock, is freed.
* **RemovedIsSettled**: a message leaves an NSQ channel only when a handler
  dealt with it, acknowledged it or panicked, when the subscription drops what
  fails, or when its attempts are used up, although after timeouts several
  handlers respond for one message. **EveryMessageLeaves**: it does leave while
  a subscription is there.
* **PublishReturns**: a Publish on the bus returns, also one that a handler
  makes while others want the same mutexes, and what it handed over is handled.
* **RunIsItsOwn** joins two properties. Concurrent runs of one chain of wraps
  each call their own function, once, and return what it returned, a panic as
  nil (`HandlerWrap`). A reply is of the error its request failed with, and
  names that request or one that was failing with the same shared error at the
  time (`HttpReply!ReplyIsItsOwn`).
* **AnsweredAtReturn**: when Start returns before its ten seconds are over,
  every request was answered and nothing serves. **StartReturns**: Start
  returns when the context is done, whatever requests hang, unless Loki's
  channel has run full after the loop that empties it ended.
* **OperatorIsKept**: what the operator wrote into the configuration file stays
  although programs write it too, unless one writes from memory over a file
  that was changed since it read it, or dies while it writes.
  **StartsInTheEnd**: a program that ends because a key is missing runs at last
  when it is started again and again, unless the file was torn: two programs
  that read each other's half-written file can keep each other from starting.

`data`:

* **QuotaIsKept** joins three properties of the limits. `WindowQuota`: each
  other goroutine can exceed the quota of a window by one, and no more, if the
  period is longer than the cleanup's margin and the time a Take may stall.
  `AdmittedIsCounted`: what was admitted counts for a whole period, if the
  period is longer than the cleanup's margin and the set does not expire between
  a call's ZADD and its EXPIRE. `RefusedTakesNothing`: a call that one limit of
  several refused counts in none, unless a command failed.
* **FreshAfterInvalidKey**: a call that begins after InvalidKey returned gets
  data at least as new as that update, but for a fill that read the database
  before the update and its version after it; and that entry dies at the next
  InvalidKey.
* **MigrationsInOrder**: the records are the first migrations in their order,
  none runs before the one before it is recorded, and a program that starts has
  all it knows.
* **RetiredIdIsDead**: a session that one request at a time changed is found
  under one id at most, and under none that a refresh replaced or a logout
  ended. Where two requests race for the one object an old id may live on; but
  also then the id that a request came with leads to the session it found or
  nowhere, never to somebody else's.
* **DenyIsObeyed**: a request is let through only by a policy that applied to it
  while it was checked, and that no policy denying it all the while comes
  before, unless a RemovePolicy ran beside the check.
* **PagesShowTheLiving**: a deleted row is in no page, unless somebody had found
  it before and gorm's Update brings it back; who reads all pages sees every row
  that was active throughout, with the exceptions its comment names.
* **ReadersAgree**: when the linter reports nothing and the application starts,
  the Swaggo comments name the routes, for any declarations; a client whose
  declaration is plain about its path reaches its route; and the documentation
  has the router's routes when all declarations are plain. `Plain` is about
  paths and methods only. Of the fields, which may have any tags, documentation,
  comments and client each place exactly those as the router does that their
  `Rightly...` predicate names: the fields for which they differ, and no rule
  of the linter reports it, are part of the property and listed in section 5.
* **RefsResolve**: every type that a reference names has its definition, however
  types refer to each other; a reference leads to a definition if, and only if,
  it is not one to an instance `A[B]`; only definitions that are being parsed
  are incomplete; nothing incomplete is written.
* **FinishedIsComplete** joins three properties of the generator. After a run
  that came to its end nothing it should have made is missing, with the
  exceptions its comment names (`Generator`); the files of a table are there and
  fit each other, unless a run ended between the two (`TableGen!PairIsWhole`);
  the generated method implements the interface's and builds
  (`MethodText!MethodBuilds`).

Every property of every passing run has a mutant in `PROJECT.json`: a plausible
mistake in one modelled definition with which TLC finds the property violated
on the same instance.

### Bounds, and why they are enough

* Two processes or subscriptions are enough for "somebody else took it over";
  the third would repeat the second's role. One stops or crashes and one stays,
  which is what the liveness properties need to say something.
* Two messages give a batch with a first and a last message, a page that ends
  in the middle of a scan, and a partition with a successor. Trimming to one
  message makes the stream forget a pending one.
* One failure of each kind puts an error at every place; a retry after it is
  the normal path. With Redis Streams safety is checked without failing server
  calls and two messages, liveness with one failing call and one message; the
  theorems cover safety with any number of both.
* Two revisions of the etcd key allow an answer from before a write and one
  from after it. In `CallFails` a write at the last revision may fail without
  the budget: there the bound, not etcd, refuses it.
* Three requests are a login followed by two racing requests, or by a refresh
  that fails and is sent again, or by a refresh and a logout. Eight tokens are
  as many as these requests can draw, so `MaxId` cuts no behaviour off.
* Lock: three clients, so that one holds, one waits and one cleans up after
  itself; one sleep each, one lost reply.
* NSQ: one message, two handler goroutines of s with any options and one of r
  with AutoAck and Retry; two attempts and one crash, so that a late response
  meets the message in another handler, or its second timeout.
* Bus: two subscriptions, two publishes: from two callers, or one from within
  the other's handler. Wraps: three runs of two wraps, two of them of handlers.
  Replies: two requests and one shared error.
* Life cycle: four components, among them a server and a scheduler, Loki with a
  channel of three lines, two requests or jobs: fewer lines than the goroutines
  that log, so that it fills. The code's channel has 1024 places; what counts
  is only whether more lines come than fit.
* Configuration: a program that needs one key and one that needs two, one edit,
  one crash: each can write over what the other or the operator wrote.
* Limits: two goroutines with three calls in all on two limits of periods 3 and 4 and
  quotas 2 and 1, a clock up to 5, so that windows pass and sets expire. The
  cleanup's minute is 2 units here (`Slack`), so that with a stall of 1 the
  quota is promised of the one limit and not of the other. One command fails.
* Dependent cache: two readers and a writer with two updates, two versions, one
  failure: a fill that is between the database and its version at an update,
  and a second update after it.
* Migrations: instances that know one, three and three migrations, two starts
  each. Memory sessions: two requests, two logins, three ids, a lifetime of 1
  in a time of 2. Policies: one check beside one change at a time, three
  policies, one of them of a group. Repository: one caller and one reader of pages over three rows,
  pages of at most 2, asked for as 1 or 3.
* Declarations (`MCPairs`): two request types, each of about fifteen forms, one
  for each feature of a path or method in which the readers differ, a method
  that the documentation does not know among them; or one request with a field
  of every make (48 choices of tags, with and without a name that the Go name or
  the path has too, and three inlined ones) in five readings (GET, a list with DELETE, POST
  with each content type), beside one of another path. Definitions: three types,
  each with one of eight lists of fields (none, one or two of the types, a
  missing one, one under another import, instances, inline fields), and one of
  them may only rename another. Generator: two request types, three edits, one kill, so
  that a run meets what a broken run and an edit left. Tables: three runs, two
  edits. Texts: up to two fields of 17 forms.
* In `data` the two callers of the limits, of the cache and of the sessions are
  interchangeable, and TLC identifies states that differ by their exchange.

### Fairness

* `RedisStream`: weak fairness of each goroutine's steps (goroutines are
  scheduled; handlers and calls return) and strong fairness of the scan in
  which all pending entries are idle for long enough: time passes, and a claimer
  that keeps ticking reaches such a scan. Nothing is assumed of Publish,
  Subscribe, Cancel, DelConsumer or Crash.
* `KafkaReader`: weak fairness of each reader's steps, of the two steps of an
  Unsubscribe that has begun, and of the coordinator's rebalance.
* `EtcdCache`: strong fairness of each caller and each watch goroutine, since
  `sync.RWMutex` lets neither readers nor writers starve. Nothing makes a
  consumer receive for ever: `Quit` may happen.
* `Process`, part by part. Lock: Redis expires a key in the end. NSQ: a
  handler returns (weak), nsqd delivers to a connection that is ready again and
  again (strong), a message's timeout comes. Bus: goroutines are scheduled, and
  a mutex that is free is taken by one of those who wait (weak). Life cycle:
  strong fairness of the main goroutine, since Go's channels serve blocked
  senders in the order in which they came; weak fairness of the loop that sends
  log lines while it runs; none of requests and jobs, which may hang.
  Configuration: weak fairness of each program's step, which includes being
  started again by whoever runs it.
* `RefreshSession` and `Data` state no liveness: a request that is served
  ends, or its server fails; the runs of a tool end.

Deadlock checking is off: all instances come to rest when their bounds are
used up or their subscriptions are closed. That no operation hangs is checked
by the liveness properties.

## 4. Proofs

The theorems hold for every value of the constants that meets the named
assumptions of the modules: any number of processes, goroutines, messages,
requests, limits, files or failures. TLC evaluates the assumptions on every run.
They say little more than of which type a constant is. What they say beyond it:

| assumption | what it demands | why the code justifies it |
|---|---|---|
| `DistinctProcs` (of two theorems) | subscriptions of one group are in processes of their own | consumers are named host-pid-index; section 6 |
| `WrapAssumption` | a chain has one wrap or two | the facade adds the logger's and the tracer's |
| `LimitAssumption` of `PeriodLimit` | a Take stalls for less than the cleanup's margin | the margin is a minute, and the Redis client gives a command up after seconds |
| `PolicyAssumption` | the user is no group | a group's name begins with "group:" |
| `SwaggerDefsAssumption` | finitely many types; a field names one type, or two for an instance of a generic one, each known or missing | they are those of the parsed packages; section 6 has the forms left out |
| `ApiContractAssumption` | declarations are well-formed (`WellFormed`) | a field has a Go name and any of the four tags, each path is a sequence of segments |
| `RepositoryAssumption` | the default page size is at most the largest one | `httputils.PageRequest` |

| theorem | property |
|---|---|
| `RedisStreamProofs!TypeCorrect` | TypeOK |
| `RedisStreamProofs!NoMessageForgotten` | UnsettledStaysPending |
| `RedisStreamProofs!UnsubscribeLeavesNothing` | ClosedOwnsNothing, given DistinctProcs |
| `RedisStreamProofs!UnsubscribeDeletesOffline` | OnlyOfflineConsumersDeleted, given DistinctProcs |
| `RedisStreamProofs!BrokerKeepsPromise` | KeepsPromise |
| `KafkaReaderProofs!TypeCorrect` | TypeOK |
| `KafkaReaderProofs!NoGapInAPartition` | HandledIsPrefix |
| `KafkaReaderProofs!CommitAfterHandling` | CommitFollowsHandling |
| `KafkaReaderProofs!ReadersKeepPromise` | KeepsPromise |
| `EtcdCacheProofs!TypeCorrect` | TypeOK |
| `EtcdCacheProofs!NotBehindTheWatch` | NeverBehindDelivered |
| `RefreshSessionProofs!TypeCorrect` | TypeOK |
| `RefreshSessionProofs!PairsStayLinked` | LivingPairIsLinked |
| `RefreshSessionProofs!SpentTokensStayDead` | SpentStaysDead |
| `RefreshSessionProofs!LogoutEndsTheLogin` | LogoutEndsLogin |
| `ProcessProofs!ProcessTypeCorrect` | TypeOK of `Process` |
| `ProcessProofs!LockExcludes` | HoldersExclude |
| `ProcessProofs!RemovedWasSettled` | RemovedIsSettled |
| `ProcessProofs!RunsAndRepliesAreTheirOwn` | RunIsItsOwn |
| `ProcessProofs!NothingUnansweredAtReturn` | AnsweredAtReturn |
| `ProcessProofs!OperatorsKeysStay` | OperatorIsKept |
| `LimitProofs!QuotaStaysKept` | QuotaIsKept |
| `DataProofs!MigrationsStayInOrder` | MigrationsInOrder |
| `DataProofs!InvalidKeyIsReloaded` | FreshAfterInvalidKey |
| `DataProofs!RetiredIdStaysDead` | RetiredIdIsDead |
| `DataProofs!DenyStaysObeyed` | DenyIsObeyed |
| `DataProofs!PagesStayTrue` | PagesShowTheLiving |
| `ToolProofs!ReadersStayAgreed` | ReadersAgree |
| `ToolProofs!ReferencesResolve` | RefsResolve |
| `ToolProofs!GeneratedIsComplete` | FinishedIsComplete |
| `ToolProofs!DataTypeCorrect` | TypeOK of `Data` |

None of the properties is inductive by itself. What each needs beside it, in
the words of the invariants of the proof modules:

* **NoMessageForgotten.** A goroutine that has decided to ack removes the entry
  one step later. `AckSettled` says that the message it is about to ack is
  settled; `outcome` only grows, so it stays so.
* **UnsubscribeLeavesNothing, UnsubscribeDeletesOffline.** `DeletedInOrder` ties
  `removed` to the life of the subscription and says that its goroutines are
  done while it deletes; `DeletedStayEmpty` says that a deleted name owns
  nothing from then on, which needs that nobody else works under that name. The
  name is host-pid-index, so this is where `DistinctProcs`, one subscription per
  process, is assumed. Two subscriptions of one group in one process share
  their names. Only DELCONSUMER drops entries, after the goroutines of its own
  subscription are done, and under that assumption nobody else bears the name.
* **NoGapInAPartition, CommitAfterHandling.** The two rest on each other.
  `FetchedHandled`: whatever lies below a reader's position is handled, but for
  the message it works on; `CurrentFollows`: all before that message is handled,
  and it is settled when it is about to be committed; `NotYet`: before Subscribe
  there is no goroutine. A rebalance re-establishes them because everything
  below the committed offset is handled.
* **BrokerKeepsPromise, ReadersKeepPromise.** Each step of the detailed
  specification is a step of `GroupDelivery` under the mapping, or changes
  nothing there; the initial states map to its initial state. For Redis Streams
  `Placed` says that what is pending, dropped or in a goroutine's batch was
  given to the group before, so that nothing is lost or settled before it was
  open; `Grouped` says when there is a group to give it to. For Kafka the
  invariant of the two theorems above gives the order, and `OnlyPublished` that
  nobody is at a message that is not there yet.
* **NotBehindTheWatch.** `WatchInOrder` orders delivered, applied, received and
  present revisions; `Exclusive` says that a caller between Lock and Store holds
  the mutex; then a revision written under the mutex is above every event
  applied before (`StoreIsNew`), and the cache, if it holds anything, is never
  below the last applied event (`CacheIsNew`), unless a Get overtook it.
* **PairsStayLinked, SpentTokensStayDead.** Tokens are drawn once (`Bounded`,
  `PairsApart`), the pair a request is making is its own until it is sent
  (`Private`, `OnItsWay`), requests come with a pair that was sent
  (`CameWithPair`), and `Stages` says for each place of a refresh or a logout
  what it has already removed or made. Both properties are conjuncts of the
  invariant: a refresh ends its pair correctly because that pair was linked.
* **LogoutEndsTheLogin** is about a manager with the mapping, and requests that
  come one at a time (`OneByOne`), some of which fail half-way. Then a request came with the pair
  that the user agent holds now (`CameWithHeld`); no other token of the login
  works, whichever call failed (`OnlyHeldLives`); a logout has taken of that
  pair what its place says (`LogoutTook`); after it nothing works (`Ended`).
* **LockExcludes.** `KeyIsHolders`: while neither kind of loss has happened, the
  key in Redis is that of whoever holds the lock or is about to give it back.
* **RemovedWasSettled.** `BusyWithMessage`: a handler that nsqd counts as the
  owner of a message works on that message, so what it answers is about it.
* **RunsAndRepliesAreTheirOwn.** `OwnFunction`: as append leaves no slot to
  spare after one wrap or two (`NothingSpare`), what a run calls last is its
  own, and what comes back is tied to it. `Acquainted`: two requests that are
  failing with one error at the same time have met; `StampedByMet`: an error
  that a request has stamped bears its own name or that of one it has met.
* **NothingUnansweredAtReturn.** `ServerAwaited`: while there are requests the
  server is not shut down, and past the wait everything is over or the time was.
* **OperatorsKeysStay.** `ReadAsItIs`: a program that read the file as it is has
  it in memory and nobody is writing; `WritesWhatIsThere`: until a write over
  somebody's change has happened, who writes is alone and writes what the
  operator wrote.
* **QuotaStaysKept.** The invariant follows an entry from the count that lets it
  in to the cleanup that may take it out. `StillThere` and `ExpiresLate`: what
  was added stays until it is old, for cleanup or time to live; `AccountedFor`:
  nothing else is there; `NotInTheFuture` bounds every clock reading that is
  still in use. A call claims its place when it has read a count below the
  quota. `ClaimsBounded`: the claims of no window exceed the quota by more than
  the other goroutines, since a call that counts misses at most the one claim
  that each of them has not yet added.
* **MigrationsStayInOrder.** `AtNext`: an instance that runs a migration, or
  records it, knows it, and has found all before it recorded.
* **InvalidKeyIsReloaded.** `NewVersionIsNew`: a version that its maker has not
  stored is known to nobody else; `CurrentIsFresh`: whatever has the
  dependency's version, stored or on the way, is as new as the last InvalidKey;
  `LoadedIsFresh`: what a fill holds is as new as its call.
* **RetiredIdStaysDead.** `Alone`: two requests that change one session have
  raced; `OneOwner`: an id never becomes another session's, which is the part
  that holds in a race as well;
  `StoredUnderItsId`: without a race a session is stored under the id it has, or
  not at all while a refresh has taken the old one away; `RetiredForGood`.
* **DenyStaysObeyed.** For a check beside which nothing is removed: what it
  holds was there while it ran (`SeenByCheck`), what was there all the while
  lies in the part of the array that it reads (`StaysInReach`), and it has each
  of the user's policies, or has yet to read or to follow it (`NoneForgotten`).
* **PagesStayTrue.** `FoundAgain`: what was deleted, and was found by nobody
  before, is found by nobody again. `OwedAhead`: a row that is owed comes after
  the pages that were read, since more rows are newer than those pages hold;
  that a list of rows is ordered as `Newer` counts them is shown by counting
  (`Enumerated`).
* **ReadersStayAgreed.** What each reader has left behind is that of the
  declarations it has read (`RoutesServed`, `OperationsWritten`,
  `AllReported`), and the router has one request type per route (`OneRoute`);
  then rules that reported nothing make the routes equal. That a field is placed
  alike if and only if its `Rightly...` predicate holds is a case distinction
  over its tags, a lemma for each of the three readers.
* **ReferencesResolve.** `NamesApart`: what is parsed within a type has another
  name, so that a name leads to a definition of its own; what an inline field
  brings is the references of a whole definition and its own argument, of which
  the same holds;
  `UnfinishedAreParsed`: the incomplete definitions are exactly those on the
  stack; `WrittenAtEnd`: nothing is written before the stack is empty.
* **GeneratedIsComplete.** `Passed`: what a run has passed is found in the file;
  `MethodHasPlace`: a method of the controller has its place in the interface,
  unless the run is between the two or was killed there; `BothOrNeither`: the
  files of a table fit, unless a run was cut between them. The texts of methods
  are shown to build form by form (`OrdinaryForms`).

`ProcessInv`, `LimitInv`, `DataInv` and `ToolInv` join the parts' invariants: a
step of `Process` or `Data` is a step of one part and leaves the variables of
the others alone (`StepOfOnePart`, `StepOfOneTool`).

Proving changed the models where they were wrong or could not be reasoned about.
`DenyIsObeyed` used to except all that follows a RemovePolicy beside another
change; only the checks that a RemovePolicy runs beside need it. `WindowQuota` used to be claimed for every period; the attempt to
prove it showed the stalled Take of section 5. `ReadersAgree` used to range over
methods the documentation knows; the proof asked for the others. It then
ranged over fields with one of three tags; with any tags, each reader needed a
predicate of its own.

Only checked by TLC are the liveness properties, since fairness and ENABLED are
out of the prover's reach: EventuallyDone, EventuallyHandled, CacheFollows,
CallsReturn, OrphanIsFreed, EveryMessageLeaves, PublishReturns, StartReturns,
StartsInTheEnd. So are the properties that a run shows to fail (section 5).

## 5. Where the code and its documents disagree

Each of these is a run that TLC ends with a counterexample; `findings` in
`PROJECT.json` quotes the documents.

| run | property | what happens |
|---|---|---|
| `redis_attempts` | RedeliveryIsCounted | handlers left two messages pending; the claimer takes one over, then the other, page by page. XPENDING lists the first `Count` entries under its name, the other message is beyond them and is handled as a first delivery |
| `redis_unsubscribe` | RetrySurvivesUnsubscribe | a handler fails a message with Retry, and DELCONSUMER drops its pending entry before it was handled again |
| `kafka_retry` | RetryBlocksPartition | after a failure with Retry the reader fetches the next message and its commit passes the failed one |
| `etcd_put` | PutIsConsistent | a Get that read before a Put fills the cache after it |
| `sessions_refused` | RefusedRefreshKeepsSession | RefreshSession without a refresh token replaces the access session before it is refused |

Met while modelling, without a run of their own:

* The reference page says that the etcd client's Delete removes the cache entry
  first (`tools/skill/references/components.md:506`), the code deletes in etcd
  first.
* `pkg/iam/sessions/manager/expire.go:19` says that an expired session is
  returned with its error, the code returns none. Line 20 says that Save, like
  Refresh, begins the time to live anew; Save (lines 28-34) only sets one that
  is missing.
* The readers of a declaration differ for fields that no rule of the linter
  reports. The router reads headers (`server/mux/binding.go:100`) and inline
  fields; the documentation has a header in the query or the body and inline
  fields nowhere, and the client sends neither. A field with `uri` and `form`
  tags is read by the second and documented by the first. A DELETE is read from
  the query and documented with a body. A request documented as `form-data` is
  sent under that name, which the router does not take for a form
  (`multipart/form-data` is its name). In a JSON body, a field with only a
  `form` tag is documented by it and decoded by its Go name.
* A field of a generic type, `A[B]`, leaves a `$ref` to `A[B]`
  (`pkg/swagger/struct.go:270-330`), whose schema is kept in InnerDefinitions,
  which no file of the package writes: the reference of the document dangles.
  Inline fields are looked up there too (lines 170-180), so that those of an
  ordinary type are lost, and a basic type as the argument fails the generation.
* Unsubscribe of the event bus removes the topic's first subscription, whoever
  calls it. No document promises more.
* Unsubscribe of an NSQ subscription that uses nsqlookupd returns an error for
  every address and leaves the subscription as it is.
* With a period of a minute or less, the cleanup of a rate limit takes out calls
  that still count. With one that is not longer than a minute and the time that
  a Take stalls, the cleanup of a later call can take out what the stalled one
  should have counted, and it is let in above the quota.
* The router serves CONNECT and TRACE and the linter accepts them, but the
  documentation has no operation for them (`DocumentedMethods`).
* `HasPre` lets an older version run in production beside a newer one; Migrate
  then indexes its list past its end and panics.

## 6. What is not modelled, and why

* Database handles (`database/db`, `database/redis`, `database/mongo` start-up
  and context plumbing), audit, tracing, metrics, object storage, errors,
  translations and validation: calls passed through to a library, or sequential
  code without state of its own.
* The examples: they use the packages modelled here and add nothing.
* Two watches of one key on one etcd client, and two Redis Stream subscriptions
  of one group in one process: listed as hazards, planned.
* The or-matcher of permissions and matchers that a program brings along.
  Whether a policy lists the action of the request is given (`InAction`).
* Fields of the generator of the documentation whose type argument is an
  instance, a list or a pointer; in declarations, embedded generic types, the
  name "-" and fields that have only tags no reader looks at.
* Details that none of the properties can tell: a String or Bool of the
  configuration that swallows ErrNotFound, so that a program goes on after it
  has written a missing key; a cancel of a rate limit that was done and reported
  as failed; readers of a policy array that an append has left behind; a page
  size of zero or less, which is the default; a single result without a value,
  written as `return `; a file torn by the kill of a generator run; a
  DELCONSUMER that was done and whose reply was lost.
* What goes wrong in the cases that a property excepts. These are named in the
  properties' comments and in the hazards, and nothing is promised of them: a
  lock whose time ran out or that was given back twice; sessions in memory that
  two requests change at once (but for the last clause of RetiredIdIsDead); a
  rate limit's period that is not longer than the cleanup's margin; the fill of
  a dependent cache that an invalidation overtakes; a handler's panic, which is
  a success to the broker; requests that fail with one error at once; a
  configuration file that is overwritten or read half-written; a migration that
  two instances run, of which one is recorded; a RemovePolicy beside a check; a
  run of the generator cut between two files, and text it mistakes for a method.
* The text that the generator, the linter and the documentation write, but for
  what decides whether it is there, builds, or means the same to its readers.
* Idle times, tickers and times to live, but in the modules with a clock, are
  choices that may fall at any step, with the order of expiries that the code
  guarantees.

## 7. Plan

Done: the core modules, the waiting parts of a process (`Process`), the parts
that share data and the tools (`Data`), the consumer group both brokers
implement, and a proof of every safety property that a run checks. Next, in
this order:

1. An abstract specification above `RefreshSession`, a session that is living,
   spent or logged out, with its refinement; the same above the lock and the
   dependent cache.
2. The steps of the liveness properties that need no fairness, as theorems:
   what each step may change on the way to the end (the pending list of
   `RedisStream`, the cache of `EtcdCache`).
3. Two watches of one etcd client; two subscriptions of one process in
   `RedisStream`.
