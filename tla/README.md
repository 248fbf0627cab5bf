# Formal models of SocialGraph Pro

TLA+ modules for the parts of this repository whose correctness depends on the order in which things
happen, with TLC configurations and TLAPS proofs. Paths are relative to the repository root; `mw/` stands for
`middleware_python/`, `cpp/` for `backend_cpp/`.

## The system

| Component | State | Operations | Hard behaviour | What makes it correct |
|---|---|---|---|---|
| Worker pool `cpp/server/thread_pool.h` | task queue, `stop_`, `pending_`, `max_queue_depth_`, workers | `submit`, `try_submit`, `worker_loop`, `shutdown`, `shutdown_now` | condition variable, `stop_` read and written outside the mutex | accepted tasks run once, in order; a graceful shutdown drains and returns |
| MySQL pool `cpp/server/db_pool.h` | slots (connection, in use, created at), prepared statements | acquire, release, query, execute, prepared_query, health_check, shutdown | timeouts, expiry, failing connects, shutdown with connections out | a connection has one user; slots are bounded; callers are answered |
| Metrics writer `cpp/server/metrics_writer.h` | record queue, counters, writer thread | record, flush, batch write and retry, destructor | two consumers of one queue, failing writes | a record is written at most once; the destructor drains |
| Compute cache `mw/services/cache.py` (`cache_get_or_compute`) | Redis entry under two key layouts, lock with TTL | read, lock, poll, compute, write, unlock, invalidate | requests of several processes, lock expiry, failing and dying holders | one request computes while its lock lasts; nobody waits for ever; invalidation is final |
| Cache bookkeeping `mw/services/cache.py`, `mw/db/redis.py` | data version, tag sets, new and legacy keys | bump, tag, invalidate (all, algorithm, tag, domain), warm, migrate | each is several Redis commands | no old entry survives an invalidation |
| Stores `mw/db/redis.py`, `mysql.py`, `mongodb.py`, `neo4j.py`, `mw/server.py` | one lazily made client each, sticky failure flags | get, use, retry, health check, reset, close | concurrent first use, failing tests, shutdown beside requests | one client; every call ends |
| Pub/sub `mw/services/pubsub.py` | subscriptions, a listening task per channel | start, stop, subscribe, unsubscribe, publish, listen | cancellation at any await, lost connections | a task per subscribed channel; reconnection |
| Sessions, login guard, API keys `mw/auth`, `mw/core/security.py`, `mw/core/dependencies.py` | users, session rows, blacklist, failure counters, key cache | register, login, refresh, logout, keys | check-then-act across MySQL and Redis | rotation keeps one live session; logout is final; guard and cache overrun by a bounded amount |
| Graph in Neo4j `mw/services/neo4j_service.py`, `mw/import_data.py`, `mw/db/neo4j_schema.py` | users, edges, properties, communities, schema | import, sync, pages, statistics, recommendation, schema | every statement is a transaction | all scores of one run; pages cover the graph; a finished import counts right |
| Engine clients `mw/services/cpp_tcp_client.py`, `cpp_grpc_client.py`, `cpp_engine.py` | TCP pool, gRPC client | execute, reconnect, retry, fall back, close | cancelled and timed-out calls, unnamed replies | the right reply; every call ends |
| Rate limiter and operation log `mw/middleware/rate_limiter.py`, `mw/services/performance.py` | sorted set per client; buffer and flush task | check; append, flush | round trips out of order; cancellation of the task | no window above the limit; each operation logged once |
| WebSockets `mw/websockets` | set of subscribers, broadcast task, a handler per socket | connect, message, broadcast, disconnect | the set changes while it is iterated; sends to clients that have gone | subscribers are served or removed |
| TCP and gRPC servers, graph algorithms, command line (C++), other middleware, frontend, database scripts | see `PROJECT.json` | | | |

Interaction: `server.py` mounts the routes, warms the stores up and shuts them down; a request passes the rate
limiter, then its authentication (Sessions); `routes/graph.py` calls `cache_get_or_compute`, whose compute
function starts the C++ engine or asks Neo4j; its duration goes to the operation log. `import_data.py`
is a script of its own: it rewrites the graph in Neo4j and tells the cache nothing. `invalidate_all_graph_cache`,
which is to be called afterwards, deletes the cached results, bumps the data version and publishes a notice for the
listeners of the other workers. No code of the program calls it (a docstring of `pubsub.py` and
`database/redis/cache_strategy.md` do), so after an import the call is left to its operator.
The C++ server (`main.cpp`) runs one task of a worker pool per connection; its handlers hand measurements to
the metrics writer, which writes through the MySQL pool.

## Modules

C++ server:

`TaskService.tla` - what a pool promises: statuses of tasks, the line of those accepted and not started, a phase
(open, closing, closed), and the tasks a graceful close owes. Tasks start in the order of acceptance. No thread or
lock.

`ThreadPool.tla` - `thread_pool.h`. `tasks`, `pending`, `stop`, `maxDepth` are the members of the same name;
`wpc`/`job` are a worker's place in `worker_loop` and its local `task`; `cpc`/`item` a submitter's place and
task; `ctl` the owner's place in a shutdown; `status` stands for the futures; `owed` records the tasks accepted
when a graceful shutdown stored `stop_`. A critical section is one step, except that of a worker going to
sleep: `DecideToSleep` (predicate false, mutex held) and `Block` (release and block) are separate, because
`shutdown` stores `stop_` and notifies without the mutex. `submit` and `try_submit` differ only in how they
report a refusal and are the same actions. Submitting more than once is a new task. The pool implements
`TaskService` under the mapping `phase <- Phase`, `line <- tasks`.

`DbPool.tla` - `db_pool.h`. The elements of `pool_` are the slots `1 .. size`; `conn`, `used`, `old` are a
slot's connection (or null pointer), `in_use` and age, `alive` whether the connection would pass `SELECT 1`.
`acquire` connects and validates while it holds `mutex_`, so each turn of its loop is one step: `TakeIdle`,
`TakeReplaced`, `ReplaceThrows`, `Grow` or `Sleep`, and `PassedBy` says which idle slots the turn went past.
Only `wait_until` gives the mutex up; `TimeOut` also applies to a caller that was notified too late. `query`,
`execute` and `prepared_query` are the same steps around `acquire` and `release`, except for the unknown
statement name, which locks `mutex_` twice. `calm` records that no connect has failed and no notification came
too late. The server closing a connection (`Die`) and ageing (`GrowOld`) may happen at any time.

`MetricsWriter.tla` - `metrics_writer.h`. `stage`/`batch` are the places and local vectors of the two consumers:
the writer thread, and the thread that owns the object, flushes it and destroys it. The one-second `wait_for`
makes the writer able to collect at any time. A statement ends in one of `Outcomes`, which is all a caller can
see of `DbConnectionPool::execute`. `rows` is the table, `fate` what became of each record.

Middleware (one step runs from an await to the next; coroutines interleave between):

`ComputeCache.tla` - `cache_get_or_compute` for one key. Each Redis command is a step. `entry` holds the version
of the graph data a value was computed from, under the new (`sgp`) and the legacy layout; `large` says whether the
value exceeds the compression threshold, which makes it unreadable under the new key; `lock`/`lockTtl` are
the lock and its EX (`lock` also remembers the owner, which Redis does not); `left` is what remains of a wait or
of the time a computation may take; `val` is the version a computation has read, and the answer of an idle
request. `clearing` says that an invalidation has deleted the new keys but not yet the legacy ones. `floor`,
`due`, `spoilt` and `calm` only serve properties: the source version at the last invalidation, the floor when a
request began, whether that invalidation met a computation on older data or failed to delete, and whether
nothing has failed, crashed or been evicted lately: `calm` and `slow` (a computation has taken as long as the lock
lives) are reset when a request begins with no other under way and no lock left, so one bad moment excuses nothing
after it. Without Redis (`WithoutRedis`, `ComputeBare`) there is no cache and no lock, and the request computes at
once. Any Redis command may fail when `CanFail` is set; where the
code catches the error the step is a miss or a forgotten write, where it does not the request ends with it. Time
is a `Tick`, long compared with the 0.1 s between two polls; it never passes a computation that has reached
`MaxHold` or a waiter that has yet to poll a value that is there.

`CacheKeys.tla` - the bookkeeping around one result: the data version, one tag, and the result's keys (0 for the
legacy key, `v` for `sgp:...:v<v>`), whose entries are generations of the graph data. A call has a place `pc`, an
operation `op` and what it has read in `seen`, so that SMEMBERS and DEL, or DUMP and RESTORE, are separate. `Import`
is new data (`NewData`, `import_data.py`) and the call of `invalidate_all_graph_cache` that is to follow, the
operation `all`: new keys, legacy keys, tag, version, notice; the other operations use parts of the same chain. SCAN
and DEL of a pattern are one step, since one result has one key of each layout. A failing command is skipped, as the
code's `except` does.

`Stores.tla` - the four lazily made clients. A behaviour follows one store. `handle` and `failed` are the module
global and its failure flag, `latest` is `_mongo_client`, `open` the clients that still hold connections,
`lost` the pool connections that a transaction took with it. `Create(c, publish)` is the first part of a getter,
up to its test: Redis and Neo4j publish before, MySQL and MongoDB after. `raced` records that two getters
overlapped, a test failed, or one ran beside a close or a shutdown.

`PubSub.tla` - extends `Stores`: the listening task is the caller `Listener`, so a subscription and ordinary
requests share one Redis client. `waiter` holds the asyncio lock while a cancelled task ends.

`Storage.tla` - `PubSub` and `MetricsWriter` side by side, the two ways in which data reaches the stores. They belong
to two programs and share nothing, so a behaviour follows one; `Data.tla` does the same for `CacheKeys` and
`GraphStore`. `StorageKeepsItsParts` and `DataKeepsItsParts` carry the theorems over.

`Sessions.tla` - `auth/service.py` and the API key path of `core/dependencies.py`. `pc` names the statement a
call is about to make; `SqlSteps` and `RedisSteps` fail with their store, `Swallowed` steps catch it. A refresh
token is named by its session row. `origin` (the login a row descends from), `guesses`, `stale`, `hold` and
`overlap` only serve properties. A refresh may find its session expired; a logout revokes a row only if it is the
caller's, and blacklists the token in any case; an API key may have expired or its user be deleted. In the development
mode of `get_current_user` everybody is the demo user and nothing is read: the model is of the other modes.

`GraphStore.tla` - the graph. `score[u][f]` is the synchronisation that wrote property `f` of user `u`. The engine's
five algorithms succeed or fail independently; collecting a successful community search raises a `KeyError`, which
ends the synchronisation, so none that goes on writes a community (`Collect`). A statement whose answer is lost is
executed again. `offset` is where an import is (`Done` or `Ended` when there is none); `got` is what a client has
received on its walk through the pages; `doing` the schema statement. Besides the imports a behaviour follows
synchronisations, a walk, or the schema. The queries are operators over `users`, `knows` and `score`, in the words of
the Cypher clauses they stand for: `InOrder` is ORDER BY, `First` ORDER BY with LIMIT. Ranks are whole thousandths, so
that rounding the score changes nothing.

`EngineClient.tla` - the TCP pool (a line per command, a line per reply, no name on either) and the gRPC client with
reconnect and retry. `sent` and `buf` are the commands the server has yet to answer and the replies yet to be read
on each connection; `waiter` is the one coroutine a `StreamReader` lets wait. `Serve` and `Toggle` are the engine's
server as the clients see it. A call may be cancelled at any await: a TCP call gives its connection back with the
reply to come, a gRPC call leaves the locks it holds (`Cancel`). `mixed` records connections that were shared or
released by a cancelled call, `wrong` those that gave a call another one's reply.

`Traffic.tla` - the sliding window of one client and the operation log. The clock is read (`dispatch`, in the model
the beginning of `_check_rate_limit` too) before the transaction (`_check_rate_limit`), so requests may reach Redis
out of order. A transaction that fails may have been applied all the same, its reply being lost. The flush task is
copied, written, cancelled and written for the last time in separate steps.

`LiveFeed.tla` - the WebSockets. `spot` is where a socket's handler is, `subscribers` the module's set, `task` the
broadcast, whose iteration is `round` (the set when it began), `visited`, `visiting` and the local list `dead`.
Python's iterator raises when the size of the set has changed, and only then. (It may also meet an element twice
after a rehash, which needs more than four subscribers.) The analysis handler shares the actions.

`Requests.tla` - `EngineClient`, `Traffic` and `LiveFeed` side by side; they share nothing, so a behaviour follows
one.

`MC*.tla` - the modules TLC is run on. `*Proofs.tla` - theorems, below.

Definitions marked "Mutant" are plausible bugs. No specification uses them: they show that each property can
fail. A mutant replaces the definition it stands before.

## Runs

| Run | Instance | Shows |
|---|---|---|
| `pool` | 2 workers, 2 submitters, 2 tasks, depth limits 0 and 1, both shutdowns | before a shutdown, and until `shutdown_now` clears the queue, the counter agrees with the queue and the workers (`PendingExact`); the pool implements `TaskService`, order included (`ImplementsService`); every accepted task is run unless the pool is stopped (`AcceptedIsRun`); `shutdown_now` returns (`ImmediateShutdownReturns`) |
| `pool_lostwakeup` | 2 workers, graceful shutdown | finding: `shutdown()` may never return |
| `db_pool` | 3 callers, 5 connection objects, min 1, max 2, max idle 1, connects may fail | one user per connection (`ExclusiveUse`), no leaked slot (`SlotsMatchCallers`), nobody sleeps beside a free connection (`NoMissedRelease`) |
| `metrics_written` | 2 records | finding: a failed statement is counted as written |
| `cache` | 2 requests, 2 data versions, lock of 2 ticks, computations of up to 3, values small or large, no Redis, failing commands and computations, crashes, all evictions | `OneComputes` while calm, the value readable and no computation as long as the lock; `FreshUnlessSpoilt`; `EveryRequestAnswered` |
| `cache_stale` | 2 requests, invalidation | finding: an invalidation is undone by a computation under way |
| `cache_single` | 2 requests, lock of 2 ticks, computations of up to 3, nothing fails | finding: two requests compute when a computation outlives the lock |
| `sessions` | 2 users, 2 calls in flight of 4, 2 attempts, key cache of 2 ticks, 1 store failure | `OneLivePerLogin`, `LogoutIsFinal`, `GuardOverrun`, `StalenessIsBounded` |
| `storage` | either 1 caller and the listener, 3 clients, 2 attempts, pool of 2, 1 change of the server; or 4 records, batches of 2, queue of 2, flush, both modes, statements failing in every way | `OneClient`, `OneListener`, `CallsEnd`, `ListenerReconnects`; nothing is stored twice (`StoredOnce`), the destructor drains and returns (`DestructorDrains`, `DestructorReturns`) |
| `data` | either 2 operations at once, 1 import, 3 versions, 1 failing command; or 6 users, 7 lines of which 2 give the same friendship, batches of 3, pages of 4, 2 imports, 2 synchronisations, 1 failure | after an import's invalidation nothing old remains unless a command failed or a late value was stored (`NothingOldRemains`), no bump sets the version back (`VersionGrows`), tags name stored keys (`TypeOK`); all scores come from one synchronisation (`ScoresOfOneRun`), a finished import is counted right (`ImportIsCounted`), `WalkIsComplete`, `NobodyIsPassedOver` |
| `graph_sync` | 1 import, 1 synchronisation, nothing fails | finding: a synchronisation whose community search succeeds writes nothing |
| `requests` | 2 callers, 3 calls, pool of 1, 2 connections, 2 gRPC clients, 2 attempts, 1 change of the engine; 3 requests, limit 1, window 2, 3 clock values, 1 failure; 3 live sockets or 1 analysis socket | `RightReply`, `EngineAnswers`; `WindowBound`, `LoggedOnce`; every subscriber is served or removed while the broadcast lives (`FeedServes`) |

Bounds. Two workers and two submitters give every pairwise race; with a depth limit of 1 the second task is refused
while the first is queued. The safety properties of the C++ parts are proved for any number. In `cache`, a lock of 2
ticks and computations of up to 3 give those that end before the lock, with it and after it, as the 30 s of the lock
and the 60 s of the engine do; a crash or a failed DEL leaves a lock that outlives its request, and a waiter may
begin before or after the holder's first tick; two data versions distinguish old from new. In `db_pool`, three
callers for two slots give one that waits while two hold, release, time out or find their slot gone; five connection
objects are all that two slots and three callers can refer to. For the writer, batches of two out of four records
make the writer collect more than once, fill the queue and race a flush. In `data`, any two operations on the cache
overlap at any commands, an import may invalidate beside a put, a warm-up or a migration that read the old data, and
the version counter passes the routes' version from below. In `storage`, three clients allow one to be replaced
twice; a behaviour whose clients are used up ends there, which the liveness properties except (`made = MaxClients`).
In `sessions`, two users let one log out with the other's token; two calls in flight give every pairwise race and
four calls a login, a refresh racing a logout or refresh, and one more; a third guess needs more calls than the
guard allows. In the graph of `data`, three batches, the last of one line, and two pages; users 1 and 2 have two
common friends, 5 and 6 one, with PageRanks that make the second phase reorder the candidates; one or two
recommendations are asked for (`MaxLimit`). In `requests`, a pool of one connection is shared by the second caller
at once; a limit of one in a window of two makes the third clock value reopen it; with three live sockets one can be
sent to while another leaves and the third joins, so that the set changes with and without changing its size, and a
late one restarts the task. Deadlock is not checked where the instance ends by its bounds or the system stops when
it is shut down, that is everywhere but in `cache`.

Fairness. In `ThreadPool` every worker that keeps finding the mutex free now and then gets it (strong fairness
of the steps that lock, weak of the others), tasks terminate, and a thread inside `submit` or a shutdown goes
on: what the operating system's scheduler provides. Nobody must submit, shut down or wake spuriously. In
`ComputeCache` the event loop serves every coroutine (weak fairness of each request's steps), and time passes
however often others compute meanwhile (strong fairness of `Tick`). In `MetricsWriter` both threads go on (weak
fairness): the writer's wait is timed and statements have timeouts. In `Stores`, `PubSub` and `Requests` each
call's next step is weakly fair, because the event loop serves every coroutine and every await has a timeout
(connect, socket, command, gRPC deadline); requests, cancellations, failures and shutdowns need not happen.
`DbPool`, `CacheKeys`, `Sessions` and `GraphStore` state no liveness.

## Findings

* `pool_lostwakeup`: `thread_pool.h:168-169` stores and notifies without the mutex; the worker between its
  predicate and its wait sleeps for ever and `join` with it. `shutdown_now` locks in between and returns
  (`ImmediateShutdownReturns`), and its mutant without the lock does not.
* `cache_single`: the docstring of `cache_get_or_compute` says that only the first request computes and the others
  poll (`cache.py:690-691`). The lock lives 30 s, the engine may take 60 (`cpp_engine.py:18`): a waiter gives up
  after 30 s, or the lock expires and the next request takes it, and two compute; the first to end deletes the
  other's lock (`cache.py:800`). Values above 64 KB, which are never read back, and a Redis that is away have the
  same effect. `OneComputes` says that, failures aside, nothing else has.
* `graph_sync`: `_collect(comm_result, "community")` (`neo4j_service.py:791`) keeps `key="score"`, so line 781 looks
  for a score in items that have none (`cpp/src/main.cpp:145`). The `KeyError` ends every synchronisation whose
  community search succeeds, before its write. One whose search failed writes the scores and no community, so no
  user has a `community_id`, `_sync_community_nodes` finds nobody, and the queries of communities, bridges and
  densities have nothing to answer.
* `cache_stale`: the routes' keys are fixed, so the version increment at the end of
  `invalidate_all_graph_cache` changes nothing and a computation under way restores old data.
* `metrics_written`: `execute` swallows the SQLException, the writer counts the record as written and never
  retries it.

Seen while modelling, without a run of their own.

C++:
* a task submitted past the stop check can be enqueued after the last worker has left (the TCP server's use
  excludes it); `shutdown_now` zeroes `pending_` under running tasks, whose decrement wraps it;
* `DbConnectionPool::release` resets the connection of a slot it leaves in `pool_` and counts such slots as idle
  afterwards (`db_pool.h:330`): after a burst, every release closes its connection;
* `prepared_query` of an unregistered name locks `mutex_` twice (no caller uses one); a notification consumed by
  a caller whose deadline has passed leaves a free connection beside a sleeper; a pool that is shut down goes on
  connecting, which the metrics writer's destructor relies on; a record of a failed batch counts twice in
  `write_errors` if its retry fails.

Cache:
* the cache is not read again after the lock has been obtained (`cache.py:751`), so a request that missed earlier
  computes once more; after a failed computation a waiter may compute without the lock, and deletes a lock that is
  not its own;
* `decode_responses=True` makes a compressed value (above 64 KB) unreadable, so it is never hit;
* the default pattern of the admin invalidation misses the new keys; no route passes tags; the warm-up follows the
  version counter, the routes name a constant version, so the two use different keys; the statistics warm-up is
  skipped (a lambda is not a coroutine function, `cache.py:608-613, 660`);
* a TTL that rounds to zero is restored by the key migration as none: the entry becomes permanent;
* nobody calls `listen_for_cache_invalidation`, `reset_redis_connection` or `mysql_transaction`.

Stores:
* `_redis_async_failed` and its siblings are set by one failed test and never cleared while the application runs,
  although `pubsub.py` promises to reconnect; only a listener whose client was made once comes back;
* `get_mongo_db` takes the database of the client made last, not of the one it tested; a transaction whose BEGIN
  fails never gives its connection back.

Accounts:
* `users.id` is not AUTO_INCREMENT, so `register` inserts the row and then answers 503;
* if the driver's dates have no zone, refreshing raises (a `TypeError`); the run assumes zoned dates;
* nothing ever puts an access token into the blacklist that `_authenticate_jwt` asks.

Graph:
* the import deletes everything before it opens its file;
* a friendship that the file lists from both ends is stored twice: the statistics count it once (by DISTINCT), the
  pages of the topology and a density would count it twice. The shipped `facebook_combined.txt` has none, and no
  self-loop, in its 88234 lines;
* `$depth` and `$max_depth` in variable-length patterns are not accepted by Cypher, so these queries always take
  their fallback; `timeout=` given to `session.run` is a query parameter; the seeds create no LIKES or
  HAS_ATTRIBUTE; a `page_size` of zero or less divides by zero or skips backwards.

Requests:
* requests of one millisecond share a member of the sorted set and count once, so more than the documented N
  requests may pass (`WindowBound` counts milliseconds); refused requests count;
  `X-RateLimit-Remaining` can be -1; `RateLimitError` is raised outside `ErrorHandlerMiddleware`;
* a TCP pool full of unhealthy idle connections never recovers: `_get_connection` does not remove them and every
  call falls back to a process; a cancelled call releases its connection with the reply to come, which the next
  call reads as its own (`RightReply` says that only this and sharing mix replies);
* reconnecting a gRPC client leaks the old channel; `close` takes no lock and may leave a client that is
  connected without a stub; no code outside `services/cpp_*` uses the TCP or gRPC client;
* documents appended during the last write of the log are cleared with the buffer; the write is not acknowledged;
* `register_cache_entry` sets and sets-on-insert the same field, which MongoDB refuses;
* the live feed's set of subscribers changes while it is iterated (`live_data_ws.py:86`), which ends the
  broadcast task until the next subscriber.

## Proofs

`ThreadPoolProofs`, for any sets of workers, clients and tasks and any depths: `TypeCorrect`, `TasksHaveOnePlace`,
`ShutdownDrains`, `ClosedIsQuiet`, `PendingCounts`, `PoolImplementsService`. They rest on the inductive invariant
`IInv`. `GracefulDrain` speaks of the moment of return only; what makes it inductive is `ExitAfterDrain` - a worker
leaves only when the queue is empty, and after `stop_` no owed task can enter it again - together with `OnePlace`
(an owed task that is not done is queued, or with a worker that has not left) and `ClosedAfterJoin`.
`ClientOwnsItem` excludes that a task is enqueued twice. The refinement shows that initial states map to initial
states and every step to a step of `TaskService` or a stutter.

`ComputeCacheProofs`, for any number of requests and versions: `TypeCorrect`; `InvalidationIsFinal`, from
`FreshInv`, which extends the property to the values that running computations are about to write and to the new key
while the legacy one is still to be deleted; `SingleFlight` and `HolderKeepsLock`, for any length of computations,
from `Flight`: as long as nothing has gone wrong (`Smooth`), the lock is its holder's and has run exactly as long as
he has computed; a waiter's remaining time is no less than the lock's life unless the value is there; and it is
there before the lock is released. What they cannot say is what happens once a computation has outlived the lock:
that is `cache_single`. The exception is on what has happened, and not on the constants, and it ends with the
episode (`Quiet`).

`DbPoolProofs`, for any threads, connections and limits: `TypeCorrect`, `OneUser`, `SlotsAgree`,
`ConnectionsAreBounded`, `NobodyIsPassedOver`. The invariant `SlotInv` adds to the properties that a caller has
a connection exactly between `acquire` and `release`, that all connections in slots differ, that a connection in
a slot and with a caller is in use there, and that slots beyond `size` are empty; the ways `acquire` can end
share the lemma `HandInv`. The bound on connections is an injection from connections into slots.
`NoMissedRelease` is inductive on top of it, because a release frees one slot and wakes one sleeper.

`MetricsWriterProofs`, for any records, batch size and depth: `TypeCorrect`, `ConsumersAreApart`,
`NothingStoredTwice`, `DestructionDrains`. The invariant adds where a record of each fate is (`Placed`), and that
the writer leaves an empty queue that nobody fills again (`Closing`). `CutRange`, `TailRange` and `AppendRange`
say what taking, retrying and recording do to the elements of a sequence without duplicates.

`RequestsProofs`, for any requests, callers, pools, sockets, limits, times and failures: `TypeCorrect`,
`OperationsLoggedOnce`, `WindowIsBounded` and `RepliesMatch`. A step of one of the three paths leaves the other
two alone (`StepOfTraffic` and its like). `LogInv` adds to `LoggedOnce` that what is buffered or in the batch has
not been stored, and that the two share nothing until the last write, which takes the buffer as its batch.
`WindowInv` adds to `WindowBound` that a stamp that was let through is in the sorted set or at least a window
older than a member: so all stamps in a window that holds the new one are in the set just counted. `RightReply`
is not inductive, because it speaks of replies already read. `ReplyInv` says why they are right: a connection
that is not known to be mixed has one user, all that is under way on it is that user's command or its reply, and
a connection that nobody uses is empty or out of the pool. `PoolInv` adds who has a connection in which place
and that one caller connects at a time and finds room. In `TypeCorrect`, that a waiting reader waits on the
connection it holds is part of the type.

`SessionsProofs`, for any users, calls and limits: `TypeCorrect`, `OneLiveSession`, `GuardHolds`, `StaleKeysEnd`
and `LogoutFinal`. `RowInv` says that rows are filled in order and that a call that may insert one finds one
left. `RotationInv` is what makes one live session per login inductive: past its check of the row, a rotation is
alone with its login and the only live row is the one it replaces; two that hold one token have marked the login
as overlapped. `CountInv` and `GuardInv` count: the guesses made without a lock are counted below the limit or
belong to calls on their way to count them, and once the lock is there only the calls past it go on. `KeyInv`: a
call that read a live key has held it at least as long as the key has been revoked. `LogoutIsFinal` speaks of
steps; `RowInv` gives it, because a new row descends from itself or from the login of a rotation past its check.

`DataProofs` holds the theorems of two specifications that do not meet, which `Data` runs side by side
(`DataKeepsItsParts`).

About `CacheKeys`, for any calls, versions, imports and faults: `TypeCorrect`, `NothingOld` and
`VersionNeverFalls`. The type of a call that migrates a key includes that what it will restore is a value, for
only entries last. `OldInv` extends `NothingOldRemains` into the invalidation: while it is under way, what is
older than the data is under a key that it has still to delete.

About `GraphStore`, for any edge list, ranks, batch and page sizes, synchronisations and failures:
`GraphTypeCorrect`, `ScoresStayOfOneRun`, `WalkReadsAll`, `NobodyIsEverPassedOver` and `ImportsAreCounted`.
`GraphTypeOK` is inductive as it stands: a schema report counts fewer errors than statements tried. So is
`ScoresOfOneRun` beside it, because the one statement that writes scores writes all of them, null where an algorithm
failed, and a user who was just imported has none. `WalkInv` says what a walk has got in the middle: the beginning
of the topology, as much as the pages before the next one hold, and no page is asked for beyond the last. It rests
on lemmas about the operators: `Places` and `InOrderFacts` (sorting a finite set by a strict total order gives each
element once; an injection into the first n numbers is onto them), `PagesFacts` (the pages suffice, and none but the
first is empty) and `PageAdds`. `NobodyIsPassedOver` holds of the queries alone: who comes before the better user in
the order of a phase comes before the worse one too (`FirstFacts`), so the better one is within the limit when the
worse one is. `ImportInv` says that an import under way has merged the lines it has read, and a finished one the
file. What the statistics make of it: a sum is the number of pairs of a row and one of what the row counts (`Total`,
which needs no recursion; `TotalCounts`); `DegreesCount` shows that the degrees meet every friendship twice, stored
from one end or both (`BothEnds`), and `FriendshipsCount` that these are the friendships of the file.

`PubSubProofs`, for any callers, clients, attempts and faults of one store and the listener on top:
`TypeCorrect`, `OneClientPerStore` and `OneTaskPerChannel`. The types rest on `UseInv`, by which the connections
out of a pool and those lost to a failed BEGIN are together no more than the pool's size. `ClientInv` adds to
`OneClient` what a getter in the middle has made and not yet published; `raced` excepts the histories in which
the getters as written do make two, and is set where two overlap (unless both publish first), a test fails, or
one connects while the application stops. `ListenInv` adds to `OneListener` that the channel is no
longer listed while `unsubscribe` waits for its task.

`PendingCounts` in `ThreadPoolProofs` is the one theorem of modular arithmetic: `CountInv` adds to `IInv` that a
worker that looks for a task has none, and `UpAndDown` that counting modulo 2^w follows counting.

Assumptions. The sets of threads, callers and calls are finite (`WorkersAssumption`, `CallersAssumption`,
`SizeAssumption`), wherever a proof counts; limits, windows and sizes are positive where the code's
configuration makes them so; everything else about the constants is their type. Only `ImportsAreCounted` uses
`FriendsAssumption`: nobody is listed as his own friend (the code does not check it; the shipped file has none). No
theorem assumes anything of how long a computation, a wait or a lock lasts.

Only model-checked: the liveness properties (`AcceptedIsRun`, `ImmediateShutdownReturns`,
`EveryRequestAnswered`, `DestructorReturns`, `CallsEnd`, `ListenerReconnects`, `EngineAnswers`, `FeedServes`),
because liveness under fairness is outside the prover. Every invariant and action property that a passing run
checks is a theorem. The type invariant of `MetricsWriter` is proved and not run.

## Not modelled

* C++ TCP and gRPC servers, server start, command line: blocking calls around a dispatch table on top of the
  worker pool; the pool is modelled.
* C++ graph algorithms: sequential numeric code, partly in floating point. The race on the lazy caches of
  `GraphCore.cpp` is listed as a hazard.
* C++ Redis cache: built, never called.
* Logging, error formatting, compression, request and response models, configuration: stateless.
* The queries of Neo4j about communities, bridges, densities and paths, which only read (and which, without a
  `community_id`, mostly have nothing to read), MongoDB analytics, data definition, and the frontend.

## Plan

Some properties except a case that the code does not exclude, each named with its hazard in `PROJECT.json`: a
notification consumed with its deadline (`NoMissedRelease`), two overlapping refreshes of one token
(`OneLivePerLogin`), requests of one millisecond (`WindowBound`), a broadcast ended by its own set (`FeedServes`).

No invariant or action property is left to prove. The parts of the system listed as not modelled would come
next: the TCP server's connection count around the worker pool, and the lazy caches of `GraphCore.cpp`.
