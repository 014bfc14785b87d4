# A verification project for dolmmframework

dolmmframework is a collection of Java libraries for services that share a Redis, a ZooKeeper, a
message broker and databases. There is no central program: the parts that can go wrong in ways a
test hardly reaches are the small concurrent and distributed protocols inside the libraries. This
project models them, checks them with TLC, and proves the main safety properties with TLAPS.

Contents: [inventory](#inventory), [modules](#modules-and-how-they-correspond-to-the-code),
[runs](#runs-bounds-and-what-they-show), [fairness](#fairness), [disagreements](#disagreements-between-the-code-and-its-documentation),
[proofs](#proofs), [limits](#what-is-not-covered), [plan](#plan), [how to run](#how-to-run).

## Inventory

Paths are below `src/`; `core` is `dol-framework-core/src/main/java/org/dol/framework`, and so on.

### Modelled

**Redis lock** (`core/redis/RedisLock.java`, `RedisLockFactory.java`, scripts in
`StringRedisTemplateEX.java`). State: the keys in Redis with their PX timeouts; per lock object
`keys`, `value` (the creation time, used as token), `timeout`, `hasLock`; one static `shutdown`
flag. Operations: `lock` (a loop of attempts with a sleep), `tryLock`, `unLock`, `destroy` of the
factory. Interaction: clients meet only in Redis, in Lua scripts that run atomically. Hard: expiry
under a holder's feet, equal tokens, answers that are lost, exceptions that `unLock` swallows, a
lock of several keys, crash of a holder, interruption and shutdown while asleep. Correct when: two
holders of a common key need a lost key to explain them; several keys come whole or not at all;
a key left behind is explained; sleepers are served or sent home.

**Distributed work queue** (`core/batch/NonRepeatWorkerUserRedis.java`). State: in Redis a list and
a hash of pending data and one running key per datum; per process a dispatcher thread, a pool of
reusable `Task` objects, a thread pool with its queue, `isStop`. Operations: `put`, `putAll`, the
dispatcher's loop, `Task.run` with `process` and its retries, `stop`. Interaction: processes share
Redis; inside a process the dispatcher and the threads share the Task objects. Hard: the same
datum on two nodes, Task objects reused while a thread still reads them, failures between two Redis
calls, stop and crash at any point, running keys that expire or are left behind. Correct when: a
datum has one run at a time, none vanishes, no Task object leaks, a queued datum is served.

**Keyed blocking queue** (`core/batch/KeyArrayBlockingQueue.java`). State: the ring `items` with
`takeIndex`, `putIndex`, `count`; the key set `keys`; two condition queues; the iterators tracked by
`itrs` with a cycle count. Operations: the `BlockingQueue` methods, interior removals, `clear`,
`drainTo`, and the iterators' `next`, `hasNext`, `remove`. Hard: signals consumed by a thread that
does nothing with them, timeouts and interruptions against signals, iterators that must survive
wrap-around and interior removals, the key set against the ring. Correct when: it is a FIFO of
distinct elements, `contains` is exact, nobody waits for what is there, iterators neither skip nor
repeat nor remove the wrong element.

**ZooKeeper-invalidated local cache** (`cache/ZookeeperLocalCacheFactory.java`). State: per process
`cachedObjectsMap`, `dependecyMap`, the bounded `updateDependencyQueue` with its worker; in ZooKeeper
one node per dependency, with watches that fire once; the session. Operations: `add`, `remove`,
`expire`, the watcher, the worker, reconnection, `destroy`. Hard: filling races with invalidation,
two fillers race with each other, one-shot watches, session expiry, a worker that puts back into
its own queue. Correct when: no object stays stale for ever, no `expire` is lost.

**Service consumer** (`service-consumer/common/ExecuteTask.java`, `activemq/*Listener.java`,
`core/job`, `queue/activemq`). State: messages in the broker, each with a job in its body (tasks with
their success, `failedTimes`, delays); the threads of the listener containers; a control key in Redis.
Operations: `onMessage`, `doWork`, `executeTask`, `produce`. Interaction: everything that is remembered
travels in the message that is sent again. Hard: the message is acknowledged before the listener
runs, every exception is swallowed, the control key may vanish between two reads or hold no number, delays of 25 days
overflow, and a delay that cannot be read throws. Correct when: a job is in one place until it is done or a swallowed
exception took it, no successful task runs twice, a job fails only after its delays, and it ends.

**Batch worker** (`core/batch/BatchWorker.java`). State: the fields `queue`, `threadPool`, `isActive`,
`isReady`, replaced at each start; threads with a batch under construction. Operations: `put`, `putAll`,
`start`, `process` with retries, `stop`. Hard: `stop` is not synchronized with `start`, threads of an old
pool read the new fields, failed batches are cleared. Correct when: an accepted item is in one slot
until it is processed, failed or stopped; a ready worker empties its queue.

**Two-level cache** (`cache/RedisEhCache.java`, `RefreshAheadRedisEhCache.java`). State: per node an
Ehcache with locks per key and a queue of messages that could not be sent; the Redis channel.
Operations: `getAside`, `delete`, `update`, the notify worker, `onMessage`, refreshes. Hard: removal and
refresh without the key's lock, messages that are lost or overtake each other, loads that fail. Correct when: an
old version has a cause that will remove it.

**Transactions of the mapper factory** (`data/MapperFactory.java`, `ConnectionCleanInterceptor.java`).
State: one thread-local status with a counter, shared by all factories; the list of factories.
Operations: begin, commit (with and without a status), rollback, the roll-back at the end of a request. Hard:
nesting, two databases in one thread, requests that throw. Correct when: verdicts are kept, and no
transaction is left open.

### Not modelled yet

| Component | State and operations | What is hard, and what would make it correct |
|---|---|---|
| `cache/RedisInJVMCacheFactory.java` | versions in Redis, local copies, retry queue | retried updates that carry an older version. A copy with a current version is current |
| `core/batch/NonRepeatWorker.java` | local queue, map of running tasks, pools | the dispatcher puts into its own bounded queue and leaks a Task object; `stop` waits. No deadlock, no leak |
| `config/PropertyRegistry.java`, `PropertiesRegistry.java` | properties read from ZooKeeper, listeners, watches | a load goes from `getChildren` (106) to `getData` (109) of each path: a node deleted in between makes it throw, and the catch (99) leaves a partial set. The last value is delivered in the end |
| `data/MultiDataSource.java` | an atomic index; choose the next data source | index from 0 over keys from 1, reset race. Every source is chosen, and one is always found |
| `zookeeper/ZK.java` | the client handle | check, then create; with the configuration registry |
| `service-consumer/ServiceTaskExecutor.java` | the older Beanstalk path of the service consumer | produce, then delete; a crash between them |

### Not planned

`MemcachedManager` passes calls on. `RedisCache` keeps single values in Redis, `BatchJob` runs one list
through a pool, `data/Transaction.java` wraps one status: none of them has a protocol. Logging, syslog, business
and Dubbo invocation logs are output whose loss is accepted. Contracts are data. Utilities, cryptography, HTTP client, mail, Excel,
reflection, search and the service registry are sequential code around libraries. The web modules and the ZooKeeper
administration page are interface. The repository's JavaScript (138 files under `webapp/js`, the same set in
`dol-framework-service-consumer` and `dol-framework-zookeeper-admin`) is the third-party jQuery EasyUI
library and its locales, vendored; all logic of dolmmframework itself is Java, and nothing of the
JavaScript is modelled. `ReadWriteRedisLock.java` is empty; `queue/Job.java` and `RedisCacheManager.java` are commented
out. The repository's own tests are `StringRedisTemplateEXTest` and `MemcacheTest`: none touches concurrency.

## Modules and how they correspond to the code

| Module | Models | |
|---|---|---|
| `LeaseTable` | abstract | what the lock scripts promise: keys granted as a set, returned, lapsed |
| `RedisLock` | `RedisLock`, `RedisLockFactory`, two scripts | implements `LeaseTable` |
| `NonRepeatWorkerUserRedis` | the class of that name | |
| `KeyedFifo` | abstract | a bounded FIFO that ignores what it holds |
| `KeyArrayBlockingQueueItrs` | classes `Itrs` and `Itr` | pure functions on the iterators' state |
| `KeyArrayBlockingQueue` | the queue | extends the former, implements `KeyedFifo` |
| `ZookeeperLocalCacheFactory` | the class of that name, and ZooKeeper as it uses it | |
| `ServiceConsumer` | `ExecuteTask`, the listeners, `ServiceJob`, `ServiceTask`, the ActiveMQ classes they use | |
| `BatchWorker` | the class of that name | |
| `RedisEhCache` | `RedisEhCache`, `RefreshAheadRedisEhCache` | |
| `MapperFactory` | `MapperFactory`, `CounterTransactionStatus`, `ConnectionCleanInterceptor` | |
| `RedisLockProofs`, `NonRepeatWorkerUserRedisProofs`, `KeyArrayBlockingQueueProofs`, `ZookeeperLocalCacheFactoryProofs`, `ServiceConsumerProofs`, `BatchWorkerProofs`, `RedisEhCacheProofs`, `MapperFactoryProofs` | theorems | |
| `MC*` | constants for TLC | |

Definitions keep the names of the methods. `Mutant of X` marks a plausible mistake in `X`, used only
to see that a property notices it; no specification refers to it.

**RedisLock.** A script is one step, since Redis runs it atomically; one action per call. `store[k]`
is the lock *object* that set the key; Redis sees `TokenOf[store[k]]`, and the scripts compare only
that (`Value`). `granted` says that `lock` or `tryLock` returned true to the caller, which `hasLock`
does not: `hasLock` stays true after a failed `unLock`. An exception is two outcomes, script run or not.
`lost` and `orphan` are history: what took keys from a lock, and which locks may have left keys behind.

**NonRepeatWorkerUserRedis.** The dispatcher and each thread are sequences of steps, one per Redis
call or per access to a shared Task object (`disp[n].at`, `thread[w].at`); the fields of the objects
are in `task`. `returnObject(this)` and the three parts of `removeFromRunningTask(this)` are separate
steps: they are where the race is. A node goes "up", "stopping" (`isStop`), "shutdown", "halted", as
`stop` proceeds, or "crashed". `isStop` is a plain field, so a `put` after `stop` may see either value.
`lost` is history: data whose running key was taken from a run.

**KeyArrayBlockingQueue.** A step is a critical section; `await` ends one and `awake` holds the threads
that were signalled or timed out and do not have the lock yet, so that others may barge in. `remove(e)`
is two steps, because it takes the key away before it locks. `RemoveAt` takes away the key the code takes
away. Entries carry a serial number and `seen` remembers what an iterator returned: history, to state
order and completeness. `KeyArrayBlockingQueueItrs` follows the iterators' arithmetic line by line
(`ItrRemovedAt`, `IncorporateDequeues`, `ItrTakeIndexWrapped`); the linked list of weak references is a set,
and a sweep finds every detached iterator, which holds for up to four of them.

**ZookeeperLocalCacheFactory.** `add` is exists, create, watch per dependency, then the map, then
per dependency containsKey and put: each a step. A server-side `setData` (`Touch`) moves watches to `fired`;
a connected client receives them (`Receive`) before the answer to any later call; the event thread runs watchers in
order (`Process`). A `HashSet` changed by two threads may lose an element, and a loop over one that changes may
end at any point: both are choices (`Mapped`, `Cleared`). A thread that is interrupted throws wherever it may block: in a
ZooKeeper call of `add`, which the server may have executed (`AddInterrupted`), or in `expire`'s `put`, where the
exception is printed and the expire is gone (`ExpireInterrupted`, lines 231-234). `stale`, `excused` and `owed` are
history; a dependency is owed once `expire` has put it into the queue or found it there.

**ServiceConsumer.** A message is a record: its job, the tasks that succeeded, `failedTimes`, where the broker has
it. A thread takes one (`Receive`, acknowledged at once) and holds the only copy until `Produce`. The three
Redis and broker calls are steps of their own; a failing `produce` may or may not have reached the broker. A
delay is what it amounts to: one the broker observes, one whose product with 1000 overflows to a
negative `int` and is no delay, none, which sends the job to `fail.<queue>`, or "malformed": `getDelaySeconds` throws for
an empty entry (`ServiceJob.java:114`) or a number too long for an `int` (117), `doWork` (95) logs it, and the job is
gone. Likewise the control key may hold what `Integer.valueOf` takes for no number, or nothing
(`NoInteger`, `DelayedControlConsumerListener.java:40`), and the message is dropped. A task with a `successStatus` of its own never
succeeds, since `updateReturnStatus` compares each entry with the text of the array (`ServiceTask.java:132`).
`succeeded`, `waited`, `lost` are history.

**BatchWorker.** Queues and pools are numbered by the start that made them, and the fields `queue` and
`threadPool` hold such a number; `on` is the number a thread or a call has read. `start` is one step per
statement that others can see, and its monitor lets one caller in; `stop` is four. `fate` and `attempts`
are history.

**RedisEhCache.** One key, since keys share only the queue of unsent messages. The lock of the key is a variable where
a load or a reload holds it across two steps, and a guard elsewhere. Messages are counted per node and
pattern: the container hands each to a thread of its own, so they have no order. `PutNotifyQueue` either queues a message that could not be
sent or, when the thread is interrupted, drops this node's copy and tells nobody. `missed` is history: nodes that a change has passed
by, because the message was lost or never queued, the reload failed, or a refresh put an old version back.

**MapperFactory.** One thread, as threads share nothing. A unit of work is a begin and its end; `unit` remembers
what its caller believes. A manager that is handed the status of another database's transaction completes it or does nothing: both
are possible, since Spring says nothing of it. A commit that throws ends the transaction with an outcome nobody knows.
`commitTransaction()` then drops the thread-local all the same, in a `finally` (`CommitFails`); `commitTransaction(status)`
(169-176) has none and keeps it (`CommitStatusFails`), so that the next unit joins a transaction that is over.

## Runs, bounds and what they show

| Run | Instance and bounds | States | Shows |
|---|---|---|---|
| `redis_lock` | 3 locks on 2 keys, 2 tokens (two locks share one), 1 fault | 186 637 | all safety and liveness of the lock, refinement of `LeaseTable` |
| `worker` | 2 nodes, 2 data, a thread and a Task object each, 2 puts, 1 fault; n1 never retries, n2 twice; d2 may fail, d1 may overrun its key | 111 447 | one run per datum until its key is lost, nothing vanishes but from the node that held it, no leak, service while one dispatcher lives |
| `worker_race` | the same, no fault, no timeout, 3 puts | | *fails*: `OneTaskPerDatum` |
| `keyed_queue` | 3 threads, 3 elements, 2 slots, three initial contents | 472 117 | FIFO refinement, exact keys, no forgotten taker |
| `keyed_queue_iterators` | 3 slots, 1 iterator, 7 insertions, 1 `remove(e)` | 299 395 | the iterator properties, the ring's shape |
| `keyed_queue_keys` | 3 slots, 1 iterator | | *fails*: `ContainsIsExact` |
| `zk_cache` | 1 node, 2 adders, 2 objects, 1 dependency, 2 watchers, 2 faults | 1 826 317 | staleness is explained, no queued expire is lost |
| `zk_cache_live` | 2 nodes, 1 object with 2 dependencies, an update queue of 1, 2 faults | 35 258 | a queued expire is delivered unless the worker waits for itself, staleness ends |
| `service_consumer` | 2 jobs of 2 tasks, 3 threads, delays of every kind, 2 switches of the key, 1 fault | 115 772 | one copy of a job until a named cause takes it, no repeated success, failed for good, every job ends |
| `batch_worker` | 2 items, 2 clients, 2 threads, a queue of 1, batches of 2, 1 retry, 2 starts, 1 stop | 355 333 | where items are and what becomes of them, service |
| `ehcache` | 2 nodes, 1 reader, 2 changes, 2 faults; one version is a missing record | 200 789 | staleness is explained, and ends |
| `mapper_factory` | 2 factories, 4 units, 1 commit that throws | 495 682 | what nested verdicts amount to, what stays open, and when a finished status stays behind |

Four more configurations belong to no run of the list. They show, with a counterexample each, where a stronger
property fails (see the disagreements): `MCKeyArrayBlockingQueuePut.cfg`, `MCZookeeperLocalCacheFactoryWatch.cfg`,
`MCZookeeperLocalCacheFactoryExpire.cfg`, `MCServiceConsumerSeq.cfg`.

Some weaknesses of the code cannot be stated away: a crash that takes what a thread has popped, a message that Redis loses, a stop
that overlaps a start. The properties name these as excuses (`lost`, `excused`, `missed`, a fault in the step) and say
that nothing else goes wrong. `PROJECT.json` lists such a hazard with a note, and not with the property that excuses it. The
excuses are kept narrow: `NothingVanishes` lets a datum go only with the node that holds it or is popping it, and
`QueuedIsServed` asks for service whatever happened to other nodes, as long as one dispatcher lives.

Why the bounds are enough. The lock: the interesting cases need a holder, a twin with its token and
a third that overlaps both partially and wholly; one fault already gives every lost answer and crash at
every point. The work queue: the conflicts are between two runs of one datum and between two
uses of one Task object, for which two nodes and two data suffice; `MaxRetryTimes` 0 and 2 take both
branches of the retry loop. The keyed queue: 2 slots make it full, empty and wrapped with 3
threads, enough for one sleeper more than there are signals; 7 insertions in 3 slots wrap the ring twice,
which is what makes an iterator give up. The cache: the races are between two adders, or an adder and a
watcher, on one dependency; objects and dependencies beyond two add no new conflict. The service consumer:
jobs meet only in threads, and a list of delays with one of each kind takes every branch. The
batch worker: two starts are what a stop can confuse; a batch of two over a queue of one makes `putAll` fail and the poll time out. The two-level
cache: a second change while the first is on its way is what makes a load, a reload or a refresh old. Mapper factories:
four units nest twice inside one transaction and leave one to follow it. `Permutations`
symmetry is used only in runs without liveness, over sets the constants do not tell apart.

The bounds are named: `MaxFaults` (failing calls, stops, crashes, disconnections), `MaxPuts`, `MaxSerial`
(insertions, when iterators are on), `MaxRemoves`, `MaxWatchers`, `MaxSwitches`, `MaxStarts`, `MaxStops`, `MaxWrites`,
`MaxUnits`. Everything else is bounded by the code.
Deadlock is checked for the lock, for `keyed_queue` and for `mapper_factory`, whose systems never stop; the others stop when their bounds are used up.

## Fairness

* Lock: a sleeping thread wakes up (`Retry`), a timeout runs out (`Expire`). No promise that anybody unlocks.
  Hence `WaiterServed` is about progress, not about each waiter: the code has no queue.
* Work queue: each dispatcher and each thread takes its next step, a running key expires. Not the
  calls of `put`, not `stop`, not faults.
* Keyed queue: a woken thread gets the lock in the end. No promise that anybody calls `take` or `put`.
* Cache: threads run, the client reconnects, the server's events arrive. Disconnections are bounded, as a
  ZooKeeper that never stays up delivers nothing.

* Service consumer: threads run, each listener container receives as long as there is something for it (not each of its
  threads), delays run out. `JobEnds` asks no more of the control key than that it is off for good at some time.
* Batch worker: clients, threads and a stop under way go on. Nobody need call anything.
* Two-level cache: the writer, the notify worker, reloads and stores of a node that is up go on; failures are bounded.
* Mapper factory: none; it has no liveness property.

All are weak, but for one: the thread scheduler, the expiry of Redis keys and the reconnection of the ZooKeeper client
give no more. The exception is a message of the two-level cache that waits for the lock of its key while readers take it again
and again: Ehcache's lock lets every waiter through in the end, which is strong fairness of `OnMessage`.

## Disagreements between the code and its documentation

1. `worker_race`. "One datum is processed by only one task at a time" (`NonRepeatWorkerUserRedis.java:28`).
   `Task.run` returns its object to the pool (402) before `removeFromRunningTask` reads its fields (403, 363-365):
   the dispatcher reuses the object for another datum, whose running key is then deleted under its run.
   `OneRunUntilKeyLost` says what remains true.
2. `keyed_queue_keys`. `contains` is to be exact (`KeyArrayBlockingQueue.java:505-506`); `removeAt` (246)
   takes the last element's key away, not the removed one's.
3. `MCKeyArrayBlockingQueuePut.cfg` violates `PutWaitsForSpace`. `put` is to wait for space (302-303); a woken put that
   finds its key present (175) swallows the signal, and another waits on beside a free slot. `NoThreadForgotten`
   says that this is the only way a thread is forgotten.
4. `MCZookeeperLocalCacheFactoryWatch.cfg` violates `CachedIsWatched`. "Cached only when the watch has been added"
   (`ZookeeperLocalCacheFactory.java:78`); a watch that fires before the map is filled (80) is used up, and the object stays without one.
5. "Put into the queue and executed after recovery" (63); the worker blocks on the full queue that only it drains (289).
   `ExpireDelivered` holds but for that state, which `WaitsForItself` names.
   `MCZookeeperLocalCacheFactoryExpire.cfg` violates `ExpireIsQueued`: an interrupted caller's `put` throws, the
   exception is printed (231-234), and `expire` returns without having put anything. `NoExpireLost` and `ExpireDelivered`
   are about what is in the queue.
6. `MCServiceConsumerSeq.cfg` violates `SequentialOrder`. "In sequential mode, when a task in front has not succeeded the later ones may
   not be executed" (`ServiceJob.java:15`); `doWork` never looks at the mode.
7. Not in a module: `checkAndRollbackTransaction` returns true always (`MapperFactory.java:69`), so
   `CheckTransactionFilter` throws after every call (38-39) and the interceptor logs an error after every request;
   a factory built by the default constructor is never in the list it goes through (44-51).

No document says so, but the two commits differ in what they do when the commit throws: `commitTransaction()` clears the thread-local
in a `finally` (161-165), `commitTransaction(status)` does not (169-176). `OpenIsHeld` names this as the one way in which
the thread-local holds a transaction that is over.

## Proofs

Proved for every value of the constants that satisfies the `ASSUME` of the module (`LockAssumption`, `WorkerAssumption`, and so on).

**RedisLock** (`RedisLockProofs`). `TypeCorrect`, `ExclusionHolds`, `AllOrNothingHolds`, `OrphanExplainedHolds`,
`RobbedByTwinHolds`, and `ImplementsLeases` (the refinement). The inductive invariant is
`TypeOK /\ Own /\ Whole /\ Backed /\ Asleep /\ Accounted /\ RobbedByTwin`. `Exclusion` alone is not inductive:
nothing in it says that a granted lock without losses is really in Redis. `Backed` does (a holder that lost nothing
owns every key), and two holders of a common key then contradict each other. `Own` (a key is set only by a lock that
has it) is what a deletion needs; `Whole` carries multi-key atomicity over expiries; `Asleep` is what lets a retry
assign `hasLock`; `Accounted` keeps the orphans. Two lemmas, `SetIfAbsentEffect` and `DeleteIfEqualEffect`, say what the scripts do,
and every step uses them. For the refinement each action maps to Grant, Return, Lapse or a stutter.

**NonRepeatWorkerUserRedis** (`NonRepeatWorkerUserRedisProofs`). `TypeCorrect`, `QueueMatchesKeysHolds`,
`ObjectsAccountedHolds`, `OneRunUntilKeyLostHolds`, `NothingVanishesHolds`: every safety property of the run, for any number of nodes,
threads, objects and data. The types need `Loaded`: where the dispatcher or a thread is busy it has a datum and an
object, without which the updates of `task` and `running` would leave their domains. `AddTaskInv` and `TakeTaskInv` are the two
scripts. The rest is over `RInv == BaseInv /\ Shapes /\ ObjectsAccounted /\ RunsInv`. `RunsInv` is what `OneRunUntilKeyLost` lacks
to be inductive: as long as the key of a datum was not taken away, its run still has the key in Redis, so the next
`setIfAbsent` fails. A run outlives the Task object it started with, which is why it is counted by the thread's
`data` and not by the object's; `Shapes` says where the two still agree and that objects stay on their node. `PlacesAndRuns` turns the
set expressions `Places` and `Runs` into four and three cases. `NothingVanishes` needs one lemma per
action: what leaves one of the three forms of waiting enters another, or starts. `OneNodeLetsGo` adds that a step which
changes what is held changes one node only, so the node that failed is the one that held the datum.

**KeyArrayBlockingQueue** (`KeyArrayBlockingQueueProofs`), three developments.

Under `Plain` (no iterator, no removal from the middle, as in the run `keyed_queue`; with the others, the code breaks the property:
`keyed_queue_keys`): `KeysMatchItemsHolds` and `Implements`, the refinement of `KeyedFifo`, for every capacity.
The inductive invariant is `FifoInv == Array /\ Ring /\ KeysMatchItems /\ CallsTyped`. All that happens to the array is one of two
things, `Fill` and `Empty`; each keeps the invariant and appends to, or takes from the front of, the abstract
sequence, and every action is one of them or leaves the array alone.

For the whole queue, with interior removals, drains and any number of iterators: `TypeCorrect`, `RingHolds`,
`IteratorInStepHolds`, `NothingSkippedHolds`, `IterationInOrderHolds`, `RemovesWhatItReturnedHolds`, over
`IInv == Watched /\ Waiters`. A third change of the array is `Close`, which removes from the middle and moves the later slots down. The
iterators keep indices into a ring that turns under them, and are told of some changes only, so what holds of them is stated
in another frame: `Lag` counts the slots dequeued since an iterator caught up (from its `prevCycles`
and `prevTakeIndex`), and an index is a distance from `prevTakeIndex`. In that frame

* `Live` (of an iterator that is still told): each index is within the lag and the queue (`Within`); one that was not
  dequeued meanwhile designates the entry the iterator stands for (`Means`); the cursor stands exactly before the entries younger
  than the next (`Before`); and entries a whole turn behind are younger than the iterator.
* `Own`: the numbers of the entry returned last, the next one and the youngest are in order, and a detached iterator has
  neither cursor nor next index.
* `Complete`: no queued entry lies between the one returned last and the next.

`Live` is not preserved by a wrap beyond the iterator's reach; `Loose` admits, within one method, iterators the sweep
is about to find, and `Good` excludes them again. The queue's three changes, `shutdown`, `removedAt`, `takeIndexWrapped`, `queueIsEmpty` and the
iterator's four methods each have their lemma. The cycle count is a natural number here (see below).

For the threads that wait: `NoThreadForgottenHolds`, over `IInv /\ Sleepers /\ ~TakerForgotten`. `Sleepers` says that a condition
holds each of its threads once, in a call that waits there and not awake, and that only finitely many are awake; without it a signal
might wake nobody, or the wrong one. Every step is then one of three: it rouses (it signals some threads of either condition, and calls
begin or end: `Roused`, `RouseKeeps`), it goes to sleep (`GoesToSleep`, `WaitKeeps`, which happens only when there is nothing for the thread), or
it leaves a condition on a timeout or an interrupt (`LeaveKeeps`). If threads still sleep after n signals, then n more
are on their way (`SignalsCount`), which is at least the number of elements, or free slots, that the step added. The step that gives less is
`enqueue` of an element whose key is there, called by a woken put: that is `SwallowsSignal`.

**ZookeeperLocalCacheFactory** (`ZookeeperLocalCacheFactoryProofs`). `TypeCorrect`, `NoExpireLostHolds`, `StaleExplainedHolds`,
over `Safety`: no fairness is used. `AddWatched` and `CachedWatched` are the invariant on the two sides of line 80, where `add` puts the
object into the cache. Before it, a watch that has been set is still there, or was fired after the read and
is under way; after it, an object that is not excused is mapped by each of its dependencies, or a call of `add` will do it, and what it misses
is under way. A watcher that runs drops what it finds mapped and excuses what it cannot know. `TypeOK` bounds the
watchers of a node, and a call of `add` sets several one after the other: `WatchersBounded` is inductive because it leaves
room for all those a call has still to set, which is finite because calls are bounded. An interrupted call may leave a watch of
its own behind, which takes the place of one it had still to set (`OneMore`, `WatchersGrow`, `WatchBounded`).

**ServiceConsumer** (`ServiceConsumerProofs`). `TypeCorrect`, `JobAccountedHolds`, `NoSuccessRepeatedHolds`,
`FailedForGoodHolds`. The properties relate the history to what is in a thread now, so they are not
inductive: `Carried` adds that every message tells the truth about its job, in the queue (`InQueue`), and in the thread that
took it (`InThread`): its successes are those of the history, and each delay before its `failedTimes` has run out. The last is also what makes
`Unreadable` true when `doWork` drops a job: it got to the delay that throws by failing at all those before.

**BatchWorker** (`BatchWorkerProofs`). `TypeCorrect`, `ItemsAccountedHolds`. An item moves from a call to a queue, to a batch, to
its end, and starts and stops may overlap at any point. `Offers` and `Single` say that no call, queue or batch has
an item twice or shares it; `Where` that the accepted ones are exactly those in a queue or a batch; `Counted` how often an item has been
tried, by where it is. `Started` is the protocol between `start` and `stop`: one call at a time is between the two flags, and
whoever uses a queue or a pool finds one, even while a stop takes `isActive` back. Moves between queue and batch are four
lemmas (`ItemsStay` and the three that add, take over and end), which the actions instantiate.

**RedisEhCache** (`RedisEhCacheProofs`). `TypeCorrect`, `StaleExplainedHolds`. `StaleExplained` speaks of what is in a
cache; a load or a reload may bring an old version into it. `LoadsExplained` and `ReloadsExplained` say the same of those
values, and the lock of the key is what keeps an invalidation from slipping between the read and the store.

**MapperFactory** (`MapperFactoryProofs`). `TypeCorrect`, `DecisionsKeptHolds`, `OpenIsHeldHolds`. `Counted` is the
heart: without `commitTransaction(status)` the counter is the number of units of the transaction that have not asked for a rollback, those
that committed or were abandoned included. `Numbered` and `Joined` tie units to transactions. For `OpenIsHeld` a status stays behind
in one action only, `CommitStatusFails`, and the unit that caused it keeps saying so in its verdict, also when the
request ends and its open units are abandoned.

Only model-checked: all liveness (temporal properties under fairness, and ENABLED, are beyond the prover).
Every safety invariant and action property of the passing runs is proved. What the two violation runs and the four
configurations named above refute is of course not proved. Facts about recursive definitions would need induction over data,
which the prover cannot instantiate; no module needs one.

## What is not covered

* Reading methods (`size`, `peek`, `get`, `toArray`), formatting, logging.
* Integer overflow of the iterators' cycle count, and more than four iterators at once.
* `KeyArrayBlockingQueue`'s constructor with duplicates: it stores them all and keys them once, so `KeysMatchItems`
  would fail in the initial state; the runs start from collections without duplicates.
* Start-up: `init` of the work queue and of the cache. The cache's worker is started before its client exists.
* Redis itself failing over, and losing keys other than by expiry.
* A stopped or crashed node does not come back under its old identity; a restart is a node of its own.
* Service consumer: redelivery by a broker that restarts (messages are not persistent), topics, and how containers start.
* Batch worker: two calls of `stop` at once, an interrupted client, a client that waits in `put` on a queue that a later start replaced
  (it may wait for ever, and no property promises otherwise).
* ZooKeeper cache: a `connect` that throws and leaves the closed client in place.
* Service consumer: a body that does not parse as a job, and errors of the JVM. A delay of the control key is taken to be one the
  broker observes.
* Two-level cache: what Ehcache does beyond time to live.
* Mapper factory: propagation other than the default, a begin that throws, and a rollback that throws.

## Plan

Done: the lock, the work queue, the keyed queue, the ZooKeeper cache, the service consumer, the batch worker, the two-level cache,
the mapper factory; proofs about each of them.

Left, in this order:

1. `RedisInJVMCacheFactory`: versions; abstract specification: a copy whose version is current is current.
2. `NonRepeatWorker`, over the keyed queue's abstract FIFO.
3. `PropertyRegistry` over the same ZooKeeper steps as the cache, with `ZK`.
4. `MultiDataSource` and the Beanstalk path of the service consumer.

Theorems: abstract specifications for the components that have none, and their refinements: the work queue (a datum waits, runs and
ends), the batch worker, the two-level cache; and the keyed queue with interior removals, as a sequence of entries.

## How to run

`tlc -config MCRedisLock.cfg MCRedisLock`, and so on for the configurations in `PROJECT.json`;
`tlapm RedisLockProofs.tla`. `PROJECT.json` maps every definition to the lines it models and lists,
per property, a mutation of the code it notices.
