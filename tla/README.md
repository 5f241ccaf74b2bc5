# TLA+ verification of tf-common

This directory holds TLA+ models of the concurrent core of tf-common (`../src`),
the TLC configurations that check them on small instances, and TLAPS proofs of
the most important safety properties for every value of the constants.

    tlc -workers 2 -config TaskScheduler.cfg MCTaskScheduler    # one run
    tlapm TaskSchedulerProofs.tla                               # one set of proofs

`PROJECT.json` lists the components, every run with its properties, a mutant of
the model for every checked property (the change of the code that the property
would detect), the source lines each definition translates, the hazards of the
code and the theorems.

## 1. The system

tf-common is the C++ library (with some Python) that the Tungsten Fabric
daemons share. Everything concurrent in it is built in layers:

    config client manager     sandesh client / server    HTTP      partitions
      |         |        \        |          |            |           |
    TaskTrigger |      Timer    state machine queues      |      ZooKeeper lock
      |       WorkQueue  |        |          |            |
      +---------+--------+--------+----------+   TCP/SSL/UDP sessions (ASIO)
                         |                              |
                   TaskScheduler (over TBB)      event manager
    LifetimeManager (over a WorkQueue) orders the destruction of all of them

| Part | State | Operations | Hard behaviour |
|---|---|---|---|
| `base/task.cc` scheduler | task groups and entries, exclusion lists, `waitq_`, `deferq_` trees, run counts | SetPolicy, Enqueue, Cancel, exit and recycling, Stop/Start | a task waits in the queue of the *one* entry or group that blocked it; that one must wake it, though it may be blocked by something else then |
| `base/queue_task.h` work queue | concurrent queue, `count_`, runner, water marks | Enqueue, runner, RunnerDone, set_disable, Shutdown, ScheduleShutdown | a producer pushes while the runner is about to resign; the counter and the queue are two steps; two mutexes |
| `base/timer.cc` | state, task, sequence number, references | Start, Cancel, expiry, handler, restart, DeleteTimer | late expiries, a cancel that races the callback, destruction |
| `base/task_trigger.cc` | three atomic flags | Set, worker, disable, defer | one task for many callers; reset against set |
| `base/lifetime.cc` | graph of actors, event counts | Delete, propagation, RetryDelete, Pause/Resume, destruction | an event must not outlive its actor and must not be missing |
| `config-client-mgr/` | reinit flags, bulk sync, read sets per partition, caches | Init task, reinit, RabbitMQ reader, FQ name reader, object processors, config readers | a reinit at any moment; changes during the bulk sync; end of config |
| `zookeeper/` | connection, lock znode | Lock, Release, retries | lost answers, crashes, a persistent znode |
| `io/` TCP, SSL, UDP | session map, socket state, write buffers, reader queue | accept, connect, send, close, deferral | callbacks after close, deferred close with pending writes |
| `sandesh/` client and server | state charts, timers, event queues, send queues, UVE caches, request pipeline | events, connect/disconnect, collector change, drop levels | stale timer events, deletion behind queued events, resynchronization |
| `http/`, `libpartition`, connection info, allocators, parsers, code generator | see PROJECT.json | | |

`PROJECT.json` (`components`, `hazards`) has the full inventory with the lines
where each hazard bites.

### Interactions

* A WorkQueue's runner, a TimerTask, a TaskTrigger's worker and the tasks of
  the config client are all scheduler tasks. What they rely on is what
  `TaskScheduler` is checked and proved to provide: a task that waits is
  started, tasks of one instance run one at a time and in order, excluded tasks
  never run together, and a task whose `Run()` returned false runs again unless
  it was cancelled. The upper modules use exactly this as their scheduler
  (`task`, `task_cancel_` and `pc` variables), not a copy of it.
* LifetimeManager's executor is the callback of a WorkQueue. `Lifetime` does
  not depend on the order of events, so it needs less than what `FifoOnce` and
  `EveryEntryHandled` say of the queue.
* `ConfigClient` composes the manager, the AMQP client, the FQ name reader and
  the partitions; the start conditions of its tasks (`InitMayStart`, ...) are
  the exclusion policy that the manager installs in the scheduler.
* `SandeshClient` composes the client's state chart, its work queue (FIFO, one
  runner), its two timers (which share the runner's task instance), the TCP
  sessions with their observers, and the owner. `TcpServer` composes a server
  with its sessions and their writers; `MessageReader` is what the reader task
  of a session does with the bytes.

## 2. Modules

| Module | Code | Grain of a step |
|---|---|---|
| `TaskScheduler` | `base/task.cc`, `task.h` | operations under the scheduler's mutex; the loops over rules and `deferq_` trees one turn at a time, with nothing else in between |
| `ExclusiveExecution` | what `base/task.h` promises | abstract specification that `TaskScheduler` implements |
| `TaskSchedulerLemmas`, `...Walks`, `...Proofs` | | lemmas on sequences, lists and trees, SetPolicy, cancel, the order of `waitq_` and the steps of the refinement; the counts and the walks over the trees; enqueue, exit and the theorems |
| `WorkQueue`, `WorkQueueProofs` | `base/queue_task.h`, `watermark.cc` | one access to an atomic or the concurrent queue, or one critical section |
| `Timer` | `base/timer.cc` | one critical section of `Timer::mutex_` |
| `TaskTrigger` | `base/task_trigger.cc` | one atomic access |
| `Lifetime` | `base/lifetime.cc` | one critical section of an actor; `DeleteExecutor` in five steps |
| `ConfigClient`, `ConfigProofs` | `config-client-mgr/config_client_manager.cc`, `config_amqp_client.cc`, `config_cassandra_client.cc`, the FQ name cache of `config_db_client.cc` | one step between two points where another task, thread, message or database change can interfere |
| `ZookeeperLock` | `zookeeper/zookeeper_client.cc` | one request to the server |
| `TcpServer`, `TcpServerProofs` | `io/tcp_session.cc`, `tcp_server.cc`, `tcp_message_write.cc` | what a thread does under one hold of a session's or the server's mutex |
| `MessageReader` | `TcpMessageReader` of `io/tcp_session.cc`, `SandeshReader` of `sandesh_session.cc` | one read, with all the messages it completes |
| `MessageFraming` | what a reader promises | abstract specification that both readers implement |
| `SandeshClient`, `SandeshProofs` | `sandesh_client_sm.cc`, `sandesh_client.cc`, the observer of `sandesh_session.cc` | one reaction of the state chart, one timer callback, one step of another thread |
| `ComponentProofs` | | theorems about `Timer`, `ZookeeperLock`, `Lifetime` and `TaskTrigger` |
| `MCTaskScheduler`, `MCWorkQueue`, `MCLifetime`, `MCConfigClient`, `MCSandeshClient` | | instances for TLC: rules, water marks, graph, partitions, collector lists, symmetry |

Variables have the names of the members they model; variables that are not
members (program counters, local variables, bounds, history) are commented at
their declaration. `LockSpec`, `LifeSpec` and `TriggerSpec` have the names of
their modules in front because `ComponentProofs` extends all three and `Timer`;
for the same reason `LifetimeActor::refcount_` is `actor_refcount_`. A definition
whose comment begins with "Mutant:" is no part
of the model.

**TaskScheduler.** A task belongs to an entry `<<task id, instance>>`. `mode`
is the loop the holder of the mutex is in, and `git`, `eit` are its iterators
into the trees of the group and of the entry, so the model has the effect of a
tree changing under an iterator. A deleted Task object may be created again
(state `INIT`).
Assumed of callers: SetPolicy is called once per task id (the code asserts it)
and while no task of the groups concerned is running (policies are set when a
daemon starts); no task id is excluded from itself as a whole, since
`RunWaitQ` starts all waiting tasks of `<<id, -1>>` at once.
`ExclusiveExecution` keeps of all this the waiting tasks of each entry, the set
of running tasks and the pairs of entries that a policy excludes. Its actions
are: a policy is added, a task arrives, starts at once, starts as the first of
its entry or with all of its entry, ends, is withdrawn. The trees, counts, sequence numbers
and loops have no counterpart. The mapping (`Abstract` at the end of
`TaskScheduler`) is `waitq_`, the tasks in state `RUN`, and the pairs related by
the rules applied so far.

**WorkQueue.** `count_` is a `size_t` (modulo `SIZE_MAX + 1`), changed before a
push and after a pop. The scheduler part of a runner is `task`/`task_cancel_`
with the window between `RunnerDone` and `OnTaskExit` in which a Cancel still
sees the task. `WithShutdown` allows Shutdown and ScheduleShutdown, the first also
after the second, but neither on a queue that has been shut down, which
`ShutdownLocked` asserts. The initial state decides whether the queue has water
marks, which may lie in any order: a low mark may be above a high one, as in
`sandesh_client.cc:51`. `flow` is the mark whose callback was called last.
Abstractions: marks do not change while in use except by the shutdown, and
`queue_.clear()` is one step.

**Timer.** `wait[s]` is the ASIO wait of the s-th Start, which a Cancel does not
stop from expiring late; `timer_[k]` is the reference of a task. DeleteTimer is
Cancel and erasure from the manager, two steps. `cancelled` and `deleted` are
history variables.

**TaskTrigger.** `asked` is a history variable: the Set that found `trigger_`
clear is still to be answered by a call of the function. Every call of Set, of
the worker and of the controlling thread is split at its atomic accesses.

**Lifetime.** An actor is absent, alive or destroyed; `inUse` stands for the
lightweight dependents that make `MayDelete()` false. `queue_` is the number of
events of each actor in the manager's WorkQueue, in any order.

**ConfigClient.** An object is a version number (0: not in the database), its
UUID a positive number because `uuid_read_set_` is ordered by UUID and the key
`""` of EndOfConfig sorts first. A database change and its message are two
steps; messages may be delivered twice and reads may fail. Abstractions: a run
of the object processor is one atomic batch; a RabbitMQReader that was deferred
on the Init task starts when that exits; the FQ name table is read one entry at
a time; a message that creates or updates an object is one kind of message.

**ZookeeperLock.** The server (external code) is the data of one znode. A
create or delete whose answer is lost has been executed and is sent again; a
delete, which names no version, may then meet the znode of another host, and
`overrun` records it. A crashed process starts anew; the znode is persistent and
stays.

**TcpServer.** The event-manager thread runs completion handlers one at a time;
`io` holds the rest of a handler that has let go of a mutex. One application
thread (`app`) connects, sends, closes, deletes and takes the server down, and
reader tasks run OnRead. `writes` and `reads` count what is posted, outstanding
and running for a session. Bytes are counted, not kept. Which sessions read on
connect is a constant. The accept and connect results, write errors and read
errors are choices; a peer may close at any time. A write that ends in a soft
error runs into an assert of `UpdateBufferQueue` (section 3): the process is
`Aborted` and no thread goes on. SetDeferReader, which takes no mutex, tests,
sets and posts in one step, and is called for sessions that read on connect.

**MessageReader.** Both readers are fed the same reads of the same stream. A
byte is its place in the stream, so a message delivered from the wrong place
shows. A read of no bytes is what a soft error makes. `refusal` says for which
message the receive callback returns false; what is read after that is not
modelled (section 6).
MsgLength, which each protocol defines, is external: it answers the length when
the whole header is there and -1 before. `MessageFraming` says what is delivered
as a function of the bytes received.

**SandeshClient.** Each method of the machine is a function on the record of
what it may change, and a reaction composes them in the order of the code:
destructor of the state left, transition action, constructor of the state
entered. What a state does not list is dropped. `sess` keeps every session ever
created, so that one deleted twice or never shows. `CloseSMSession` runs on a
thread of its own in three steps, because it reads the session pointer, tests
the session and calls its observer at three different times. Durations are left
out: `hold` says whether `idle_hold_time_` is nonzero, and CloseSMSession's rate
limit, which refuses calls, is not there. The machine may be destroyed with
events on its queue, since `WaitForIdle` gives up after 15 seconds; they have no
effect then.

## 3. What the runs show

### Passing runs

| Run | Configuration, instance | Shows |
|---|---|---|
| `scheduler` | `TaskScheduler.cfg`: 4 tasks of 3 task ids, one without instance and two of one instance, a group rule and an instance rule, 3 sequence numbers | no excluded tasks run together; no lost wake-up; the inductive invariant (counts, trees, order); `ExclusiveExecution` is implemented; a waiting task is started or cancelled unless the scheduler stays stopped |
| `workqueue` | `WorkQueue.cfg`: 2 producers, 3 entries, 2 runners, capacity 3, high marks 1 and 2 and low marks 0 and 1, one kind of them or none, both shutdowns | `QueueState` (types, one known runner, exact count that never wraps, who holds `water_mutex_`), no stranded entry, FIFO once, quiet shutdown; the client is told of every crossing of a mark and of nothing else; every entry is handled unless the queue is shut down or stays disabled |
| `timer` | `Timer.cfg`: 1 client, 3 tasks, 3 Starts, deleted by the client or by itself | `TimerState` (types, who can be where, one task, exact references, no inverted lock order); no callback for a cancelled Start; a running timer ends; a deleted one is freed |
| `trigger` | `TaskTrigger.cfg`: 3 callers of 2 Sets, 2 workers, 4 switches | one worker exactly while `trigger_` is set; a Set is answered |
| `lifetime` | `Lifetime.cfg`: 3 actors, b on a and r, a on r | destruction bottom up; the inductive invariant (exact event counts, nothing refers to a destroyed actor, no lost delete); a deleted actor is destroyed |
| `config_reinit` | `ConfigClient.cfg`: 2 partitions, 2 objects, 2 threads, 2 reinits, 1 change | `SyncState` (types, no stranded request, ends of sync accounted for); one bulk sync per client; clients destroyed idle |
| `config_converge` | `ConfigClientWrites.cfg`: 1 partition, 1 object, 3 changes, 1 reinit | when nothing is pending the cache is the database, but for removed objects without FQ name; the client catches up unless a reinit is never served |
| `zookeeper_lock` | `ZookeeperLock.cfg`: 3 hosts, 2 crashes, any answer lost | two hosts hold the lock only after a repeated delete has removed the znode of another host; waiting hosts do not all wait for ever; the inductive invariant |
| `sandesh_client` | `SandeshClient.cfg`: lists of two and one collectors, 1 new list, 2 faults, a shutdown | `SessionsAccounted`: one session, to the right collector, every other one deleted once; no wait without its timer; connects and messages are taken from the present session only; the client comes back and stays connected |
| `tcp` | `TcpServer.cfg`: an outgoing and an accepted session, 2 Sends of 2 bytes, writes of 1 byte, marks 2 / 1, 2 changes of deferral | `SessionsAccounted`: the session map has exactly the established sessions and dangles nowhere; one writer at a time; a session that is not deferred keeps reading; a deferred close completes; a blocked sender is released |
| `message_reader` | `MessageReader.cfg`: up to 3 messages of 3 or 5 bytes, header of 3, up to 6 reads | both readers implement `MessageFraming`; TcpMessageReader releases every buffer once, accounts for every byte and fails no assert |

Properties named `...State` and `...Accounted` are conjunctions of definitions
that can be checked one by one.

### Where the code and its comments disagree

One disagreement has a run of its own. `zookeeper_exclusive`
(`ZookeeperLockExclusive.cfg`, 2 hosts, no crash) checks `Exclusive`, that two
hosts never hold the lock, which is what a `ZookeeperLock` is for ("Usage is to
first create a ZookeeperClient, and then ZookeeperLock for distributed
synchronization", `zookeeper_client.h:54`). It is violated: the answer to the delete of
`Release()` is lost, a second host creates the znode and has the lock, the
delete is sent again with version -1 (`zookeeper_client.cc:251`) and removes that
znode, and a Lock() of the first host creates it anew. (The code knows of the
danger: `zookeeper_client.cc:433` logs a possible concurrent execution.)

These definitions state what a comment, an assertion or the purpose of an
operation says, and do not hold. They are in no configuration; to see the
counterexample, make the definition the only property of the one named:

| Definition | Configuration | What happens |
|---|---|---|
| `StoppedStartsNothing` ("Stop scheduling of all tasks", `task.h:203`) | `TaskScheduler.cfg` | the exit of a running task still starts the tasks deferred on it: `running_` is read only on Enqueue |
| `NoCircularWait` ("can be called from any context", `queue_task.h:157`) | `WorkQueue.cfg` | ScheduleShutdown takes `mutex_`, then `water_mutex_`; an enqueue under water marks takes them the other way round |
| `ShutdownHappens` ("Schedule shutdown of the WorkQueue, shutdown may happen asynchronously or in the caller's context also", `queue_task.h:158`) | `WorkQueue.cfg`; with `HighWater` and `LowWater` empty to see more than the circular wait above | ScheduleShutdown after `RunnerDone` kept the runner and before its exit cancels the task that would have shut the queue down |
| `NoCallAfterDelete` ("Cancels the timer and triggers deletion of the timer", `timer.h:24`) | `Timer.cfg` | the task restarts a timer that was deleted after its handler returned (`timer.cc:50`) |
| `WaitEndsOnReinit` ("the condition variable is triggered even in case of reinit", `config_client_manager.cc:205`) | `ConfigClientWrites.cfg` | ReinitConfigClient notifies the condition variable before it sets the flag; a reader that tests the flag in between waits for ever |
| `ReinitPending` ("to force re-reading of cassandra", `config_client_manager.h:91`) | `ConfigClient.cfg` | a Set between the last test of the flag and the trigger's reset is lost |
| `ReadBeforeEnd` ("Once we have finished reading the complete cassandra DB", `config_client_manager.cc:194`) | `ConfigClientWrites.cfg` | EndOfConfig's key `""` sorts before the objects queued ahead of it in `uuid_read_set_` |
| `CachedHasName` ("Handle the UPDATE as a CREATE and add object to FQNameCache", `config_amqp_client.cc:317`) | `ConfigClientWrites.cfg` | the entry of a deleted object is only marked, FindFQName does not find a marked entry and AddFQNameCache's insert keeps it (`config_db_client.cc:91`); the queued DELETE then purges it, the object is read again, and when it is removed HandleObjectDelete finds no name and leaves it in the cache (`config_cassandra_client.cc:639`). `Converged` makes this one exception |
| `SoftErrorsHandled` ("Soft errors like EINTR and EAGAIN should be ignored or properly handled with retries", `tcp_session.cc:735`) | `TcpServer.cfg` | AsyncWriteHandler goes on after a soft error and passes what was written to UpdateBufferQueue, which asserts that it is everything (`tcp_message_write.cc:85`) |
| `WaitReturns` ("wait until the server has deleted all sessions.", `tcp_server.h:85`) | `TcpServer.cfg` | ConnectHandlerComplete takes the last session out of the map (`tcp_server.cc:470`) without notifying the waiter |
| `ObserverSilenced` ("it is guaranteed that the observer will not get invoked after this method returns", `tcp_session.h:92`) | `SandeshClient.cfg` | EnqueueClose copies the observer under the mutex and calls it without (`sandesh_session.cc:443`), so a session that was given up still reports a close, and the state chart acts on it |
| `ShutdownByDestructor` ("The State Machine should have already been shutdown by this point.", `sandesh_client_sm.cc:936`) | `SandeshClient.cfg` | an idle-hold expiry queued before EvStop cancelled the timer is processed after it (`EvIdleHoldTimerExpired::validate`, line 97, does not have the signature that is looked for) and opens a new session |

### Bounds, and why they are enough

Bounds are constants named `Max...`; each is a guard of the action it limits.

* Scheduler: the code tells apart tasks of the same instance, of an instance or
  group excluded by a rule, and without instance. There are two tasks of one
  instance (`RunWaitQ` leaves the second waiting), one without instance, and a
  third entry, so that what is blocked by one of the others may be deferred
  again on the third. Three sequence numbers let any three of the four be
  enqueued, or fewer and recycled. That several waiting tasks of an `<<id, -1>>`
  start at once is left to the proofs, which have no bound on tasks, groups or
  rules; there `MaxSeqno` is any natural number.
* WorkQueue: races are between a producer, a resigning runner, a new runner and
  the controlling thread; a second producer adds those between producers. A
  second runner object lets one resign while the next starts. `max_iterations_` is 2 so
  that a runner both yields and resigns; the capacity 3 lets Enqueue drop. Two
  high and two low marks with one value in common let a crossing have to choose
  among several, and a length be above a high mark and below a low one at once.
* Timer: a stale expiry, a stale task and the current one need 3 tasks and 3
  Starts. Whether the timer deletes itself is chosen in the initial state.
* TaskTrigger: two callers for the race of test and set, a third to set again;
  by `OneWorker` a second worker object is never needed, and there is one to
  catch it.
* Lifetime: of the three actors one has two dependents and one has two parents.
  One RetryDelete or one deferred event adds to those that `EndUse` and
  ResumeDelete queue. The proof has no bound.
* ConfigClient: two partitions for the count of ends, one of them with both
  objects for bunching and yielding, two reinits for one that arrives while
  another is served. In the other run one object, created, removed and created
  again, meets every mix of requests and messages; that objects do not disturb
  each other is left to the proof, which has no bound.
* SandeshClient: two faults let a connection fail while an earlier failure is
  still in the queue; two collectors let the machine move on and come back; the
  new list has the collector in use, or not, at its head.
* TcpServer: a session of each kind, so that the server's set and map have a
  member to lose and one to keep; a message takes two writes, two messages cross
  the high mark, and draining them crosses the low one.
* MessageReader: a message of the header only and one with a body; buffers
  shorter than a header, longer than a message, and everything between; every
  cut of the stream into up to six reads, empty ones included.
* ZookeeperLock: a holder, one that waits and one that crashes or comes back; the
  proof has no bound. The counterexample to `Exclusive` needs two hosts.

`CHECK_DEADLOCK FALSE` is given where the bounded environment ends: all calls
are made and the threads are idle. The scheduler and the lock can always go on,
and their runs check for deadlock.

## 4. Fairness

Liveness is checked under fairness of steps that the system takes by itself,
never of calls by a user, except where said.

* *A thread that can go on goes on* (weak fairness of the steps of a producer, a
  runner, a worker, the holder of the scheduler's mutex): the threads are OS
  threads and critical sections end.
* *A task's exit gets the scheduler's mutex though others keep taking it* (strong
  fairness of `OnTaskExit`): the mutex is a `tbb::mutex` over a pthread mutex.
  It also says that `Run()` returns, which the scheduler requires of its users.
* *The scheduler runs a task that waits* (weak fairness of the task steps of the
  modules above it): this is `WaitingTaskLeavesWaitQ`. It holds in the model
  because `MaxSeqno` bounds the arrivals; with endless arrivals the scheduler
  gives no such guarantee, because an entry whose blockers alternate may find
  one of them active at every walk.
* *A client that defers a run of a work queue lets it run in the end* (strong
  fairness of an `OnEntry` that answers true) is required of the user who sets the
  callback. Entries leave the queue only by being handled or by a shutdown, and
  arrivals are bounded, so `EveryEntryHandled` says of the queue that it runs
  empty; it excepts a shutdown that has `mutex_`, which may be stuck in the
  circular wait of section 3.
* *ASIO waits expire and their handlers are called* (`Timer`).
* *Events of an actor are handled* (strong fairness of `Dequeue`): the WorkQueue
  is FIFO, the model leaves the order open. *Lightweight dependents go and
  paused deletes are resumed* (weak fairness of `EndUse` and `ResumeDelete`) is
  required of the users of an actor.
* *Reads of the database and receives succeed in the end* (strong fairness of
  the successful outcome of `ConfigReaderReads` and `ReceiveRabbitMessages`):
  the code retries for ever. A condition variable is *not* assumed to wake up by
  itself.
* *The event-manager thread serves what is posted, and a write ends, with
  success or an error* (`TcpServer`). Nothing is assumed of reads, of accepts and
  connects, or of the application.
* *A collector that does not fail accepts and answers, a silent one runs into
  the connect timer, and the runner and the timers are served*
  (`SandeshClient`). `MaxFaults` bounds the failures: the claim is that the
  client comes back once they end.
* *A ZooKeeper request succeeds in the end, a host comes back for the lock and a
  holder gives it back*: the code retries for ever; the second is required of
  users, as the znode of a crashed process is only removed by its host.

## 5. What is proved

All proofs follow one pattern: an inductive invariant `IInv`, one lemma per
action (`IInv /\ action => IInv'`) with one step per conjunct the action can
disturb, `Init => IInv`, and the property from `IInv`. The invariants of the
scheduler, the lock and the lifetimes are checked by the runs too. Those of the
work queue, the TCP server, the timer and the trigger are made of the properties
of their runs. Those of `ConfigClient` and `SandeshClient` add conjuncts to the
properties; TLC confirms them when `IInv` is made the only property of the run's
configuration (of `ConfigClient`, of both).

Some modules state the facts about finite sets and numbers that they need as a
definition (`Counting`, `NatOrder`), prove the lemmas from it, and take it from
the library's theorems in a last lemma, so that the library is not part of the
context of every step.

**TaskSchedulerProofs** and the modules it extends (assumptions: `Tasks` is finite, task ids and instances
are natural numbers, rules are sequences of exclusions and exclude no task id
from itself as a whole).
`Invariance`, `TypeCorrect`, `Exclusion`, `Wakeup`, `Bookkeeping`, `StartOrder`.
Neither exclusion nor wake-up is inductive. Exclusion is enforced by tests of
the lists of the *starting* task only, so it needs that the lists are symmetric
(`PolicySymmetric`), that they hold every rule applied so far
(`RulesInstalled`, relative to the rule SetPolicy is at), that no two entries in
each other's lists are active (`NoConflict`) and that the counts the tests read
are the numbers of running tasks (`RunCountsExact`). Wake-up needs that the
trees and the back pointers agree and keys do not go stale
(`DeferQConsistent`), that sequence numbers are unique (`SeqnoUnique`: two
entries never have one key), that the iterators of a walk are in the tree
that is walked (`LockState`), and then says of each waiting entry that what it
waits for is active or that the walk has not passed it.
`StartOrder` is an action property that follows from the order of each `waitq_`.
The lemmas are split so that each module needs little of the others: `Lemmas`
has what needs no counting, which is the flags of a task, Stop, SetPolicy, the
cancelling of a waiting task, the order of `waitq_` and the steps of the
refinement; `Walks` has the counts, one turn of a walk over a tree and what starts
one; `Proofs` has Enqueue and the exit of a task, assembles `Next` and draws the
conclusions. `AddPolicy` is stated over
`PushPolicy`, the append to the two lists of one rule, so that its effect on the
lists is proved once.

The refinement, `Refinement`: `Spec => Implements`, says that
`TaskScheduler` implements `ExclusiveExecution`. Under `IInv`, each operation is
one abstract action or leaves the three mapped variables alone: enqueue arrives
or starts at once, a turn of a walk starts the first or all tasks of an entry or
nothing, a waiting task that is cancelled withdraws, an exit finishes, and a turn of
SetPolicy restricts. The abstract actions ask that the running tasks stay
compatible. That is `MutualExclusion` in the state after the step, which is why
the refinement rests on `Invariance`; that the task is the next of its entry
rests on the order of `waitq_`.

**WorkQueueProofs** (assumptions: threads are finitely many and distinct; no more
entries are enqueued than a `size_t` counts; of the water marks only that they are
numbers, high ones not 0). `Invariance`, `QueueConsistent`, `NoEntryStranded`, `InOrderOnce`,
`QuietAfterShutdown`, `CrossingsReported`: every safety property of the run, for
any number of producers, entries and runners. The invariant is the conjunction
of the run's properties, because they need each other.
That there is one runner (`RunnerKnown`) makes at most one entry be out of the
queue and not yet handled, so that handled entries, the held one and the queue
are one ordered sequence (`FifoOnce`). The order also needs that the entry a
producer is enqueueing is later than all of its others (`Enqueued`).
`RunnerDone` decides by the queue itself and a producer pushes before it asks
for a runner (`NoStrandedEntry`).
`count_` is changed before a push and after a pop: it is exact only with the
producers and runners in between counted in (`CountExact`). That the decrement
does not go below zero follows; that the increment does not wrap needs a bound of
another kind, the number of entries that were ever sent (`CountBounded`).
`FlowControl` is an action property about one crossing: an enqueue that brings the
queue to the length of a high mark calls that mark's callback, a dequeue that
brings it to a low mark calls that one's, and nothing else calls any. The code
looks for the nearest mark and compares it with `last_count_`; that this finds the
crossing and no other follows if the marks were processed for each value of
`count_` but the one of an enqueue under way, which needs who holds `water_mutex_`
at each place (`WaterHeld`). How high and low marks lie among each other does not
matter.
The first half of the module has the steps that need no cardinality: types,
places, the runner, the order, and the water marks for a step that keeps the
count in range (`CountInRange`); the second half has the counts, which give
`CountInRange`.

**TcpServerProofs** (assumptions: outgoing and accepted sessions are different,
buffers, writes and marks are not empty). `Invariance`, `Accounted`,
`SingleWriter`, `ReadsGoOn`, for any set of sessions. The map is stated by what
each of the two threads is about to do with it (`MapExact`), which needs that they
never report the close of one session both (`AppConsistent`) and that a session
has one life (`SessionStates`). That no pointer of the map dangles does not
follow from the lists of references: the server may drop its reference while a
close waits for the writer. `Kept` says that then data is queued, `OneWriter` that
a session with data has a write posted or outstanding, and the handler of that
write holds the reference; so the two threads, the writer and the map are proved
together. That exactly one write is under way needs what is left of the
first buffer (`WriterConsistent`): a write that ends there empties the queue or
starts the next.

**SandeshProofs** (assumption: collector lists are sequences). `Invariance`,
`Accounting`, `Covering`, `OwnSession`, for all collector lists and any number of
updates and faults. The reactions to connects and messages do not compare the
session of the event with the machine's. That they still act on the present
session only is a fact about the order of the queue: what an earlier session has
reported is ahead of the idle-hold expiry or the connect that would bring the
machine to a state that listens (`StaleFirst`), because the idle-hold timer is
started when the session is given up and no connect or message is reported of it
afterwards (a close may be: `ObserverSilenced`, section 3).
This needs that a connect ends once (`HandshakeOnce`), that there is at most one
expiry of the idle-hold timer and one EvStart, both met in `Idle` (`QueueState`),
and that `server_` is what list and index say (`MachineState`). The methods of
the machine are functions on a record, so there is one lemma for what each
returns, and the lemmas about reactions are about compositions of them.

**ConfigProofs** (assumptions: UUIDs are finitely many positive numbers, each of
one partition; partitions and callers are finitely many; bunch, yield and
iteration limits are not 0). `ConfigInvariance`, `SyncStateHolds`, `Convergence`,
`BulkSyncStartsOnce`, `DestructionIdle`, for every number of partitions, objects,
threads, reinits and changes. The invariant has four layers. Which tasks the
policy keeps apart (`TaskState`) and how far a client is that no reinit will
replace (`ClientState`) give the two action properties. Where each EndOfConfig
is (`EndState`) makes `bulk_sync_status_` exact. The iterator of a reader leaves
behind the requests of its bunch and no others (`ReaderState`), so what is removed
after a read is what was read; that no request is replaced meanwhile is the
policy's doing, which keeps the partition's object processor out while its reader
runs. Convergence then is: an
object is still to be scanned by the bulk sync, or has a request, or is queued,
or announced, or is in step with the database (`CacheState`); and a DELETE that
is on its way is true of the database or not the last word on the object
(`DeletesFollowed`), which makes the replacement of a request by a later one
harmless.

**ComponentProofs** extends the four components with short proofs, which share no
variable.

* Timer (assumptions: tasks are finitely many and no clients): `TimerInvariance`,
  `CancelHolds`. `TimerState` is inductive as it stands. The hard step is Cancel,
  which gives up the reference of a task that has not run: that the count stays
  exact needs that there is one task (`OneTask`) and where its thread is.
* ZookeeperLock (no assumption on crashes or lost answers): `LockInvariance`,
  `LockExclusive`. Until a repeated delete removes the znode of another host, the
  holder's name is the data of the znode, and a host that is about to delete the
  znode for the first time still owns it. `LockExclusive` thus says that `overrun`
  is the only way to two holders; that it is one is the run `zookeeper_exclusive`.
* Lifetime (assumption: the references form an acyclic graph): `LifeInvariance`,
  `LifeTypeCorrect`, `SafeDestruction`, `DestructionOrder`, `DeletePending`. The
  invariant adds to the properties what `dependents_` is (`DependentsExact`), where
  the executor is (`ExecutorState`), that only deleted actors have events and that
  absent actors have no state. That `refcount_` counts the events exactly is what
  makes the last event, and no earlier one, destroy.
* TaskTrigger (assumption: threads and tasks are finitely many):
  `TriggerInvariance`, `RunsAlone`. `OneWorker` is inductive: the one thread that
  finds `trigger_` clear is the one that enqueues.

### Only model-checked

Liveness under fairness and ENABLED are outside the reach of the prover. So
`CloseCompletes`, `SenderUnblocked`, `EveryEntryHandled`, `EventuallyConverged`,
`StaysEstablished` and the other properties with `~>` or `<>` are checked by TLC
only.

`MessageReader` has no theorem. What its readers deliver is defined by recursion
over the buffers, and what a recursive definition computes for every input needs
induction over data, which the installed provers cannot do. `TcpFraming`,
`SandeshFraming` and `BuffersAccounted` are therefore checked for every cut of
bounded streams. Every other safety property and action property of a run is
proved.

## 6. What is not modelled

* Scheduler: Terminate, the Disable/Enable hooks of groups and entries (used by
  tests), the map from names to task ids, statistics.
* WorkQueue: the start-runner predicate (`queue_task.h:487`; while it is false the
  queue behaves as one that is disabled, and who makes it true has to call
  MayBeStartRunner, as set_disable does), changing water marks in use.
* Timer: Reschedule, Fire (a test hook), the wrap of the 32-bit `seq_no_`.
* ConfigClient: the timers that retry a failed read of an object, the timestamps
  of fields in the object cache, parsing, the parser's removal of stale entries,
  the wait for role-specific conditions, loss of the broker's connection. The
  test of the reinit flag for a message and the processing of that message are one
  step (`config_amqp_client.cc:427`, `441`); a reinit asked for in between finds
  the message processed by the client that it replaces, as one asked for after it.
* ZooKeeper: the session watcher and the wrappers other than the lock's calls.
* TcpServer: SSL, MD5 keys and socket options, statistics, more than one
  application thread, Send on a blocking socket (`tcp_session.cc:438`; every
  session's socket is made non-blocking by SetSocketOptions, an error of which
  Connected does not look at), SetDeferReader from two
  threads at once (`defer_reader_` is tested and set without the mutex) and of
  sessions whose user starts the reads.
* MessageReader: reading on after a refused message (`sandesh_session.cc:571`
  then compares sizes without `offset_`; that a refused session is closed is
  assumed of the callback, as Reader::Run reads on whatever it returned), headers
  that are not well formed, and those that state more than `kMaxMessageSize`, which
  the code does not check before it sizes the next buffer (`tcp_session.cc:583`), a
  reader without callback.
* SandeshClient: application messages other than the control request, a
  CreateSMSession that returns NULL (which `sandesh_client_sm.cc:390`
  dereferences), the UVE that reports the client's state.
* The sandesh server's state chart, the sandesh send queue and request pipeline,
  the UVE caches, SSL, UDP and Unix sockets, HTTP, the partition library, the
  etcd client, connection info, label blocks: hand-written code with state that
  this project leaves out. Much of it repeats a structure modelled here (a state
  chart over a work queue, a session over TcpSession, tasks serialized by a
  policy) or is thin around an external library (OpenSSL, curl, kazoo, etcd).
* Encoders, decoders, the sandesh compiler and generated code: sequential and
  data-dominated, or not written by hand; no state a model checker would explore
  better than a test.

The map of `PROJECT.json` covers a small share of the lines of the repository.
Most of those lines are the last item's: the Thrift-derived compiler and
protocols and the generated protobuf code. Of the files the modules name, what
is left out is above all logging, statistics, introspection and accessors.
