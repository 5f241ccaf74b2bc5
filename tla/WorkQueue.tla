------------------------------ MODULE WorkQueue ------------------------------
(***************************************************************************)
(* base/queue_task.h, base/watermark.cc: a queue that any thread enqueues  *)
(* to and that one task at a time, the QueueTaskRunner, drains.            *)
(*                                                                         *)
(* Enqueue counts, pushes and then, under mutex_, starts a runner if none  *)
(* is running.  The runner dequeues up to max_iterations_ entries and, in  *)
(* RunnerDone, again under mutex_, either stays the runner (Run() returns  *)
(* false and the scheduler runs the task again) or resigns.  If water      *)
(* marks are set, an enqueue and a dequeue run under water_mutex_.         *)
(*                                                                         *)
(* A step is what a thread does between two accesses to shared state: an   *)
(* atomic counter, the concurrent queue, or a section under a mutex.  The  *)
(* scheduler is what task.cc promises of a task: it waits, runs, and when  *)
(* Run() returns is deleted, or waits again.                               *)
(***************************************************************************)
EXTENDS Integers, Sequences, FiniteSets, Functions

CONSTANTS
    Producers,         \* threads that call Enqueue
    Runners,           \* QueueTaskRunner objects
    ctl,               \* the thread that disables and shuts down the queue
    size_,             \* capacity
    bounded_,          \* is size_ enforced?
    max_iterations_,
    HighWater,         \* counts of the high and the low water marks
    LowWater,
    OnEntryResults,    \* what on_entry_cb_ may return
    SIZE_MAX,          \* greatest size_t
    MaxEnqueues,       \* bound on the calls of Enqueue, per producer
    MaxEntries,        \* bound on the calls of Enqueue, of all producers
    MaxDisables,       \* bound on the calls of set_disable
    WithShutdown,      \* is the queue shut down?
    NULL

ASSUME ConfigAssumption ==
    /\ size_ \in Nat \ {0} /\ max_iterations_ \in Nat \ {0}
    /\ bounded_ \in BOOLEAN /\ WithShutdown \in BOOLEAN
    /\ OnEntryResults \subseteq BOOLEAN
    /\ SIZE_MAX \in Nat
    /\ MaxEnqueues \in Nat /\ MaxEntries \in Nat /\ MaxDisables \in Nat
    /\ HighWater \subseteq Nat \ {0} /\ LowWater \subseteq Nat

\* Threads are distinct, and no more entries are enqueued than a size_t counts.
ASSUME ThreadAssumption ==
    /\ IsFiniteSet(Producers) /\ IsFiniteSet(Runners)
    /\ Producers \cap Runners = {} /\ ctl \notin Producers \cup Runners
    /\ NULL \notin Producers \cup Runners \cup {ctl}
    /\ NULL \notin Producers \X (1 .. MaxEnqueues)
    /\ Cardinality(Producers \X (1 .. MaxEnqueues)) <= SIZE_MAX

VARIABLES
    queue_, count_, running_, current_runner_, disabled_, deleted_,
    shutdown_scheduled_, high_water_, low_water_, last_count_,
    mutex_, water_mutex_,      \* the thread that holds the mutex, or NULL
    task,           \* state of a runner in the scheduler
    task_cancel_,   \* Task::task_cancel_ of a runner
    pc,             \* where a thread is
    entry,          \* the entry a runner has dequeued
    ncount,         \* the local ncount of Enqueue
    count,          \* the local count of RunQueue
    complete,       \* what Run() of a runner returned
    sent,           \* number of entries a producer has enqueued
    disables,       \* number of calls of set_disable
    processed,      \* the entries the callback was called with
    flow            \* the water mark whose callback was called last

queueVars  == <<queue_, count_>>
runnerVars == <<running_, current_runner_>>
waterVars  == <<high_water_, low_water_, last_count_, flow>>
taskVars   == <<task, task_cancel_, complete>>
ctlVars    == <<disabled_, deleted_, shutdown_scheduled_, disables>>
vars == <<queueVars, runnerVars, waterVars, taskVars, ctlVars, mutex_, water_mutex_,
          pc, entry, ncount, count, sent, processed>>

Threads == Producers \cup Runners \cup {ctl}
Entry == Producers \X (1 .. MaxEnqueues)
SentEntries == {e \in Entry : e[2] <= sent[e[1]]}

AreWaterMarksSet == high_water_ # {} \/ low_water_ # {}

\* The callback of a mark is called.
Call(kind, mark) == flow' = [kind |-> kind, mark |-> mark]

\* Mutant: the search stops at the first high mark, crossed or not.
ProcessHighWaterMarksFirst(n) ==
    LET below == {h \in high_water_ : h <= n}
        mark == CHOOSE h \in below : \A k \in below : h <= k
    IN  /\ IF below # {} /\ last_count_ < mark THEN Call("high", mark) ELSE UNCHANGED flow
        /\ last_count_' = n
        /\ UNCHANGED <<high_water_, low_water_>>

\* ProcessHighWaterMarks(n): the last mark not above n, if n has crossed it.
ProcessHighWaterMarks(n) ==
    LET below == {h \in high_water_ : h <= n}
        mark == CHOOSE h \in below : \A k \in below : k <= h
    IN  /\ IF below # {} /\ last_count_ < mark THEN Call("high", mark) ELSE UNCHANGED flow
        /\ last_count_' = n
        /\ UNCHANGED <<high_water_, low_water_>>

\* ProcessLowWaterMarks(n): the first mark not below n, if n has crossed it.
ProcessLowWaterMarks(n) ==
    LET above == {l \in low_water_ : l >= n}
        mark == CHOOSE l \in above : \A k \in above : l <= k
    IN  /\ IF above # {} /\ last_count_ > mark THEN Call("low", mark) ELSE UNCHANGED flow
        /\ last_count_' = n
        /\ UNCHANGED <<high_water_, low_water_>>

\* Arithmetic on size_t.
Inc(n) == (n + 1) % (SIZE_MAX + 1)
Dec(n) == (n + SIZE_MAX) % (SIZE_MAX + 1)

RunnerAbortLocked == disabled_ \/ shutdown_scheduled_

Goto(t, l) == pc' = [pc EXCEPT ![t] = l]

\* The queue has the marks of HighWater and LowWater (there may be none of a kind),
\* set before it is used, or none at all.
Init ==
    /\ queue_ = <<>> /\ count_ = 0
    /\ running_ = FALSE /\ current_runner_ = NULL
    /\ disabled_ = FALSE /\ deleted_ = FALSE /\ shutdown_scheduled_ = FALSE
    /\ \/ high_water_ = {} /\ low_water_ = {}
       \/ high_water_ = HighWater /\ low_water_ = LowWater
    /\ last_count_ = 0
    /\ mutex_ = NULL /\ water_mutex_ = NULL
    /\ task = [r \in Runners |-> "none"]
    /\ task_cancel_ = [r \in Runners |-> FALSE]
    /\ pc = [t \in Threads |-> "idle"]
    /\ entry = [r \in Runners |-> NULL]
    /\ ncount = [p \in Producers |-> 0]
    /\ count = [r \in Runners |-> 0]
    /\ complete = [r \in Runners |-> FALSE]
    /\ sent = [p \in Producers |-> 0]
    /\ disables = 0
    /\ processed = <<>>
    /\ flow = [kind |-> "none", mark |-> 0]

-----------------------------------------------------------------------------
(* Producers.                                                              *)

\* Enqueue reads AreWaterMarksSet() and, if they are, waits for water_mutex_.
Enqueue(p) ==
    /\ pc[p] = "idle"
    /\ sent[p] < MaxEnqueues /\ Cardinality(SentEntries) < MaxEntries
    /\ sent' = [sent EXCEPT ![p] = @ + 1]
    /\ Goto(p, IF AreWaterMarksSet THEN "lock" ELSE "count")
    /\ UNCHANGED <<queueVars, runnerVars, waterVars, taskVars, ctlVars, mutex_,
                   water_mutex_, entry, ncount, count, processed>>

LockWaterMutex(p) ==
    /\ pc[p] = "lock"
    /\ water_mutex_ = NULL
    /\ water_mutex_' = p
    /\ Goto(p, "count")
    /\ UNCHANGED <<queueVars, runnerVars, waterVars, taskVars, ctlVars, mutex_, entry,
                   ncount, count, sent, processed>>

\* Mutant: the bound is off by one.
AtomicIncrementQueueCountLax(p) ==
    /\ pc[p] = "count"
    /\ count_' = Inc(count_)
    /\ ncount' = [ncount EXCEPT ![p] = Inc(count_)]
    /\ Goto(p, IF bounded_ /\ Inc(count_) > size_ THEN "drop" ELSE "push")
    /\ UNCHANGED <<queue_, runnerVars, waterVars, taskVars, ctlVars, mutex_,
                   water_mutex_, entry, count, sent, processed>>

\* EnqueueInternal, EnqueueBounded: count first, push only below the bound.
AtomicIncrementQueueCount(p) ==
    /\ pc[p] = "count"
    /\ count_' = Inc(count_)
    /\ ncount' = [ncount EXCEPT ![p] = Inc(count_)]
    /\ Goto(p, IF bounded_ /\ Inc(count_) >= size_ THEN "drop" ELSE "push")
    /\ UNCHANGED <<queue_, runnerVars, waterVars, taskVars, ctlVars, mutex_,
                   water_mutex_, entry, count, sent, processed>>

\* Leave Enqueue, and water_mutex_ if it is held.
Return(p) ==
    /\ water_mutex_' = IF water_mutex_ = p THEN NULL ELSE water_mutex_
    /\ Goto(p, "idle")

\* The entry does not fit: it is not counted any more.
Drop(p) ==
    /\ pc[p] = "drop"
    /\ count_' = Dec(count_)
    /\ Return(p)
    /\ UNCHANGED <<queue_, runnerVars, waterVars, taskVars, ctlVars, mutex_, entry,
                   ncount, count, sent, processed>>

Push(p) ==
    /\ pc[p] = "push"
    /\ ProcessHighWaterMarks(ncount[p])
    /\ queue_' = Append(queue_, <<p, sent[p]>>)
    /\ Goto(p, "start")
    /\ UNCHANGED <<count_, runnerVars, taskVars, ctlVars, mutex_, water_mutex_, entry,
                   ncount, count, sent, processed>>

\* Mutant: a runner is started beside the one that is running.
StartRunnerBeside ==
    LET idle == queue_ = <<>> \/ deleted_ \/ RunnerAbortLocked
    IN  \/ /\ idle
           /\ UNCHANGED <<runnerVars, taskVars>>
        \/ /\ ~idle
           /\ \E r \in Runners :
                 /\ task[r] = "none"
                 /\ running_' = TRUE
                 /\ current_runner_' = r
                 /\ task' = [task EXCEPT ![r] = "WAIT"]
                 /\ task_cancel_' = [task_cancel_ EXCEPT ![r] = FALSE]
                 /\ UNCHANGED complete

\* MayBeStartRunner, under mutex_: create and enqueue a runner.
StartRunner ==
    LET idle == running_ \/ queue_ = <<>> \/ deleted_ \/ RunnerAbortLocked
    IN  \/ /\ idle
           /\ UNCHANGED <<runnerVars, taskVars>>
        \/ /\ ~idle
           /\ \E r \in Runners :
                 /\ task[r] = "none"
                 /\ running_' = TRUE
                 /\ current_runner_' = r
                 /\ task' = [task EXCEPT ![r] = "WAIT"]
                 /\ task_cancel_' = [task_cancel_ EXCEPT ![r] = FALSE]
                 /\ UNCHANGED complete

MayBeStartRunner(t) ==
    /\ pc[t] = "start"
    /\ mutex_ = NULL
    /\ StartRunner
    /\ Return(t)
    /\ UNCHANGED <<queueVars, waterVars, ctlVars, mutex_, entry, ncount, count, sent,
                   processed>>

-----------------------------------------------------------------------------
(* The runner.                                                             *)

\* The scheduler runs the task.
Schedule(r) ==
    /\ task[r] = "WAIT"
    /\ task' = [task EXCEPT ![r] = "RUN"]
    /\ Goto(r, "entry")
    /\ UNCHANGED <<queueVars, runnerVars, waterVars, ctlVars, task_cancel_, complete,
                   mutex_, water_mutex_, entry, ncount, count, sent, processed>>

\* OnEntry: if the client defers the run, Run() returns false.
OnEntry(r) ==
    /\ pc[r] = "entry"
    /\ \E run \in OnEntryResults :
          /\ Goto(r, IF run THEN "abort" ELSE "exit")
          /\ complete' = [complete EXCEPT ![r] = FALSE]
    /\ UNCHANGED <<queueVars, runnerVars, waterVars, ctlVars, task, task_cancel_,
                   mutex_, water_mutex_, entry, ncount, count, sent, processed>>

RunnerAbort(r) ==
    /\ pc[r] = "abort"
    /\ mutex_ = NULL
    /\ Goto(r, IF RunnerAbortLocked THEN "done" ELSE "loop")
    /\ count' = [count EXCEPT ![r] = 0]
    /\ UNCHANGED <<queueVars, runnerVars, waterVars, ctlVars, taskVars, mutex_,
                   water_mutex_, entry, ncount, sent, processed>>

\* Dequeue: try_pop, under water_mutex_ if water marks are set.
TryPop(r) ==
    /\ pc[r] = "loop"
    /\ AreWaterMarksSet => water_mutex_ = NULL
    /\ \/ /\ queue_ = <<>>
          /\ Goto(r, "done")
          /\ UNCHANGED <<queue_, entry, water_mutex_>>
       \/ /\ queue_ # <<>>
          /\ entry' = [entry EXCEPT ![r] = Head(queue_)]
          /\ queue_' = Tail(queue_)
          /\ water_mutex_' = IF AreWaterMarksSet THEN r ELSE water_mutex_
          /\ Goto(r, "popped")
    /\ UNCHANGED <<count_, runnerVars, waterVars, ctlVars, taskVars, mutex_, ncount,
                   count, sent, processed>>

\* The rest of Dequeue.
AtomicDecrementQueueCount(r) ==
    /\ pc[r] = "popped"
    /\ count_' = Dec(count_)
    /\ ProcessLowWaterMarks(Dec(count_))
    /\ water_mutex_' = IF water_mutex_ = r THEN NULL ELSE water_mutex_
    /\ Goto(r, "callback")
    /\ UNCHANGED <<queue_, runnerVars, ctlVars, taskVars, mutex_, entry, ncount, count,
                   sent, processed>>

\* The client handles the entry; it may ask to stop, and the runner stops after
\* max_iterations_ entries.
Callback(r) ==
    /\ pc[r] = "callback"
    /\ processed' = Append(processed, entry[r])
    /\ entry' = [entry EXCEPT ![r] = NULL]
    /\ count' = [count EXCEPT ![r] = @ + 1]
    /\ \/ Goto(r, "done")
       \/ count[r] + 1 < max_iterations_ /\ Goto(r, "loop")
    /\ UNCHANGED <<queueVars, runnerVars, waterVars, ctlVars, taskVars, mutex_,
                   water_mutex_, ncount, sent>>

\* Mutant: the runner resigns although the queue is not empty.
RunnerDoneResigns(r) ==
    /\ pc[r] = "done"
    /\ mutex_ = NULL
    /\ complete' = [complete EXCEPT ![r] = TRUE]
    /\ current_runner_' = NULL
    /\ running_' = FALSE
    /\ IF shutdown_scheduled_
       THEN mutex_' = r /\ Goto(r, "shutdown")
       ELSE Goto(r, "exit") /\ UNCHANGED mutex_
    /\ UNCHANGED <<queueVars, waterVars, ctlVars, task, task_cancel_, water_mutex_,
                   entry, ncount, count, sent, processed>>

\* RunnerDone, under mutex_: resign if there is nothing to do or the run was
\* aborted, and go on to ShutdownLocked if a shutdown is scheduled.
RunnerDone(r) ==
    LET done == queue_ = <<>> \/ RunnerAbortLocked
    IN  /\ pc[r] = "done"
        /\ mutex_ = NULL
        /\ complete' = [complete EXCEPT ![r] = done]
        /\ current_runner_' = IF done THEN NULL ELSE current_runner_
        /\ running_' = ~done
        /\ IF shutdown_scheduled_
           THEN mutex_' = r /\ Goto(r, "shutdown")
           ELSE Goto(r, "exit") /\ UNCHANGED mutex_
        /\ UNCHANGED <<queueVars, waterVars, ctlVars, task, task_cancel_, water_mutex_,
                       entry, ncount, count, sent, processed>>

\* The scheduler after Run(): the task is deleted if it is complete or was
\* cancelled, else it waits to run again.
OnTaskExit(r) ==
    /\ pc[r] = "exit"
    /\ task' = [task EXCEPT ![r] = IF complete[r] \/ task_cancel_[r] THEN "none" ELSE "WAIT"]
    /\ Goto(r, "idle")
    /\ UNCHANGED <<queueVars, runnerVars, waterVars, ctlVars, task_cancel_, complete,
                   mutex_, water_mutex_, entry, ncount, count, sent, processed>>

-----------------------------------------------------------------------------
(* Shutdown and disable.                                                   *)

\* ShutdownLocked, with mutex_ held and no runner left: waits for water_mutex_
\* to reset the water marks, and clears the queue.
ShutdownLocked(t) ==
    /\ pc[t] = "shutdown"
    /\ water_mutex_ = NULL
    /\ high_water_' = {}
    /\ low_water_' = {}
    /\ queue_' = <<>>
    /\ count_' = 0
    /\ deleted_' = TRUE
    /\ mutex_' = NULL
    /\ Goto(t, IF t \in Runners THEN "exit" ELSE "idle")
    /\ UNCHANGED <<runnerVars, last_count_, flow, taskVars, disabled_,
                   shutdown_scheduled_, disables, water_mutex_, entry, ncount, count,
                   sent, processed>>

\* Cancel(current_runner_) of a waiting runner, on the way to ShutdownLocked.
CancelRunner ==
    /\ task' = IF running_ THEN [task EXCEPT ![current_runner_] = "none"] ELSE task
    /\ running_' = FALSE
    /\ current_runner_' = NULL
    /\ mutex_' = ctl
    /\ Goto(ctl, "shutdown")
    /\ UNCHANGED task_cancel_

\* A queue is shut down once: ShutdownLocked asserts !deleted_, and it is up to
\* the callers that it is not called again.
MayShutdown == WithShutdown /\ pc[ctl] = "idle" /\ mutex_ = NULL /\ ~deleted_

\* Shutdown(), whose caller makes sure that the runner is not running.
Shutdown ==
    /\ MayShutdown
    /\ \A r \in Runners : task[r] # "RUN"
    /\ CancelRunner
    /\ UNCHANGED <<queueVars, waterVars, ctlVars, complete, water_mutex_, entry, ncount,
                   count, sent, processed>>

\* Mutant: the queue is shut down although the runner is running.
ScheduleShutdownNow ==
    /\ MayShutdown /\ ~shutdown_scheduled_
    /\ shutdown_scheduled_' = TRUE
    /\ CancelRunner
    /\ UNCHANGED <<queueVars, waterVars, disabled_, deleted_, disables, complete,
                   water_mutex_, entry, ncount, count, sent, processed>>

\* ScheduleShutdown(): a runner that runs is marked for cancellation and left
\* to shut down the queue in RunnerDone.
ScheduleShutdown ==
    /\ MayShutdown /\ ~shutdown_scheduled_
    /\ shutdown_scheduled_' = TRUE
    /\ \/ /\ running_ => task[current_runner_] = "WAIT"
          /\ CancelRunner
       \/ /\ running_ /\ task[current_runner_] = "RUN"
          /\ task_cancel_' = [task_cancel_ EXCEPT ![current_runner_] = TRUE]
          /\ UNCHANGED <<task, runnerVars, mutex_, pc>>
    /\ UNCHANGED <<queueVars, waterVars, disabled_, deleted_, disables, complete,
                   water_mutex_, entry, ncount, count, sent, processed>>

\* set_disable(): a queue that is enabled may have to start a runner.
set_disable(disabled) ==
    /\ pc[ctl] = "idle"
    /\ disables < MaxDisables
    /\ disabled_ # disabled
    /\ disabled_' = disabled
    /\ disables' = disables + 1
    /\ Goto(ctl, IF disabled THEN "idle" ELSE "start")
    /\ UNCHANGED <<queueVars, runnerVars, waterVars, taskVars, deleted_,
                   shutdown_scheduled_, mutex_, water_mutex_, entry, ncount, count, sent,
                   processed>>

ProducerStep(p) ==
    \/ LockWaterMutex(p)
    \/ AtomicIncrementQueueCount(p)
    \/ Drop(p)
    \/ Push(p)
    \/ MayBeStartRunner(p)

RunnerStep(r) ==
    \/ Schedule(r)
    \/ OnEntry(r)
    \/ RunnerAbort(r)
    \/ TryPop(r)
    \/ AtomicDecrementQueueCount(r)
    \/ Callback(r)
    \/ RunnerDone(r)
    \/ ShutdownLocked(r)
    \/ OnTaskExit(r)

CtlStep ==
    \/ MayBeStartRunner(ctl)
    \/ ShutdownLocked(ctl)

Next ==
    \/ \E p \in Producers : Enqueue(p) \/ ProducerStep(p)
    \/ \E r \in Runners : RunnerStep(r)
    \/ CtlStep
    \/ Shutdown
    \/ ScheduleShutdown
    \/ \E disabled \in BOOLEAN : set_disable(disabled)

Spec == Init /\ [][Next]_vars

\* Threads go on, the scheduler runs a task that waits, and a client that defers
\* a run lets it run in the end.
Fairness ==
    /\ \A p \in Producers : WF_vars(ProducerStep(p))
    /\ \A r \in Runners : WF_vars(RunnerStep(r))
    /\ \A r \in Runners : SF_vars(OnEntry(r) /\ Goto(r, "abort"))
    /\ WF_vars(CtlStep)

FairSpec == Spec /\ Fairness

-----------------------------------------------------------------------------
(* Properties.                                                             *)

\* TypeOK: the types of the members of WorkQueue and of its threads.
TypeOK ==
    /\ queue_ \in Seq(Entry) /\ processed \in Seq(Entry)
    /\ count_ \in 0 .. SIZE_MAX /\ last_count_ \in 0 .. SIZE_MAX
    /\ running_ \in BOOLEAN /\ current_runner_ \in Runners \cup {NULL}
    /\ disabled_ \in BOOLEAN /\ deleted_ \in BOOLEAN /\ shutdown_scheduled_ \in BOOLEAN
    /\ high_water_ \subseteq HighWater /\ low_water_ \subseteq LowWater
    /\ mutex_ \in Threads \cup {NULL} /\ water_mutex_ \in Threads \cup {NULL}
    /\ task \in [Runners -> {"none", "WAIT", "RUN"}]
    /\ task_cancel_ \in [Runners -> BOOLEAN] /\ complete \in [Runners -> BOOLEAN]
    /\ pc \in [Threads -> {"idle", "lock", "count", "drop", "push", "start", "entry",
                           "abort", "loop", "popped", "callback", "done", "shutdown",
                           "exit"}]
    /\ entry \in [Runners -> Entry \cup {NULL}]
    /\ ncount \in [Producers -> 0 .. SIZE_MAX]
    /\ count \in [Runners -> 0 .. max_iterations_]
    /\ sent \in [Producers -> 0 .. MaxEnqueues]
    /\ disables \in 0 .. MaxDisables
    /\ flow \in [kind : {"none", "high", "low"}, mark : Nat]

\* A runner between its creation and the end of its RunnerDone.
Active(r) == task[r] = "WAIT" \/ (task[r] = "RUN" /\ ~(pc[r] = "exit" /\ complete[r]))

\* RunnerKnown: running_ and current_runner_ describe the one runner that is at
\* work, so that a second one never runs the callback beside it (the comment at
\* the end of QueueTaskRunner::Run), until a shutdown is under way.
RunnerKnown ==
    /\ running_ <=> current_runner_ # NULL
    /\ \A r \in Runners : Active(r) /\ pc[r] # "shutdown" => current_runner_ = r
    /\ running_ /\ ~shutdown_scheduled_ => Active(current_runner_)

\* NoStrandedEntry: an entry in a queue that is enabled and not being shut down
\* has a runner, or a thread that is about to call MayBeStartRunner: RunnerDone
\* never resigns between a push and the start that follows it.
NoStrandedEntry ==
    queue_ # <<>> /\ ~deleted_ /\ ~RunnerAbortLocked =>
        running_ \/ \E t \in Producers \cup {ctl} : pc[t] \in {"start", "shutdown"}

\* The runners that hold an entry: dequeued, and not yet handled.
Held == {r \in Runners : entry[r] # NULL}

\* The entries of a producer are in s in the order in which it enqueued them,
\* and at most once.
Ordered(s) ==
    \A i, j \in DOMAIN s : i < j /\ s[i][1] = s[j][1] => s[i][2] < s[j][2]

\* e was enqueued before the entry its producer is enqueueing, if any.
Enqueued(e) ==
    /\ e[2] <= sent[e[1]]
    /\ pc[e[1]] \in {"lock", "count", "drop", "push"} => e[2] < sent[e[1]]

\* FifoOnce: the entries of a producer are handled in the order in which it
\* enqueued them and none is handled twice, across the runs of several runners:
\* the entries handled, the one a runner holds and the ones in the queue are,
\* in this order, those of Enqueue.
FifoOnce ==
    /\ \A r, q \in Held : r = q
    /\ \A r \in Held : Ordered(Append(processed, entry[r]) \o queue_)
    /\ Held = {} => Ordered(processed \o queue_)
    /\ \A e \in Range(processed) \cup {entry[r] : r \in Held} \cup Range(queue_) :
          Enqueued(e)

\* The number of threads of T at a place of S.
NumAt(T, S) == Cardinality({t \in T : pc[t] \in S})

\* CountExact: until the queue is shut down count_ is the number of entries,
\* those on their way in or out included, so the bound of EnqueueBounded is
\* never exceeded.
CountExact ==
    /\ ~deleted_ =>
          count_ = Len(queue_) + NumAt(Producers, {"drop", "push"})
                   + NumAt(Runners, {"popped"})
    /\ bounded_ => deleted_ \/ Len(queue_) + NumAt(Producers, {"push"}) < size_

\* CountBounded: count_ never wraps around, because an entry that is counted was
\* enqueued and one whose producer has yet to count it is not.
CountBounded ==
    ~deleted_ =>
        count_ + NumAt(Producers, {"lock", "count"})
            <= Cardinality(SentEntries)

\* ThreadsPlaced: a thread is at a place of its own code, a runner holds an entry
\* exactly between try_pop and the end of the callback, mutex_ is held for the
\* length of ShutdownLocked, and only a scheduled shutdown cancels a runner.
ThreadsPlaced ==
    /\ \A p \in Producers :
          /\ pc[p] \in {"idle", "lock", "count", "drop", "push", "start"}
          /\ pc[p] \in {"lock", "count", "drop", "push"} => sent[p] > 0
    /\ pc[ctl] \in {"idle", "start", "shutdown"}
    /\ \A r \in Runners :
          /\ pc[r] \in {"idle", "entry", "abort", "loop", "popped", "callback", "done",
                        "shutdown", "exit"}
          /\ task[r] = "RUN" <=> pc[r] # "idle"
          /\ entry[r] # NULL <=> pc[r] \in {"popped", "callback"}
          /\ pc[r] \in {"loop", "popped", "callback"} => count[r] < max_iterations_
          /\ pc[r] = "shutdown" => complete[r]
          /\ task_cancel_[r] => shutdown_scheduled_
    /\ \A t \in Threads : pc[t] = "shutdown" <=> mutex_ = t

\* ShutdownQuiet: ShutdownLocked finds the queue not deleted and no runner at
\* work (its two assertions), and no entry is handled once it has run.
ShutdownQuiet ==
    /\ mutex_ # NULL => ~deleted_ /\ ~running_
    /\ deleted_ => /\ ~running_ /\ ~AreWaterMarksSet
                   /\ \A r \in Runners : entry[r] = NULL /\ ~Active(r)

\* FlowControl: the client is told of every crossing, and of nothing else: an
\* enqueue calls the callback of the high mark that the length of the queue has
\* reached, a dequeue that of the low one, if there is one, however the two kinds
\* of marks lie among each other and whichever threads enqueue and dequeue.
FlowControl ==
    [][/\ \A p \in Producers :
             pc[p] = "push" /\ pc'[p] = "start" =>
                 IF count_ \in high_water_ THEN Call("high", count_) ELSE UNCHANGED flow
       /\ \A r \in Runners :
             pc[r] = "popped" /\ pc'[r] = "callback" =>
                 IF count_' \in low_water_ THEN Call("low", count_') ELSE UNCHANGED flow
      ]_vars

\* Told: since the callback that was called last, the queue of length n has reached
\* no high mark above its mark and no low one below.
Told(n) ==
    /\ \A h \in high_water_ : flow.mark < h => n < h
    /\ \A l \in low_water_ : l < flow.mark => l < n

\* WaterHeld: while water marks are set, water_mutex_ is held from the change of
\* count_ to the end of an enqueue, or of a dequeue, and the marks were
\* processed for each value of count_ but that of an enqueue under way.
WaterHeld ==
    AreWaterMarksSet =>
        /\ \A p \in Producers :
              pc[p] \in {"count", "drop", "push", "start"} => water_mutex_ = p
        /\ \A r \in Runners : pc[r] = "popped" => water_mutex_ = r
        /\ \A p \in Producers :
              pc[p] \in {"drop", "push"} => ncount[p] = count_ /\ count_ = last_count_ + 1
        /\ (\A p \in Producers : pc[p] \notin {"drop", "push"}) => count_ = last_count_
        /\ Told(last_count_)

\* NoCircularWait: ScheduleShutdown "can be called from any context": it never
\* holds mutex_ waiting for water_mutex_ while an enqueue holds water_mutex_
\* waiting for mutex_.
NoCircularWait ==
    \A t, u \in Threads :
        ~ (/\ water_mutex_ = t /\ pc[t] = "start"
           /\ mutex_ = u /\ pc[u] = "shutdown")

\* EveryEntryHandled: if the queue is not left disabled, every entry that was
\* pushed is handled: the queue runs empty and its runner holds no entry, unless a
\* shutdown is scheduled, under way (ShutdownLocked holds mutex_) or done.
EveryEntryHandled ==
    (<>[](~disabled_)) =>
        (queue_ # <<>> ~> (queue_ = <<>> /\ Held = {})
                          \/ shutdown_scheduled_ \/ mutex_ # NULL \/ deleted_)

\* ShutdownHappens: a shutdown that was scheduled happens, "asynchronously or in
\* the caller's context".
ShutdownHappens == shutdown_scheduled_ ~> deleted_

\* QueueState: the members of the queue agree with each other and with its
\* threads: one runner, known to the queue, an exact count, and water marks
\* processed for it.
QueueState ==
    TypeOK /\ ThreadsPlaced /\ RunnerKnown /\ CountExact /\ CountBounded /\ WaterHeld
=============================================================================
