----------------------------- MODULE TaskTrigger -----------------------------
(***************************************************************************)
(* base/task_trigger.cc: Set() by any thread makes a WorkerTask call func_ *)
(* until it returns true; Set() while trigger_ is set does nothing.        *)
(***************************************************************************)
EXTENDS Naturals, FiniteSets

CONSTANTS
    Callers,      \* threads that call Set()
    ctl,          \* the thread that disables and defers the trigger
    Workers,      \* WorkerTask objects
    MaxSets,      \* bound on the calls of Set(), per thread
    MaxSwitches   \* bound on the calls of set_disable, set_enable, set_deferred, clear_deferred

ASSUME TriggerAssumption ==
    /\ IsFiniteSet(Callers) /\ IsFiniteSet(Workers)
    /\ MaxSets \in Nat /\ MaxSwitches \in Nat

VARIABLES
    trigger_, disabled_, deferred_,
    worker,     \* a WorkerTask: "none", or how far its Run() is
    caller,     \* a thread: "idle", or about to enqueue the task in Set()
    sets, switches,
    asked       \* has the Set() that set trigger_ still to be answered?

triggerVars == <<trigger_, disabled_, deferred_, worker, caller, sets, switches, asked>>

Setters == Callers \cup {ctl}

TriggerInit ==
    /\ trigger_ = FALSE /\ disabled_ = FALSE /\ deferred_ = FALSE
    /\ worker = [w \in Workers |-> "none"]
    /\ caller = [t \in Setters |-> "idle"]
    /\ sets = [c \in Callers |-> 0]
    /\ switches = 0
    /\ asked = FALSE

Step(w, from, to) == worker[w] = from /\ worker' = [worker EXCEPT ![w] = to]

\* Mutant: test and set of trigger_ are two steps, so two threads may both find
\* it clear.
FetchAndStoreTorn(t) ==
    /\ trigger_' = TRUE
    /\ asked' = TRUE
    /\ caller' = [caller EXCEPT ![t] = "enqueue"]

\* Set(): the thread that finds trigger_ clear goes on to enqueue a task.
FetchAndStore(t) ==
    /\ trigger_' = TRUE
    /\ asked' = (asked \/ ~trigger_)
    /\ caller' = [caller EXCEPT ![t] = IF trigger_ THEN "idle" ELSE "enqueue"]

Set(c) ==
    /\ caller[c] = "idle" /\ sets[c] < MaxSets
    /\ sets' = [sets EXCEPT ![c] = @ + 1]
    /\ FetchAndStore(c)
    /\ UNCHANGED <<disabled_, deferred_, worker, switches>>

Enqueue(t) ==
    /\ caller[t] = "enqueue"
    /\ \E w \in Workers : Step(w, "none", "start")
    /\ caller' = [caller EXCEPT ![t] = "idle"]
    /\ UNCHANGED <<trigger_, disabled_, deferred_, sets, switches, asked>>

\* Run(): a disabled trigger is reset and its call dropped, a deferred one tried
\* again when the scheduler next runs the task.
CheckDisabled(w) ==
    /\ Step(w, "start", IF disabled_ THEN "reset" ELSE "check")
    /\ asked' = (asked /\ ~disabled_)
    /\ UNCHANGED <<trigger_, disabled_, deferred_, caller, sets, switches>>

\* Mutant: a deferred task ends instead of being tried again.
CheckDeferredEnds(w) ==
    /\ Step(w, "check", IF deferred_ THEN "none" ELSE "func")
    /\ asked' = (asked /\ deferred_)
    /\ UNCHANGED <<trigger_, disabled_, deferred_, caller, sets, switches>>

CheckDeferred(w) ==
    /\ Step(w, "check", IF deferred_ THEN "start" ELSE "func")
    /\ asked' = (asked /\ deferred_)
    /\ UNCHANGED <<trigger_, disabled_, deferred_, caller, sets, switches>>

\* func_ returns: done, or to be called again.
FuncReturns(w) ==
    /\ \E done \in BOOLEAN : Step(w, "func", IF done THEN "reset" ELSE "start")
    /\ UNCHANGED <<trigger_, disabled_, deferred_, caller, sets, switches, asked>>

\* Reset(): the last access of the task to its TaskTrigger.
Reset(w) ==
    /\ Step(w, "reset", "none")
    /\ trigger_' = FALSE
    /\ UNCHANGED <<disabled_, deferred_, caller, sets, switches, asked>>

Switch == caller[ctl] = "idle" /\ switches < MaxSwitches /\ switches' = switches + 1

set_disable ==
    /\ Switch /\ ~disabled_ /\ disabled_' = TRUE
    /\ UNCHANGED <<trigger_, deferred_, worker, caller, sets, asked>>

set_enable ==
    /\ Switch /\ disabled_ /\ disabled_' = FALSE
    /\ caller' = [caller EXCEPT ![ctl] = "set"]
    /\ UNCHANGED <<trigger_, deferred_, worker, sets, asked>>

\* The Set() at the end of set_enable().
set_enable_Set ==
    /\ caller[ctl] = "set"
    /\ FetchAndStore(ctl)
    /\ UNCHANGED <<disabled_, deferred_, worker, sets, switches>>

set_deferred ==
    /\ Switch /\ deferred_' = ~deferred_
    /\ UNCHANGED <<trigger_, disabled_, worker, caller, sets, asked>>

WorkerStep(w) ==
    \/ CheckDisabled(w) \/ CheckDeferred(w) \/ FuncReturns(w) \/ Reset(w)

TriggerNext ==
    \/ \E c \in Callers : Set(c)
    \/ \E t \in Setters : Enqueue(t)
    \/ \E w \in Workers : WorkerStep(w)
    \/ set_disable \/ set_enable \/ set_enable_Set \/ set_deferred

TriggerSpec == TriggerInit /\ [][TriggerNext]_triggerVars

\* The scheduler runs the tasks and threads go on.
TriggerFairness ==
    /\ \A t \in Setters : WF_triggerVars(Enqueue(t))
    /\ WF_triggerVars(set_enable_Set)
    /\ \A w \in Workers : WF_triggerVars(WorkerStep(w))

TriggerFairSpec == TriggerSpec /\ TriggerFairness

-----------------------------------------------------------------------------
(* Properties.                                                             *)

\* The types of TaskTrigger's members and of its tasks.
TriggerTypeOK ==
    /\ trigger_ \in BOOLEAN /\ disabled_ \in BOOLEAN /\ deferred_ \in BOOLEAN
    /\ worker \in [Workers -> {"none", "start", "check", "func", "reset"}]
    /\ caller \in [Setters -> {"idle", "enqueue", "set"}]
    /\ sets \in [Callers -> 0 .. MaxSets]
    /\ switches \in 0 .. MaxSwitches
    /\ asked \in BOOLEAN

Alive == {w \in Workers : worker[w] # "none"}
Enqueuing == {t \in Setters : caller[t] = "enqueue"}

\* OneWorker: trigger_ is set exactly while one task is on its way, in a thread
\* that is about to enqueue it or in the scheduler: func_ is never called by two
\* tasks at once, and a TaskTrigger whose trigger_ is clear (the assertion of its
\* destructor) has no task that will still use it.
OneWorker ==
    /\ TriggerTypeOK
    /\ Cardinality(Alive) + Cardinality(Enqueuing) = (IF trigger_ THEN 1 ELSE 0)

\* SetAnswered: func_ is called after a Set() that found trigger_ clear, unless
\* the trigger is disabled, if it is not deferred for ever.
SetAnswered == <>[](~deferred_) => (asked ~> ~asked)
=============================================================================
