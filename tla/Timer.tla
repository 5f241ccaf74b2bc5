-------------------------------- MODULE Timer --------------------------------
(***************************************************************************)
(* base/timer.cc: one Timer, the asio waits it has started, the TimerTasks *)
(* that call its handler, and the clients that start, cancel and delete    *)
(* it.  Every method of Timer is a section under Timer::mutex_ and so one  *)
(* step; TimerTask::Run and DeleteTimer are several such sections.         *)
(***************************************************************************)
EXTENDS Integers, FiniteSets

CONSTANTS
    Clients,                \* threads of the application
    Tasks,                  \* TimerTask objects
    MaxStarts,              \* bound on the calls of Start that arm the timer
    NULL

ASSUME ConfigAssumption ==
    /\ MaxStarts \in Nat
    /\ IsFiniteSet(Tasks) /\ Clients \cap Tasks = {} /\ NULL \notin Tasks

VARIABLES
    state_, timer_task_, seq_no_, refcount_,
    delete_on_completion_,   \* set when the timer is created
    timer_ref_,    \* is the timer in TimerManager::timer_ref_?
    freed,         \* has ~Timer run?
    wait,          \* the asio wait of a Start, by seq_no_
    task,          \* scheduler state of a TimerTask
    task_cancel_,
    timer_,        \* does the TimerTask hold its TimerPtr?
    seqOf,         \* the seq_no of the Start that a TimerTask serves
    pc,            \* where a client or a task is
    cancelled,     \* the Starts that a Cancel() has cancelled
    deleted        \* has DeleteTimer returned true to a client?

timerVars == <<state_, timer_task_, seq_no_>>
refVars   == <<refcount_, timer_ref_, freed>>
taskVars  == <<task, task_cancel_, timer_, seqOf>>
otherVars == <<delete_on_completion_, cancelled, deleted>>
vars == <<timerVars, refVars, wait, taskVars, pc, otherVars>>

Threads == Clients \cup Tasks
SeqNo == 1 .. MaxStarts

Goto(t, l) == pc' = [pc EXCEPT ![t] = l]

\* intrusive_ptr_add_ref, intrusive_ptr_release: d references more; the last
\* release deletes the timer.
Ref(d) ==
    /\ refcount_' = refcount_ + d
    /\ freed' = (freed \/ refcount_ + d = 0)

Init ==
    /\ state_ = "Init" /\ timer_task_ = NULL /\ seq_no_ = 0
    /\ refcount_ = 1 /\ timer_ref_ = TRUE /\ freed = FALSE
    /\ delete_on_completion_ \in BOOLEAN
    /\ wait = [s \in SeqNo |-> "none"]
    /\ task = [k \in Tasks |-> "none"]
    /\ task_cancel_ = [k \in Tasks |-> FALSE]
    /\ timer_ = [k \in Tasks |-> FALSE]
    /\ seqOf = [k \in Tasks |-> 0]
    /\ pc = [t \in Threads |-> "idle"]
    /\ cancelled = {} /\ deleted = FALSE

-----------------------------------------------------------------------------
(* Timer.                                                                  *)

\* Start: a timer that is running or has fired is left alone; expires_from_now()
\* aborts the wait of an earlier Start, or fails.
Start ==
    \/ /\ state_ \in {"Running", "Fired"}
       /\ UNCHANGED <<timerVars, refcount_, freed, wait>>
    \/ /\ state_ \notin {"Running", "Fired"}
       /\ seq_no_' = seq_no_ + 1
       /\ \/ /\ state_' = "Running"
             /\ wait' = [s \in SeqNo |-> IF s = seq_no_ + 1 THEN "wait"
                                         ELSE IF wait[s] = "wait" THEN "aborted" ELSE wait[s]]
             /\ Ref(1)
          \/ UNCHANGED <<state_, wait, refcount_, freed>>
       /\ UNCHANGED timer_task_

\* Mutant: the task is left to run.
CancelKeepsTask ==
    /\ state_ # "Fired"
    /\ state_' = "Cancelled"
    /\ timer_task_' = NULL
    /\ cancelled' = IF state_ = "Running" THEN cancelled \cup {seq_no_} ELSE cancelled
    /\ UNCHANGED <<seq_no_, refcount_, freed, task, task_cancel_, timer_>>

\* Cancel, of a timer that has not fired (else it does nothing): a task that
\* waits is deleted with its reference, one that runs is marked.
Cancel ==
    /\ state_ # "Fired"
    /\ state_' = "Cancelled"
    /\ timer_task_' = NULL
    /\ cancelled' = IF state_ = "Running" THEN cancelled \cup {seq_no_} ELSE cancelled
    /\ UNCHANGED seq_no_
    /\ \/ /\ timer_task_ = NULL
          /\ UNCHANGED <<refcount_, freed, task, task_cancel_, timer_>>
       \/ /\ timer_task_ # NULL /\ task[timer_task_] = "WAIT"
          /\ task' = [task EXCEPT ![timer_task_] = "none"]
          /\ timer_' = [timer_ EXCEPT ![timer_task_] = FALSE]
          /\ Ref(-1)
          /\ UNCHANGED task_cancel_
       \/ /\ timer_task_ # NULL /\ task[timer_task_] = "RUN"
          /\ task_cancel_' = [task_cancel_ EXCEPT ![timer_task_] = TRUE]
          /\ UNCHANGED <<refcount_, freed, task, timer_>>

\* The wait of a Start expires.
Expire(s) ==
    /\ wait[s] = "wait"
    /\ wait' = [wait EXCEPT ![s] = "expired"]
    /\ UNCHANGED <<timerVars, refVars, taskVars, pc, otherVars>>

\* Mutant: the expiry of an earlier Start is served.
ExpectedAny(s) == state_ # "Cancelled" /\ wait[s] = "expired"

\* Mutant: the number of the Start is compared before it is incremented.
ExpectedOld(s) == state_ # "Cancelled" /\ wait[s] # "aborted" /\ seq_no_ = s + 1

\* The conditions under which StartTimerTask creates a task.
Expected(s) ==
    /\ state_ # "Cancelled"
    /\ wait[s] # "aborted"
    /\ seq_no_ = s

\* Mutant: an expiry that is ignored keeps its reference.
StartTimerTaskLeaks(s) ==
    /\ wait[s] \in {"expired", "aborted"}
    /\ ~Expected(s)
    /\ wait' = [wait EXCEPT ![s] = "none"]
    /\ UNCHANGED <<timerVars, refVars, taskVars, pc, otherVars>>

\* StartTimerTask, the handler of the wait of Start number s: its reference is
\* handed to a task or dropped.
StartTimerTask(s) ==
    /\ wait[s] \in {"expired", "aborted"}
    /\ wait' = [wait EXCEPT ![s] = "none"]
    /\ \/ /\ ~Expected(s)
          /\ Ref(-1)
          /\ UNCHANGED <<timer_task_, taskVars>>
       \/ /\ Expected(s)
          /\ \E k \in Tasks :
                /\ task[k] = "none"
                /\ timer_task_' = k
                /\ task' = [task EXCEPT ![k] = "WAIT"]
                /\ task_cancel_' = [task_cancel_ EXCEPT ![k] = FALSE]
                /\ timer_' = [timer_ EXCEPT ![k] = TRUE]
                /\ seqOf' = [seqOf EXCEPT ![k] = s]
          /\ UNCHANGED <<refcount_, freed>>
    /\ UNCHANGED <<state_, seq_no_, timer_ref_, pc, otherVars>>

-----------------------------------------------------------------------------
(* TimerTask.                                                              *)

\* The scheduler runs the task.
Schedule(k) ==
    /\ task[k] = "WAIT"
    /\ task' = [task EXCEPT ![k] = "RUN"]
    /\ Goto(k, "run")
    /\ UNCHANGED <<timerVars, refVars, wait, task_cancel_, timer_, seqOf, otherVars>>

\* Run, under mutex_: a cancelled task lets go of the timer, any other fires it.
Run(k) ==
    /\ pc[k] = "run"
    /\ \/ /\ task_cancel_[k]
          /\ timer_' = [timer_ EXCEPT ![k] = FALSE]
          /\ Ref(-1)
          /\ Goto(k, "exit")
          /\ UNCHANGED state_
       \/ /\ ~task_cancel_[k]
          /\ state_' = "Fired"
          /\ Goto(k, "handler")
          /\ UNCHANGED <<refcount_, freed, timer_>>
    /\ UNCHANGED <<timer_task_, seq_no_, timer_ref_, wait, task, task_cancel_, seqOf, otherVars>>

\* OnTaskCancel: the timer has no task and can be started again.
OnTaskCancel == state_' = "Init" /\ timer_task_' = NULL /\ UNCHANGED seq_no_

\* The bound on Starts, those that tasks are about to make included.
Restarting == {k \in Tasks : pc[k] = "restart"}
MayStart == seq_no_ + Cardinality(Restarting) < MaxStarts

\* The handler returns; OnTaskCancel; then restart the timer, delete it, or end.
HandlerReturns(k) ==
    /\ pc[k] = "handler"
    /\ OnTaskCancel
    /\ \E restart \in BOOLEAN :
          /\ restart => MayStart
          /\ Goto(k, IF restart THEN "restart"
                     ELSE IF delete_on_completion_ THEN "delete" ELSE "exit")
    /\ UNCHANGED <<refVars, wait, taskVars, otherVars>>

Restart(k) ==
    /\ pc[k] = "restart"
    /\ Start
    /\ Goto(k, "exit")
    /\ UNCHANGED <<timer_ref_, taskVars, otherVars>>

\* OnTaskExit of the scheduler: the task is deleted, and with it its reference.
OnTaskExit(k) ==
    /\ pc[k] = "exit"
    /\ task' = [task EXCEPT ![k] = "none"]
    /\ timer_' = [timer_ EXCEPT ![k] = FALSE]
    /\ Ref(IF timer_[k] THEN -1 ELSE 0)
    /\ IF task_cancel_[k] /\ timer_[k] THEN OnTaskCancel ELSE UNCHANGED timerVars
    /\ Goto(k, "idle")
    /\ UNCHANGED <<timer_ref_, wait, task_cancel_, seqOf, otherVars>>

-----------------------------------------------------------------------------
(* DeleteTimer, called by a client or by a task.                           *)

After(t) == IF t \in Tasks THEN "exit" ELSE "idle"

\* DeleteTimer returns false at once if the timer has fired.
DeleteTimer(t) ==
    /\ pc[t] = "delete"
    /\ Goto(t, IF state_ = "Fired" THEN After(t) ELSE "cancel")
    /\ UNCHANGED <<timerVars, refVars, wait, taskVars, otherVars>>

\* The timer may have fired since.
DeleteCancel(t) ==
    /\ pc[t] = "cancel"
    /\ \/ /\ state_ = "Fired"
          /\ Goto(t, IF delete_on_completion_ THEN After(t) ELSE "erase")
          /\ UNCHANGED <<timerVars, refVars, taskVars, otherVars>>
       \/ /\ Cancel
          /\ Goto(t, "erase")
          /\ UNCHANGED <<timer_ref_, seqOf, delete_on_completion_, deleted>>
    /\ UNCHANGED wait

DeleteErase(t) ==
    /\ pc[t] = "erase"
    /\ timer_ref_' = FALSE
    /\ Ref(IF timer_ref_ THEN -1 ELSE 0)
    /\ deleted' = TRUE
    /\ Goto(t, After(t))
    /\ UNCHANGED <<timerVars, wait, taskVars, delete_on_completion_, cancelled>>

-----------------------------------------------------------------------------
(* Clients use the timer until one of them deletes it; a timer that deletes *)
(* itself is not deleted by them.                                          *)

MayUse(c) ==
    /\ pc[c] = "idle"
    /\ timer_ref_
    /\ \A d \in Clients : pc[d] = "idle"

ClientStart(c) ==
    /\ MayUse(c)
    /\ MayStart
    /\ Start
    /\ UNCHANGED <<timer_ref_, taskVars, pc, otherVars>>

ClientCancel(c) ==
    /\ MayUse(c)
    /\ Cancel
    /\ UNCHANGED <<timer_ref_, wait, seqOf, pc, delete_on_completion_, deleted>>

ClientDelete(c) ==
    /\ MayUse(c)
    /\ ~delete_on_completion_
    /\ Goto(c, "delete")
    /\ UNCHANGED <<timerVars, refVars, wait, taskVars, otherVars>>

TaskStep(k) ==
    \/ Schedule(k)
    \/ Run(k)
    \/ HandlerReturns(k)
    \/ Restart(k)
    \/ OnTaskExit(k)

DeleteStep(t) ==
    \/ DeleteTimer(t)
    \/ DeleteCancel(t)
    \/ DeleteErase(t)

Next ==
    \/ \E c \in Clients : ClientStart(c) \/ ClientCancel(c) \/ ClientDelete(c)
    \/ \E s \in SeqNo : Expire(s) \/ StartTimerTask(s)
    \/ \E k \in Tasks : TaskStep(k)
    \/ \E t \in Threads : DeleteStep(t)

Spec == Init /\ [][Next]_vars

\* Waits expire, asio calls their handlers, and the scheduler runs the tasks.
Fairness ==
    /\ \A s \in SeqNo : WF_vars(Expire(s)) /\ WF_vars(StartTimerTask(s))
    /\ \A k \in Tasks : WF_vars(TaskStep(k) \/ DeleteStep(k))
    /\ \A c \in Clients : WF_vars(DeleteStep(c))

FairSpec == Spec /\ Fairness

-----------------------------------------------------------------------------
(* Properties.                                                             *)

\* TypeOK: the types of Timer's members, of the waits and of the tasks.
TypeOK ==
    /\ state_ \in {"Init", "Running", "Fired", "Cancelled"}
    /\ timer_task_ \in Tasks \cup {NULL}
    /\ seq_no_ \in 0 .. MaxStarts
    /\ refcount_ \in Nat /\ timer_ref_ \in BOOLEAN /\ freed \in BOOLEAN
    /\ delete_on_completion_ \in BOOLEAN
    /\ wait \in [SeqNo -> {"none", "wait", "expired", "aborted"}]
    /\ task \in [Tasks -> {"none", "WAIT", "RUN"}]
    /\ task_cancel_ \in [Tasks -> BOOLEAN] /\ timer_ \in [Tasks -> BOOLEAN]
    /\ seqOf \in [Tasks -> 0 .. MaxStarts]
    /\ pc \in [Threads -> {"idle", "run", "handler", "restart", "exit", "delete",
                           "cancel", "erase"}]
    /\ cancelled \subseteq SeqNo /\ deleted \in BOOLEAN

\* A task that is yet to call the handler or is calling it.
Pending(k) ==
    \/ task[k] = "WAIT"
    \/ task[k] = "RUN" /\ (pc[k] = "handler" \/ (pc[k] = "run" /\ ~task_cancel_[k]))

\* OneTask: "There can be atmost one Task outstanding for the timer" (timer.h):
\* it is timer_task_, it serves the last Start, and the assertions of
\* StartTimerTask, Cancel and OnTaskCancel on timer_task_ hold.
OneTask ==
    /\ \A k \in Tasks : Pending(k) <=> timer_task_ = k
    /\ \A k \in Tasks : Pending(k) => seqOf[k] = seq_no_
    /\ \A s \in SeqNo : wait[s] \in {"wait", "expired"} /\ Expected(s) => timer_task_ = NULL
    /\ state_ = "Fired" <=> \E k \in Tasks : pc[k] = "handler"

\* CancelledNotServed: the handler is not called for a Start that Cancel()
\* cancelled, though the wait is left to expire and the task may be running.
CancelledNotServed ==
    \A k \in Tasks : pc[k] = "handler" => seqOf[k] \notin cancelled

\* The waits whose handler is still to come, and the tasks that hold the timer.
Waits == {s \in SeqNo : wait[s] # "none"}
Holders == {k \in Tasks : timer_[k]}

\* A task holds the timer as long as Run and what it calls use it.
UsersHold ==
    \A k \in Tasks :
        pc[k] \in {"run", "handler", "restart", "delete", "cancel", "erase"} => timer_[k]

\* RefcountExact: the references are TimerManager's, one for each wait and one
\* for each task, so the timer lives while one of them can use it and ~Timer
\* finds it neither running nor fired.
RefcountExact ==
    /\ refcount_ = (IF timer_ref_ THEN 1 ELSE 0) + Cardinality(Waits) + Cardinality(Holders)
    /\ freed <=> refcount_ = 0
    /\ freed => state_ \notin {"Running", "Fired"}
    /\ UsersHold

\* NoCallUnderSchedulerMutex: a cancelled task has let go of the timer when it
\* exits, so OnTaskCancel, which OnTaskExit calls with the scheduler's mutex
\* held, never waits for Timer::mutex_ (Cancel takes the two the other way).
NoCallUnderSchedulerMutex ==
    \A k \in Tasks : pc[k] = "exit" /\ task_cancel_[k] => ~timer_[k]

\* NoCallAfterDelete: a timer that DeleteTimer cancelled and deleted does not
\* fire any more.
NoCallAfterDelete ==
    [][\A k \in Tasks : deleted /\ pc[k] = "run" => pc'[k] # "handler"]_vars

\* RunningEnds: a timer that is running fires or is cancelled.
RunningEnds == state_ = "Running" ~> state_ # "Running"

\* DeletedFreed: "Timer will be deleted when both the references go away": a
\* timer removed from TimerManager is destroyed, once its handler no longer asks
\* for a restart (the bound on Starts).
DeletedFreed == (~timer_ref_) ~> freed

\* Where the tasks and the clients are, and what the scheduler knows of it.
ThreadsConsistent ==
    /\ \A c \in Clients : pc[c] \in {"idle", "delete", "cancel", "erase"}
    /\ \A k \in Tasks :
          /\ task[k] = "RUN" <=> pc[k] # "idle"
          /\ timer_[k] => task[k] # "none"
          /\ task[k] = "WAIT" => timer_[k] /\ ~task_cancel_[k]
          /\ pc[k] \in {"handler", "restart", "delete", "cancel", "erase"} => ~task_cancel_[k]
    /\ seq_no_ + Cardinality(Restarting) <= MaxStarts

\* The wait of the last Start is outstanding or has become timer_task_ while the
\* timer runs, and is over when it is idle; only earlier ones are aborted.
StartsConsistent ==
    /\ \A s \in SeqNo : /\ wait[s] # "none" => s <= seq_no_
                        /\ wait[s] = "aborted" => s < seq_no_
    /\ timer_task_ # NULL => state_ \in {"Running", "Fired"}
    /\ timer_task_ # NULL \/ state_ = "Init" => \A s \in SeqNo : s = seq_no_ => wait[s] = "none"
    /\ state_ = "Running" =>
          seq_no_ > 0 /\ (timer_task_ # NULL \/ wait[seq_no_] \in {"wait", "expired"})
    /\ cancelled \subseteq 1 .. seq_no_
    /\ state_ \in {"Running", "Fired"} => seq_no_ \notin cancelled

\* TimerState: the members of the timer agree with its waits and its tasks: one
\* task, exact references, and none held by a cancelled task that exits.
TimerState ==
    /\ TypeOK /\ OneTask /\ RefcountExact /\ NoCallUnderSchedulerMutex
    /\ ThreadsConsistent /\ StartsConsistent
=============================================================================
