---------------------------- MODULE TaskScheduler ----------------------------
(***************************************************************************)
(* base/task.cc, base/task.h: the task scheduler every other part of the   *)
(* library runs on.                                                        *)
(*                                                                         *)
(* A task belongs to a TaskEntry <task_id, instance>; all entries with one *)
(* task id form a TaskGroup.  Tasks without an instance use instance -1.   *)
(* A task runs if no group in its group's policy_ and no entry in its      *)
(* entry's policyq_ has a running task.  Otherwise it waits in the waitq_  *)
(* of its entry, and the entry is put in the deferq_ of the one group or   *)
(* the one entry that blocked it.  When a group's or an entry's run_count_ *)
(* drops to zero its deferq_ is walked in the order of the sequence number *)
(* of the first waiting task of each entry.                                *)
(*                                                                         *)
(* Every operation takes the scheduler's mutex_.  The loops an operation   *)
(* runs with the mutex held (over the rules of a policy, over a deferq_)   *)
(* are steps of their own here, taken while mode # "idle"; no operation of *)
(* another thread is enabled until mode is "idle" again, and nothing else  *)
(* than the rest of the operation can happen before it.                    *)
(***************************************************************************)
EXTENDS Integers, Sequences, FiniteSets

CONSTANTS
    Groups,      \* task ids
    Instances,   \* task instances other than -1
    Tasks,       \* Task objects
    EntryOf,     \* the <task_id, instance> a Task object is created with
    Rules,       \* the TaskPolicy that SetPolicy is called with, per task id
    MaxSeqno,    \* bound on the scheduler's seqno_
    NULL

Entries == Groups \X (Instances \cup {-1})

\* Stop()/Start() keep entries enqueued while stopped on an entry of no group.
stop_entry == <<-1, -1>>

TaskExclusion == [match_id : Groups, match_instance : Instances \cup {-1}]

ASSUME GroupsAssumption == Groups \subseteq Nat /\ Instances \subseteq Nat
ASSUME TasksAssumption == IsFiniteSet(Tasks) /\ EntryOf \in [Tasks -> Entries]
ASSUME MaxSeqnoAssumption == MaxSeqno \in Nat
ASSUME NullAssumption ==
    NULL \notin Groups /\ NULL \notin Tasks /\ NULL \notin Entries \cup {stop_entry}

\* No task id is excluded from itself: TaskEntry::RunWaitQ starts all waiting
\* tasks of an entry <id, -1> at once.
ASSUME RulesAssumption ==
    /\ Rules \in [Groups -> Seq(TaskExclusion)]
    /\ \A g \in Groups : \A i \in DOMAIN Rules[g] :
          Rules[g][i].match_instance = -1 => Rules[g][i].match_id # g

VARIABLES
    running_,            \* FALSE between Stop() and Start()
    seqno_,              \* last sequence number given to a task
    policy_set_,         \* SetPolicy was called for the group
    policy_,             \* TaskGroup::policy_, a list of groups
    policyq_,            \* TaskEntry::policyq_, a list of entries
    state_,              \* Task::state_
    seqno,               \* Task::seqno_
    task_cancel_,        \* Task::task_cancel_
    waitq_,              \* TaskEntry::waitq_
    run_count_,          \* TaskEntry::run_count_
    run_task_,           \* TaskEntry::run_task_
    group_run_count_,    \* TaskGroup::run_count_
    deferq_,             \* TaskEntry::deferq_
    group_deferq_,       \* TaskGroup::deferq_
    defer_key,           \* the key under which an entry sits in a deferq_ tree
    deferq_task_entry_,  \* the entry whose deferq_ an entry is in
    deferq_task_group_,  \* the group whose deferq_ an entry is in
    mode,                \* the loop the holder of mutex_ is in
    cur,                 \* the entry whose deferq_ is walked, or the group
                         \* entry whose policy is set
    git,                 \* iterator into the deferq_ of cur's group
    eit,                 \* iterator into the deferq_ of cur
    exiting,             \* the task in OnTaskExit
    recycle,             \* its Run() returned false
    rule                 \* index of the last rule SetPolicy has applied

policyVars == <<policy_set_, policy_, policyq_>>
taskVars   == <<seqno_, state_, seqno>>
runVars    == <<run_count_, run_task_, group_run_count_>>
deferVars  == <<deferq_, group_deferq_, defer_key, deferq_task_entry_,
                deferq_task_group_>>
lockVars   == <<mode, cur, git, eit, exiting, recycle, rule>>
vars       == <<running_, policyVars, taskVars, task_cancel_, waitq_, runVars,
                deferVars, lockVars>>

Group(e) == e[1]
Instance(e) == e[2]
Elements(s) == {s[i] : i \in DOMAIN s}

-----------------------------------------------------------------------------
(* Policy checks.                                                          *)

\* The first group of policy_[g] with running tasks, or NULL.
ActiveGroupInPolicy(g) ==
    LET active == {i \in DOMAIN policy_[g] : group_run_count_[policy_[g][i]] # 0}
    IN  IF active = {} THEN NULL
        ELSE policy_[g][CHOOSE i \in active : \A j \in active : i <= j]

\* The first entry of policyq_[e] with running tasks, or NULL.
ActiveEntryInPolicy(e) ==
    LET active == {i \in DOMAIN policyq_[e] : run_count_[policyq_[e][i]] # 0}
    IN  IF active = {} THEN NULL
        ELSE policyq_[e][CHOOSE i \in active : \A j \in active : i <= j]

-----------------------------------------------------------------------------
(* The deferq_ trees: sets of entries ordered by defer_key.                *)

\* begin() of a deferq_, NULL standing for end().
First(q) ==
    IF q = {} THEN NULL ELSE CHOOSE e \in q : \A f \in q : defer_key[e] <= defer_key[f]

\* The iterator after e in a deferq_.
Succ(q, e) == First({f \in q : defer_key[f] > defer_key[e]})

\* AddToDeferQ(e) of group tg or of entry te (the other is NULL; both are NULL
\* if e is added nowhere), on trees gq and eq from which e was deleted before.
AddToDeferQ(e, gq, eq, tg, te, key) ==
    /\ group_deferq_' = IF tg = NULL THEN gq ELSE [gq EXCEPT ![tg] = @ \cup {e}]
    /\ deferq_' = IF te = NULL THEN eq ELSE [eq EXCEPT ![te] = @ \cup {e}]
    /\ deferq_task_group_' = [deferq_task_group_ EXCEPT ![e] = tg]
    /\ deferq_task_entry_' = [deferq_task_entry_ EXCEPT ![e] = te]
    /\ defer_key' = IF tg = NULL /\ te = NULL THEN defer_key
                    ELSE [defer_key EXCEPT ![e] = key]

-----------------------------------------------------------------------------
(* Starting tasks.                                                         *)

\* RunTask for each task of the sequence ts, tasks of entry e.
RunTasks(e, ts) ==
    /\ state_' = [t \in Tasks |-> IF t \in Elements(ts) THEN "RUN" ELSE state_[t]]
    /\ run_count_' = [run_count_ EXCEPT ![e] = @ + Len(ts)]
    /\ run_task_' = [run_task_ EXCEPT ![e] = IF Instance(e) = -1 THEN @ ELSE Head(ts)]
    /\ group_run_count_' = [group_run_count_ EXCEPT ![Group(e)] = @ + Len(ts)]

\* Mutant: RunWaitQ starts the youngest task of an instance.
RunnableLast(e) == IF Instance(e) = -1 THEN waitq_[e] ELSE <<waitq_[e][Len(waitq_[e])]>>

\* The tasks RunWaitQ starts: one for a real instance, all for instance -1.
Runnable(e) == IF Instance(e) = -1 THEN waitq_[e] ELSE <<Head(waitq_[e])>>

\* What RunWaitQ leaves in the waitq_.
Remaining(e) == IF Instance(e) = -1 THEN <<>> ELSE Tail(waitq_[e])

\* Run the waiting tasks of e if its policies allow, else defer e again; gq and
\* eq are the trees after e was deleted from the one that was walked.
RunDeferEntry(e, gq, eq) ==
    LET ag == ActiveGroupInPolicy(Group(e))
        ae == ActiveEntryInPolicy(e)
        key == seqno[Head(waitq_[e])]
    IN  \/ /\ ag # NULL
           /\ AddToDeferQ(e, gq, eq, ag, NULL, key)
           /\ UNCHANGED <<state_, waitq_, runVars>>
        \/ /\ ag = NULL /\ ae # NULL
           /\ AddToDeferQ(e, gq, eq, NULL, ae, key)
           /\ UNCHANGED <<state_, waitq_, runVars>>
        \/ /\ ag = NULL /\ ae = NULL
           /\ RunTasks(e, Runnable(e))
           /\ waitq_' = [waitq_ EXCEPT ![e] = Remaining(e)]
           /\ IF Remaining(e) = <<>>
              THEN AddToDeferQ(e, gq, eq, NULL, NULL, 0)
              ELSE AddToDeferQ(e, gq, eq, NULL, e, seqno[Head(Remaining(e))])

\* Enqueue t with mutex_ held: run it, or add it to the waitq_ of its entry and,
\* if it is the first one there, the entry to the deferq_ of what blocks it.
EnqueueUnLocked(t) ==
    LET e == EntryOf[t]
        n == seqno_ + 1
        ag == ActiveGroupInPolicy(Group(e))
        ae == ActiveEntryInPolicy(e)
        AddToWaitQ == /\ waitq_' = [waitq_ EXCEPT ![e] = Append(@, t)]
                      /\ state_' = [state_ EXCEPT ![t] = "WAIT"]
                      /\ UNCHANGED runVars
    IN  /\ seqno_' = n
        /\ seqno' = [seqno EXCEPT ![t] = n]
        /\ \/ /\ waitq_[e] # <<>>
              /\ AddToWaitQ
              /\ UNCHANGED deferVars
           \/ /\ waitq_[e] = <<>> /\ ~running_
              /\ AddToWaitQ
              /\ AddToDeferQ(e, group_deferq_, deferq_, NULL, stop_entry, n)
           \/ /\ waitq_[e] = <<>> /\ running_ /\ ag # NULL
              /\ AddToWaitQ
              /\ AddToDeferQ(e, group_deferq_, deferq_, ag, NULL, n)
           \/ /\ waitq_[e] = <<>> /\ running_ /\ ag = NULL /\ ae # NULL
              /\ AddToWaitQ
              /\ AddToDeferQ(e, group_deferq_, deferq_, NULL, ae, n)
           \/ /\ waitq_[e] = <<>> /\ running_ /\ ag = NULL /\ ae = NULL
              /\ RunTasks(e, <<t>>)
              /\ UNCHANGED <<waitq_, deferVars>>

-----------------------------------------------------------------------------
(* Operations.                                                             *)

Init ==
    /\ running_ = TRUE
    /\ seqno_ = 0
    /\ policy_set_ = [g \in Groups |-> FALSE]
    /\ policy_ = [g \in Groups |-> <<>>]
    /\ policyq_ = [e \in Entries |-> IF Instance(e) = -1 THEN <<>> ELSE <<e>>]
    /\ state_ = [t \in Tasks |-> "INIT"]
    /\ seqno = [t \in Tasks |-> 0]
    /\ task_cancel_ = [t \in Tasks |-> FALSE]
    /\ waitq_ = [e \in Entries |-> <<>>]
    /\ run_count_ = [e \in Entries |-> 0]
    /\ run_task_ = [e \in Entries |-> NULL]
    /\ group_run_count_ = [g \in Groups |-> 0]
    /\ deferq_ = [e \in Entries \cup {stop_entry} |-> {}]
    /\ group_deferq_ = [g \in Groups |-> {}]
    /\ defer_key = [e \in Entries |-> 0]
    /\ deferq_task_entry_ = [e \in Entries |-> NULL]
    /\ deferq_task_group_ = [e \in Entries |-> NULL]
    /\ mode = "idle"
    /\ cur = NULL
    /\ git = NULL
    /\ eit = NULL
    /\ exiting = NULL
    /\ recycle = FALSE
    /\ rule = 0

\* The groups a policy of g is about.
PolicyGroups(g) == {g} \cup {Rules[g][i].match_id : i \in DOMAIN Rules[g]}

\* SetPolicy(g, Rules[g]) takes the mutex.  It is called at most once for a
\* group (PolicySet() asserts it), and before tasks of the groups are running.
SetPolicy(g) ==
    /\ mode = "idle"
    /\ ~policy_set_[g]
    /\ Rules[g] # <<>>
    /\ \A h \in PolicyGroups(g) : group_run_count_[h] = 0
    /\ policy_set_' = [policy_set_ EXCEPT ![g] = TRUE]
    /\ mode' = "policy"
    /\ cur' = <<g, -1>>
    /\ rule' = 0
    /\ UNCHANGED <<running_, policy_, policyq_, taskVars, task_cancel_, waitq_,
                   runVars, deferVars, git, eit, exiting, recycle>>

\* AddPolicy of a TaskGroup or of a TaskEntry: y joins the list of x.
PushPolicy(q, x, y) == [q EXCEPT ![x] = Append(@, y)]

\* Mutant: only one of the two sides learns of the exclusion.
AddPolicyOneWay ==
    /\ mode = "policy"
    /\ rule < Len(Rules[Group(cur)])
    /\ rule' = rule + 1
    /\ LET g == Group(cur)
           r == Rules[g][rule + 1]
       IN  IF r.match_instance = -1
           THEN /\ policy_' = [policy_ EXCEPT ![g] = Append(@, r.match_id)]
                /\ UNCHANGED policyq_
           ELSE /\ policyq_' = [policyq_ EXCEPT ![cur] = Append(@, <<r.match_id, r.match_instance>>)]
                /\ UNCHANGED policy_
    /\ UNCHANGED <<running_, policy_set_, taskVars, task_cancel_, waitq_, runVars,
                   deferVars, mode, cur, git, eit, exiting, recycle>>

\* One rule of the loop of SetPolicy: a rule for a whole group excludes the two
\* groups; a rule for an instance excludes that instance of the other group
\* from the same instance, and from the tasks without instance, of this one.
AddPolicy ==
    /\ mode = "policy"
    /\ rule < Len(Rules[Group(cur)])
    /\ rule' = rule + 1
    /\ LET g == Group(cur)
           m == Rules[g][rule + 1].match_id
           i == Rules[g][rule + 1].match_instance
       IN  \/ /\ i = -1
              /\ policy_' = PushPolicy(PushPolicy(policy_, g, m), m, g)
              /\ UNCHANGED policyq_
           \/ /\ i # -1
              /\ LET both == PushPolicy(PushPolicy(policyq_, <<g, i>>, <<m, i>>),
                                       <<m, i>>, <<g, i>>)
                 IN  policyq_' = PushPolicy(PushPolicy(both, cur, <<m, i>>), <<m, i>>, cur)
              /\ UNCHANGED policy_
    /\ UNCHANGED <<running_, policy_set_, taskVars, task_cancel_, waitq_, runVars,
                   deferVars, mode, cur, git, eit, exiting, recycle>>

SetPolicyDone ==
    /\ mode = "policy"
    /\ rule = Len(Rules[Group(cur)])
    /\ mode' = "idle"
    /\ cur' = NULL
    /\ rule' = 0
    /\ UNCHANGED <<running_, policyVars, taskVars, task_cancel_, waitq_, runVars,
                   deferVars, git, eit, exiting, recycle>>

\* Enqueue(t) of a new Task object.
Enqueue(t) ==
    /\ mode = "idle"
    /\ state_[t] = "INIT"
    /\ seqno_ < MaxSeqno
    /\ EnqueueUnLocked(t)
    /\ UNCHANGED <<running_, policyVars, task_cancel_, lockVars>>

\* Cancel(t) of a running task: it is not recycled when it exits.
CancelRunning(t) ==
    /\ mode = "idle"
    /\ state_[t] = "RUN"
    /\ task_cancel_' = [task_cancel_ EXCEPT ![t] = TRUE]
    /\ UNCHANGED <<running_, policyVars, taskVars, waitq_, runVars, deferVars,
                   lockVars>>

\* Mutant: Cancel drops the first waiting task, whichever is cancelled.
DeleteFirstFromWaitQ(s, i) == Tail(s)

\* waitq_ s without its i-th task.
DeleteFromWaitQ(s, i) ==
    [j \in 1 .. Len(s) - 1 |-> IF j < i THEN s[j] ELSE s[j + 1]]

\* The i-th waiting task of e was cancelled.  If none is left, e leaves the
\* deferq_ it is in; if it was the first, e is deleted from and added again to
\* that deferq_, under the sequence number of the next task.
AdjustDeferQ(e, i) ==
    LET tg == deferq_task_group_[e]
        te == deferq_task_entry_[e]
        gq == IF tg = NULL THEN group_deferq_ ELSE [group_deferq_ EXCEPT ![tg] = @ \ {e}]
        eq == IF te = NULL THEN deferq_ ELSE [deferq_ EXCEPT ![te] = @ \ {e}]
    IN  \/ /\ Len(waitq_[e]) = 1
           /\ AddToDeferQ(e, gq, eq, NULL, NULL, 0)
        \/ /\ Len(waitq_[e]) > 1 /\ i = 1
           /\ AddToDeferQ(e, gq, eq, tg, te, seqno[waitq_[e][2]])
        \/ /\ Len(waitq_[e]) > 1 /\ i # 1
           /\ UNCHANGED deferVars

\* Cancel(t) of a waiting task, which is deleted.
CancelWaiting(t) ==
    LET e == EntryOf[t]
    IN  /\ mode = "idle"
        /\ state_[t] = "WAIT"
        /\ \E i \in DOMAIN waitq_[e] :
              /\ waitq_[e][i] = t
              /\ waitq_' = [waitq_ EXCEPT ![e] = DeleteFromWaitQ(@, i)]
              /\ AdjustDeferQ(e, i)
        /\ state_' = [state_ EXCEPT ![t] = "INIT"]
        /\ seqno' = [seqno EXCEPT ![t] = 0]
        /\ UNCHANGED <<running_, policyVars, seqno_, task_cancel_, runVars, lockVars>>

Stop ==
    /\ mode = "idle"
    /\ running_' = FALSE
    /\ UNCHANGED <<policyVars, taskVars, task_cancel_, waitq_, runVars, deferVars,
                   lockVars>>

\* Start() walks the deferq_ of stop_entry.
Start ==
    /\ mode = "idle"
    /\ running_' = TRUE
    /\ mode' = "entry"
    /\ cur' = stop_entry
    /\ eit' = First(deferq_[stop_entry])
    /\ UNCHANGED <<policyVars, taskVars, task_cancel_, waitq_, runVars, deferVars,
                   git, exiting, recycle, rule>>

\* TaskExited: the counts after a task of e exits.
TaskExited(e) ==
    /\ run_task_' = [run_task_ EXCEPT ![e] = NULL]
    /\ run_count_' = [run_count_ EXCEPT ![e] = @ - 1]
    /\ group_run_count_' = [group_run_count_ EXCEPT ![Group(e)] = @ - 1]

\* Run() of t has returned (FALSE: recycle the task) and ~TaskImpl calls
\* OnTaskExit(t), which for each count that is now zero begins to walk the
\* deferq_ that waits for it.
OnTaskExit(t, complete) ==
    LET e == EntryOf[t]
        g == Group(e)
        entryDone == run_count_[e] = 1
        groupDone == group_run_count_[g] = 1
    IN  /\ mode = "idle"
        /\ state_[t] = "RUN"
        /\ complete \/ seqno_ < MaxSeqno
        /\ TaskExited(e)
        /\ exiting' = t
        /\ recycle' = ~complete
        /\ cur' = e
        /\ mode' = CASE groupDone /\ entryDone -> "combined"
                     [] groupDone /\ ~entryDone -> "group"
                     [] ~groupDone /\ entryDone -> "entry"
                     [] OTHER -> "exit"
        /\ git' = IF groupDone THEN First(group_deferq_[g]) ELSE NULL
        /\ eit' = IF entryDone THEN First(deferq_[e]) ELSE NULL
        /\ UNCHANGED <<running_, policyVars, taskVars, task_cancel_, waitq_,
                       deferVars, rule>>

\* One turn of the loop over the deferq_ of cur's group.
GroupTurn ==
    LET g == Group(cur)
    IN  /\ git' = Succ(group_deferq_[g], git)
        /\ RunDeferEntry(git, [group_deferq_ EXCEPT ![g] = @ \ {git}], deferq_)
        /\ UNCHANGED eit

\* One turn of the loop over the deferq_ of cur.
EntryTurn ==
    /\ eit' = Succ(deferq_[cur], eit)
    /\ RunDeferEntry(eit, group_deferq_, [deferq_ EXCEPT ![cur] = @ \ {eit}])
    /\ UNCHANGED git

\* What a turn of any of the loops leaves alone.
TurnUnchanged == UNCHANGED <<running_, policyVars, seqno_, seqno, task_cancel_,
                             mode, cur, exiting, recycle, rule>>

\* RunCombinedDeferQ: walk both queues, the older first task first, until one
\* of the iterators is at its end.
RunCombinedDeferQ ==
    /\ mode = "combined"
    /\ git # NULL /\ eit # NULL
    /\ IF defer_key[git] < defer_key[eit] THEN GroupTurn ELSE EntryTurn
    /\ TurnUnchanged

\* Mutant: what is left when one of the queues is done is not walked.
RunCombinedDeferQNoRest ==
    /\ mode = "combined"
    /\ git = NULL \/ eit = NULL
    /\ mode' = "entry"
    /\ git' = NULL
    /\ eit' = NULL
    /\ UNCHANGED <<running_, policyVars, taskVars, task_cancel_, waitq_, runVars,
                   deferVars, cur, exiting, recycle, rule>>

\* The rest of RunCombinedDeferQ: walk what is left from its beginning.
RunCombinedDeferQRest ==
    /\ mode = "combined"
    /\ git = NULL \/ eit = NULL
    /\ mode' = IF git # NULL THEN "group" ELSE "entry"
    /\ git' = IF git # NULL THEN First(group_deferq_[Group(cur)]) ELSE NULL
    /\ eit' = IF git = NULL /\ eit # NULL THEN First(deferq_[cur]) ELSE NULL
    /\ UNCHANGED <<running_, policyVars, taskVars, task_cancel_, waitq_, runVars,
                   deferVars, cur, exiting, recycle, rule>>

\* TaskGroup::RunDeferQ.
GroupRunDeferQ ==
    /\ mode = "group"
    /\ git # NULL
    /\ GroupTurn
    /\ TurnUnchanged

\* TaskEntry::RunDeferQ.
RunDeferQ ==
    /\ mode = "entry"
    /\ eit # NULL
    /\ EntryTurn
    /\ TurnUnchanged

\* The walk is over: Start() returns, OnTaskExit goes on.
RunDeferQDone ==
    /\ (mode = "group" /\ git = NULL) \/ (mode = "entry" /\ eit = NULL)
    /\ mode' = IF exiting = NULL THEN "idle" ELSE "exit"
    /\ cur' = NULL
    /\ UNCHANGED <<running_, policyVars, taskVars, task_cancel_, waitq_, runVars,
                   deferVars, git, eit, exiting, recycle, rule>>

\* The end of OnTaskExit: the task is deleted, or enqueued again if Run()
\* returned false and it was not cancelled.
OnTaskExitDone ==
    /\ mode = "exit"
    /\ \/ /\ recycle /\ ~task_cancel_[exiting]
          /\ EnqueueUnLocked(exiting)
          /\ UNCHANGED task_cancel_
       \/ /\ ~recycle \/ task_cancel_[exiting]
          /\ state_' = [state_ EXCEPT ![exiting] = "INIT"]
          /\ seqno' = [seqno EXCEPT ![exiting] = 0]
          /\ task_cancel_' = [task_cancel_ EXCEPT ![exiting] = FALSE]
          /\ UNCHANGED <<seqno_, waitq_, runVars, deferVars>>
    /\ mode' = "idle"
    /\ cur' = NULL
    /\ exiting' = NULL
    /\ recycle' = FALSE
    /\ UNCHANGED <<running_, policyVars, git, eit, rule>>

\* The steps of the holder of mutex_.
Locked ==
    \/ AddPolicy
    \/ SetPolicyDone
    \/ RunCombinedDeferQ
    \/ RunCombinedDeferQRest
    \/ GroupRunDeferQ
    \/ RunDeferQ
    \/ RunDeferQDone
    \/ OnTaskExitDone

Next ==
    \/ \E g \in Groups : SetPolicy(g)
    \/ \E t \in Tasks : Enqueue(t) \/ CancelRunning(t) \/ CancelWaiting(t)
    \/ \E t \in Tasks, complete \in BOOLEAN : OnTaskExit(t, complete)
    \/ Stop
    \/ Start
    \/ Locked

Spec == Init /\ [][Next]_vars

\* A thread that holds the mutex goes on; Run() of a task returns, and the
\* thread that ran it gets the mutex although others keep taking it.
Fairness ==
    /\ WF_vars(Locked)
    /\ \A t \in Tasks : SF_vars(\E complete \in BOOLEAN : OnTaskExit(t, complete))

FairSpec == Spec /\ Fairness
-----------------------------------------------------------------------------
(* Properties.                                                             *)

\* A task between RunTask and OnTaskExit.
Running(t) == state_[t] = "RUN" /\ t # exiting

PolicyTypes ==
    /\ policy_set_ \in [Groups -> BOOLEAN]
    /\ policy_ \in [Groups -> Seq(Groups)]
    /\ policyq_ \in [Entries -> Seq(Entries)]

TaskTypes ==
    /\ running_ \in BOOLEAN
    /\ seqno_ \in 0 .. MaxSeqno
    /\ state_ \in [Tasks -> {"INIT", "WAIT", "RUN"}]
    /\ seqno \in [Tasks -> 0 .. MaxSeqno]
    /\ task_cancel_ \in [Tasks -> BOOLEAN]
    /\ waitq_ \in [Entries -> Seq(Tasks)]

RunTypes ==
    /\ run_count_ \in [Entries -> Nat]
    /\ run_task_ \in [Entries -> Tasks \cup {NULL}]
    /\ group_run_count_ \in [Groups -> Nat]

DeferTypes ==
    /\ deferq_ \in [Entries \cup {stop_entry} -> SUBSET Entries]
    /\ group_deferq_ \in [Groups -> SUBSET Entries]
    /\ defer_key \in [Entries -> 0 .. MaxSeqno]
    /\ deferq_task_entry_ \in [Entries -> Entries \cup {stop_entry, NULL}]
    /\ deferq_task_group_ \in [Entries -> Groups \cup {NULL}]

LockTypes ==
    /\ mode \in {"idle", "policy", "combined", "group", "entry", "exit"}
    /\ cur \in Entries \cup {stop_entry, NULL}
    /\ git \in Entries \cup {NULL}
    /\ eit \in Entries \cup {NULL}
    /\ exiting \in Tasks \cup {NULL}
    /\ recycle \in BOOLEAN
    /\ rule \in Nat

\* The types of the variables of task.cc.
TypeOK == PolicyTypes /\ TaskTypes /\ RunTypes /\ DeferTypes /\ LockTypes

\* SetPolicy has applied rule i of g.
Applied(g, i) == policy_set_[g] /\ (mode = "policy" /\ g = Group(cur) => i <= rule)

\* What the rules applied so far say of two entries: a rule <m, -1> of g
\* excludes all of g from all of m; a rule <m, i> of g excludes <g, i> and
\* <g, -1> from <m, i>; an instance excludes itself.
Excluded(e, f) ==
    \/ e = f /\ Instance(e) # -1
    \/ \E i \in DOMAIN Rules[Group(e)] :
          LET r == Rules[Group(e)][i]
          IN  /\ Applied(Group(e), i)
              /\ r.match_id = Group(f)
              /\ \/ r.match_instance = -1
                 \/ /\ r.match_instance = Instance(f)
                    /\ Instance(e) \in {Instance(f), -1}

\* The scheduler never runs two tasks that a configured policy excludes from
\* each other: "Tasks may not be added to the run queue in violation of their
\* exclusion policy" (task.h).  SetPolicy turns the rules into policy_ and
\* policyq_ lists; RunDeferEntry, RunWaitQ and EnqueueUnLocked rely on them.
MutualExclusion ==
    \A t, u \in Tasks :
        t # u /\ Running(t) /\ Running(u) => ~Excluded(EntryOf[t], EntryOf[u])

\* The counts that the policy checks read are the numbers of running tasks,
\* whatever order tasks started, exited, were recycled or cancelled in.
RunCountsExact ==
    /\ \A e \in Entries :
          /\ run_count_[e] = Cardinality({t \in Tasks : Running(t) /\ EntryOf[t] = e})
          /\ run_task_[e] # NULL <=> Instance(e) # -1 /\ run_count_[e] # 0
    /\ \A g \in Groups :
          group_run_count_[g] =
             Cardinality({t \in Tasks : Running(t) /\ Group(EntryOf[t]) = g})

\* e is still ahead of the iterator of the walk over the deferq_ it is in.
Ahead(it, e) == it # NULL /\ defer_key[it] <= defer_key[e]

\* No lost wake-up: an entry has waiting tasks exactly if it is in one deferq_,
\* and whatever that deferq_ belongs to will walk it: it has running tasks, or
\* the scheduler is stopped, or the walk has not passed the entry yet.  The
\* asserts of RunDeferEntry, Cancel and AddToDeferQ rest on this.
NoLostWakeup ==
    \A e \in Entries :
        LET tg == deferq_task_group_[e]
            te == deferq_task_entry_[e]
        IN  /\ tg = NULL \/ te = NULL
            /\ waitq_[e] # <<>> <=> tg # NULL \/ te # NULL
            /\ tg # NULL =>
                  \/ group_run_count_[tg] # 0
                  \/ cur # NULL /\ tg = Group(cur) /\ Ahead(git, e)
            /\ te # NULL =>
                  \/ IF te = stop_entry THEN ~running_ ELSE run_count_[te] # 0
                  \/ te = cur /\ Ahead(eit, e)

\* The deferq_ trees hold exactly the entries that point back to them, each
\* under the sequence number of its first waiting task: the key of an element
\* of an intrusive set must not change while it is in the set, although
\* Cancel and RunWaitQ remove the task that determines it.
DeferQConsistent ==
    \A e \in Entries :
        /\ \A g \in Groups : e \in group_deferq_[g] <=> deferq_task_group_[e] = g
        /\ \A f \in Entries \cup {stop_entry} :
              e \in deferq_[f] <=> deferq_task_entry_[e] = f
        /\ waitq_[e] # <<>> => defer_key[e] = seqno[Head(waitq_[e])]

\* The waiting tasks of an entry are in the order of their Enqueue, and a task
\* is in the waitq_ of its entry exactly while its state is WAIT.
WaitQOrdered ==
    /\ \A e \in Entries : \A i, j \in DOMAIN waitq_[e] :
          i < j => seqno[waitq_[e][i]] < seqno[waitq_[e][j]]
    /\ \A t \in Tasks : \A e \in Entries :
          t \in Elements(waitq_[e]) <=> state_[t] = "WAIT" /\ e = EntryOf[t]

\* A step that starts u starts every older task of the same entry, too.
InOrder ==
    \A t, u \in Tasks :
        /\ EntryOf[t] = EntryOf[u] /\ u # t
        /\ state_[t] = "WAIT"
        /\ state_[u] # "RUN" /\ state_'[u] = "RUN"
        => seqno'[t] > seqno'[u] \/ state_'[t] # "WAIT"

\* Tasks of one entry start in the order they were enqueued ("Tasks are stored
\* and executed in order of their creation", task.cc), also when the entry was
\* deferred several times on different groups and entries.
StartInOrder == [][InOrder]_vars

\* "Stop scheduling of all tasks" (task.h, Stop): while the scheduler is
\* stopped no task is started.
StoppedStartsNothing ==
    [][~running_ /\ ~running_' =>
          \A t \in Tasks : ~Running(t) => ~Running(t)']_vars

\* Every enqueued task is run or cancelled in the end, if the scheduler is not
\* left stopped: no order of enqueues, exits, cancels and deferrals leaves the
\* entry of a waiting task in a deferq_ that nobody walks any more.
WaitingTaskLeavesWaitQ ==
    (<>[]running_) => \A t \in Tasks : state_[t] = "WAIT" ~> state_[t] # "WAIT"

-----------------------------------------------------------------------------
(* The inductive invariant behind the safety properties.                   *)

\* Policies are symmetric ("complementary policies", task.cc), no group is in
\* its own policy_ and exactly the real instances are in their own policyq_.
PolicySymmetric ==
    /\ \A g, h \in Groups :
          h \in Elements(policy_[g]) => g \in Elements(policy_[h]) /\ g # h
    /\ \A e, f \in Entries :
          f \in Elements(policyq_[e]) => e \in Elements(policyq_[f])
    /\ \A e \in Entries : e \in Elements(policyq_[e]) <=> Instance(e) # -1

\* Every rule applied is in the lists that the policy checks read.
RulesInstalled ==
    \A g \in Groups : \A i \in DOMAIN Rules[g] :
        LET m == Rules[g][i].match_id
            k == Rules[g][i].match_instance
        IN  Applied(g, i) =>
              IF k = -1 THEN m \in Elements(policy_[g])
              ELSE /\ <<m, k>> \in Elements(policyq_[<<g, k>>])
                   /\ <<m, k>> \in Elements(policyq_[<<g, -1>>])

\* No two groups and no two entries that are in each other's lists are active.
NoConflict ==
    /\ \A g, h \in Groups :
          h \in Elements(policy_[g]) => group_run_count_[g] = 0 \/ group_run_count_[h] = 0
    /\ \A e, f \in Entries :
          f \in Elements(policyq_[e]) /\ f # e => run_count_[e] = 0 \/ run_count_[f] = 0
    /\ \A e \in Entries : Instance(e) # -1 => run_count_[e] <= 1

\* Sequence numbers identify the tasks that have one.
SeqnoUnique ==
    /\ \A t \in Tasks : seqno[t] <= seqno_ /\ (seqno[t] = 0 <=> state_[t] = "INIT")
    /\ \A t, u \in Tasks : t # u /\ seqno[t] = seqno[u] => seqno[t] = 0

\* Where the holder of mutex_ is, and that its iterators are in their trees.
LockState ==
    /\ mode = "idle" => cur = NULL /\ exiting = NULL
    /\ mode = "policy" =>
          /\ cur \in Entries /\ Instance(cur) = -1 /\ exiting = NULL
          /\ policy_set_[Group(cur)] /\ rule <= Len(Rules[Group(cur)])
          /\ \A h \in PolicyGroups(Group(cur)) : group_run_count_[h] = 0
    /\ mode \in {"idle", "policy", "entry", "exit"} => git = NULL
    /\ mode \in {"idle", "policy", "group", "exit"} => eit = NULL
    /\ mode \in {"combined", "group"} => cur \in Entries /\ exiting # NULL
    /\ mode = "entry" => cur # NULL /\ (cur = stop_entry <=> exiting = NULL)
    /\ mode = "exit" => exiting # NULL
    /\ exiting # NULL => state_[exiting] = "RUN"
    /\ recycle => exiting # NULL /\ seqno_ < MaxSeqno
    /\ git # NULL => git \in group_deferq_[Group(cur)]
    /\ eit # NULL => eit \in deferq_[cur]

\* MutualExclusion and NoLostWakeup follow from what each operation of task.cc
\* preserves: policies, counts, queues, tree keys and iterators together.
IInv ==
    /\ TypeOK
    /\ PolicySymmetric
    /\ RulesInstalled
    /\ NoConflict
    /\ SeqnoUnique
    /\ LockState
    /\ RunCountsExact
    /\ WaitQOrdered
    /\ DeferQConsistent
    /\ NoLostWakeup

-----------------------------------------------------------------------------
(* What the scheduler promises.                                            *)

Abstract == INSTANCE ExclusiveExecution
            WITH waiting  <- waitq_,
                 running  <- {t \in Tasks : Running(t)},
                 excluded <- {p \in Entries \X Entries : Excluded(p[1], p[2])}

\* The queues, counts and walks of task.cc do nothing that the short
\* description of task.h does not say: tasks of an entry start from the front of
\* its waitq_, a task overtakes no waiting task of its entry, only a task that
\* was enqueued runs, and none starts while a task it is excluded from runs.
Implements == Abstract!Spec
=============================================================================
