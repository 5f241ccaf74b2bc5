------------------------- MODULE ExclusiveExecution -------------------------
(* What the task scheduler of src/base/task.h promises, without the means:  *)
(* tasks wait for their entry in order, and a task runs only while no task  *)
(* that it is excluded from runs.                                           *)
EXTENDS Naturals, Sequences

CONSTANTS
    Tasks,    \* the tasks
    Entries,  \* pairs of a task id and an instance
    EntryOf   \* the entry of a task

VARIABLES
    waiting,  \* the waiting tasks of each entry, in the order they start
    running,  \* the set of running tasks
    excluded  \* the pairs of entries whose tasks may not run together

absVars == <<waiting, running, excluded>>

\* No two tasks of S are excluded from each other.
Compatible(S) ==
    \A t, u \in S : t # u => <<EntryOf[t], EntryOf[u]>> \notin excluded

\* A sequence without its i-th element.
Without(s, i) == [j \in 1 .. Len(s) - 1 |-> IF j < i THEN s[j] ELSE s[j + 1]]

Init ==
    /\ waiting = [e \in Entries |-> <<>>]
    /\ running = {}
    /\ excluded \subseteq Entries \X Entries

\* A policy is added; no running tasks violate it.
Restrict ==
    /\ excluded \subseteq excluded'
    /\ Compatible(running)'
    /\ UNCHANGED <<waiting, running>>

\* A new task has to wait, behind the tasks of its entry.
Arrive(t) ==
    /\ t \notin running
    /\ \A i \in DOMAIN waiting[EntryOf[t]] : waiting[EntryOf[t]][i] # t
    /\ waiting' = [waiting EXCEPT ![EntryOf[t]] = Append(@, t)]
    /\ UNCHANGED <<running, excluded>>

\* A new task starts at once: no task of its entry is waiting.
StartAtOnce(t) ==
    /\ t \notin running
    /\ waiting[EntryOf[t]] = <<>>
    /\ running' = running \cup {t}
    /\ Compatible(running')
    /\ UNCHANGED <<waiting, excluded>>

\* The first waiting task of an entry starts.
StartFirst(e) ==
    /\ waiting[e] # <<>>
    /\ running' = running \cup {Head(waiting[e])}
    /\ Compatible(running')
    /\ waiting' = [waiting EXCEPT ![e] = Tail(@)]
    /\ UNCHANGED excluded

\* All waiting tasks of an entry start.
StartAll(e) ==
    /\ waiting[e] # <<>>
    /\ running' = running \cup {waiting[e][i] : i \in DOMAIN waiting[e]}
    /\ Compatible(running')
    /\ waiting' = [waiting EXCEPT ![e] = <<>>]
    /\ UNCHANGED excluded

\* A running task ends.
Finish(t) ==
    /\ t \in running
    /\ running' = running \ {t}
    /\ UNCHANGED <<waiting, excluded>>

\* A waiting task is cancelled.
Withdraw(e) ==
    /\ \E i \in DOMAIN waiting[e] : waiting' = [waiting EXCEPT ![e] = Without(@, i)]
    /\ UNCHANGED <<running, excluded>>

Next ==
    \/ Restrict
    \/ \E t \in Tasks : Arrive(t) \/ StartAtOnce(t) \/ Finish(t)
    \/ \E e \in Entries : StartFirst(e) \/ StartAll(e) \/ Withdraw(e)

Spec == Init /\ [][Next]_absVars
=============================================================================
