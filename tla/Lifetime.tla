------------------------------- MODULE Lifetime -------------------------------
(***************************************************************************)
(* base/lifetime.cc: LifetimeActors, whose dependents are deleted with     *)
(* them ("on delete cascade"), and the LifetimeManager, whose task handles *)
(* delete events and destroys an actor once nothing depends on it.         *)
(*                                                                         *)
(* A method of LifetimeActor runs under the actor's mutex_ and is one      *)
(* step; DeleteExecutor is several.  The WorkQueue of the manager is the   *)
(* number of events it holds of each actor: which of them is handled next  *)
(* is left open, so nothing below rests on the order of events.            *)
(***************************************************************************)
EXTENDS Naturals, FiniteSets

CONSTANTS
    Actors,
    Parents,      \* Parents[a]: the actors that the LifetimeRefs of a point to
    NoActor,
    MaxExtra      \* bound on the calls of RetryDelete and the deferred events

\* The references form an acyclic graph (lifetime.h).
Ancestry(r) == \A a \in Actors : \A p \in Parents[a] : r[p] < r[a]

ASSUME LifeAssumption ==
    /\ Parents \in [Actors -> SUBSET Actors]
    /\ \E r \in [Actors -> 0 .. Cardinality(Actors)] : Ancestry(r)
    /\ NoActor \notin Actors
    /\ MaxExtra \in Nat

VARIABLES
    status,             \* "absent", "alive" or "destroyed"
    deleted_, shutdown_invoked_, delete_paused_, dependents_,
    actor_refcount_,    \* LifetimeActor::refcount_
    inUse,              \* actors with lightweight dependents: MayDelete() is false
    queue_,             \* number of delete events of each actor in the queue
    hand,               \* the actor DeleteExecutor is handling
    executor,           \* where DeleteExecutor is
    detach,             \* parents that the actor being destroyed still refers to
    defer_count_, retries

actorVars == <<status, deleted_, shutdown_invoked_, delete_paused_>>
execVars  == <<hand, executor, detach, defer_count_>>
lifeVars == <<actorVars, actor_refcount_, dependents_, inUse, queue_, execVars, retries>>

LifeInit ==
    /\ status = [a \in Actors |-> "absent"]
    /\ deleted_ = [a \in Actors |-> FALSE]
    /\ actor_refcount_ = [a \in Actors |-> 0]
    /\ shutdown_invoked_ = [a \in Actors |-> FALSE]
    /\ delete_paused_ = [a \in Actors |-> FALSE]
    /\ dependents_ = [a \in Actors |-> {}]
    /\ inUse = {}
    /\ queue_ = [a \in Actors |-> 0]
    /\ hand = NoActor /\ executor = "idle" /\ detach = {}
    /\ defer_count_ = 0 /\ retries = 0

\* Mutant: the events are not counted.
EnqueueEventsUncounted(S) ==
    /\ queue_' = [a \in Actors |-> IF a \in S THEN queue_[a] + 1 ELSE queue_[a]]
    /\ UNCHANGED actor_refcount_

\* Count and enqueue one event of each actor of the set S.
EnqueueEvents(S) ==
    /\ actor_refcount_' =
          [a \in Actors |-> IF a \in S THEN actor_refcount_[a] + 1 ELSE actor_refcount_[a]]
    /\ queue_' = [a \in Actors |-> IF a \in S THEN queue_[a] + 1 ELSE queue_[a]]

-----------------------------------------------------------------------------
(* Any task.                                                               *)

\* A managed object is created and its LifetimeRefs added to its parents; the
\* assertion of DependencyAdd is the caller's obligation.
DependencyAdd(a) ==
    /\ status[a] = "absent"
    /\ \A p \in Parents[a] : status[p] = "alive" /\ ~deleted_[p]
    /\ status' = [status EXCEPT ![a] = "alive"]
    /\ dependents_' = [p \in Actors |-> IF p \in Parents[a] THEN dependents_[p] \cup {a}
                                        ELSE dependents_[p]]
    /\ UNCHANGED <<deleted_, shutdown_invoked_, delete_paused_, actor_refcount_, inUse, queue_,
                   execVars, retries>>

\* Delete(): only the first call has an effect.
Delete(a) ==
    /\ status[a] = "alive" /\ ~deleted_[a]
    /\ deleted_' = [deleted_ EXCEPT ![a] = TRUE]
    /\ EnqueueEvents({a})
    /\ UNCHANGED <<status, shutdown_invoked_, delete_paused_, dependents_, inUse,
                   execVars, retries>>

\* The object gets a lightweight dependent.
Use(a) ==
    /\ status[a] = "alive" /\ ~deleted_[a]
    /\ inUse' = inUse \cup {a}
    /\ UNCHANGED <<actorVars, actor_refcount_, dependents_, queue_, execVars, retries>>

\* The last lightweight dependent goes, and RetryDelete() posts an event if the
\* actor is deleted.
EndUse(a) ==
    /\ a \in inUse
    /\ inUse' = inUse \ {a}
    /\ EnqueueEvents(IF deleted_[a] THEN {a} ELSE {})
    /\ UNCHANGED <<actorVars, dependents_, execVars, retries>>

\* RetryDelete() by a caller that still has a hold on the object: a lightweight
\* dependent or a dependent actor.
RetryDelete(a) ==
    /\ status[a] = "alive" /\ deleted_[a]
    /\ a \in inUse \/ dependents_[a] # {}
    /\ retries + defer_count_ < MaxExtra
    /\ retries' = retries + 1
    /\ EnqueueEvents({a})
    /\ UNCHANGED <<actorVars, dependents_, inUse, execVars>>

PauseDelete(a) ==
    /\ status[a] = "alive" /\ ~deleted_[a]
    /\ delete_paused_' = [delete_paused_ EXCEPT ![a] = TRUE]
    /\ UNCHANGED <<status, deleted_, shutdown_invoked_, actor_refcount_, dependents_, inUse,
                   queue_, execVars, retries>>

\* ResumeDelete(): an actor that was paused when it was deleted; posts an event.
ResumeDelete(a) ==
    /\ status[a] = "alive" /\ deleted_[a] /\ delete_paused_[a]
    /\ delete_paused_' = [delete_paused_ EXCEPT ![a] = FALSE]
    /\ EnqueueEvents({a})
    /\ UNCHANGED <<status, deleted_, shutdown_invoked_, dependents_, inUse, execVars,
                   retries>>

-----------------------------------------------------------------------------
(* The LifetimeManager's task.                                             *)

\* The WorkQueue hands an event to DeleteExecutor.
Dequeue(a) ==
    /\ executor = "idle" /\ queue_[a] > 0
    /\ queue_' = [queue_ EXCEPT ![a] = @ - 1]
    /\ hand' = a
    /\ executor' = IF shutdown_invoked_[a] THEN "may" ELSE "propagate"
    /\ UNCHANGED <<actorVars, actor_refcount_, dependents_, inUse, detach, defer_count_, retries>>

\* Mutant: the delete is not propagated.
PropagateDeleteNot ==
    /\ executor = "propagate"
    /\ executor' = "shutdown"
    /\ UNCHANGED <<actorVars, actor_refcount_, dependents_, inUse, queue_, hand, detach,
                   defer_count_, retries>>

\* PropagateDelete(): Delete() of each dependent.
PropagateDelete ==
    LET cascade == {d \in dependents_[hand] : ~deleted_[d]}
    IN  /\ executor = "propagate"
        /\ deleted_' = [a \in Actors |-> deleted_[a] \/ a \in cascade]
        /\ EnqueueEvents(cascade)
        /\ executor' = "shutdown"
        /\ UNCHANGED <<status, shutdown_invoked_, delete_paused_, dependents_, inUse, hand,
                       detach, defer_count_, retries>>

\* Shutdown(), which the derived class implements, and shutdown_invoked_.
Shutdown ==
    /\ executor = "shutdown"
    /\ shutdown_invoked_' = [shutdown_invoked_ EXCEPT ![hand] = TRUE]
    /\ executor' = "may"
    /\ UNCHANGED <<status, deleted_, delete_paused_, actor_refcount_, dependents_, inUse, queue_,
                   hand, detach, defer_count_, retries>>

\* MayDestroy() is false: the event goes back to the queue with its count.
Defer ==
    /\ executor = "may"
    /\ retries + defer_count_ < MaxExtra
    /\ defer_count_' = defer_count_ + 1
    /\ queue_' = [queue_ EXCEPT ![hand] = @ + 1]
    /\ executor' = "idle" /\ hand' = NoActor
    /\ UNCHANGED <<actorVars, actor_refcount_, dependents_, inUse, detach, retries>>

\* Mutant: a dependent does not count.
MayDestroyActorAlone(a) == actor_refcount_[a] = 1 /\ ~delete_paused_[a] /\ a \notin inUse

\* The test of ReferenceDecrementAndTest(), before the decrement.
MayDestroyActor(a) ==
    /\ actor_refcount_[a] = 1
    /\ dependents_[a] = {}
    /\ ~delete_paused_[a]
    /\ a \notin inUse

ReferenceDecrementAndTest ==
    /\ executor = "may"
    /\ actor_refcount_' = [actor_refcount_ EXCEPT ![hand] = @ - 1]
    /\ \/ /\ MayDestroyActor(hand)
          /\ executor' = "destroy"
          /\ detach' = Parents[hand]
          /\ UNCHANGED hand
       \/ /\ ~MayDestroyActor(hand)
          /\ executor' = "idle" /\ hand' = NoActor
          /\ UNCHANGED detach
    /\ UNCHANGED <<actorVars, dependents_, inUse, queue_, defer_count_, retries>>

\* Destroy() of the object destroys its LifetimeRefs one after the other; the
\* last dependent of a deleted parent posts an event for the parent.
DependencyRemove(p) ==
    /\ executor = "destroy" /\ p \in detach
    /\ detach' = detach \ {p}
    /\ dependents_' = [dependents_ EXCEPT ![p] = @ \ {hand}]
    /\ EnqueueEvents(IF deleted_[p] /\ dependents_[p] \ {hand} = {} THEN {p} ELSE {})
    /\ UNCHANGED <<actorVars, inUse, hand, executor, defer_count_, retries>>

\* The rest of Destroy(): ~LifetimeActor.
Destroy ==
    /\ executor = "destroy" /\ detach = {}
    /\ status' = [status EXCEPT ![hand] = "destroyed"]
    /\ executor' = "idle" /\ hand' = NoActor
    /\ UNCHANGED <<deleted_, shutdown_invoked_, delete_paused_, actor_refcount_, dependents_,
                   inUse, queue_, detach, defer_count_, retries>>

DeleteExecutor ==
    \/ PropagateDelete
    \/ Shutdown
    \/ Defer
    \/ ReferenceDecrementAndTest
    \/ \E p \in Actors : DependencyRemove(p)
    \/ Destroy

LifeNext ==
    \/ \E a \in Actors :
          \/ DependencyAdd(a) \/ Delete(a)
          \/ Use(a) \/ EndUse(a) \/ RetryDelete(a)
          \/ PauseDelete(a) \/ ResumeDelete(a)
          \/ Dequeue(a)
    \/ DeleteExecutor

LifeSpec == LifeInit /\ [][LifeNext]_lifeVars

\* The manager's task runs, every event is handled, lightweight dependents of a
\* deleted actor go, and a paused delete is resumed.
LifeFairness ==
    /\ WF_lifeVars(DeleteExecutor)
    /\ \A a \in Actors :
          /\ SF_lifeVars(Dequeue(a))
          /\ WF_lifeVars(EndUse(a) \/ ResumeDelete(a))

LifeFairSpec == LifeSpec /\ LifeFairness

-----------------------------------------------------------------------------
(* Properties.                                                             *)

\* LifeTypeOK: the types of the members of LifetimeActor and LifetimeManager.
LifeTypeOK ==
    /\ status \in [Actors -> {"absent", "alive", "destroyed"}]
    /\ deleted_ \in [Actors -> BOOLEAN]
    /\ actor_refcount_ \in [Actors -> Nat]
    /\ shutdown_invoked_ \in [Actors -> BOOLEAN]
    /\ delete_paused_ \in [Actors -> BOOLEAN]
    /\ dependents_ \in [Actors -> SUBSET Actors]
    /\ inUse \subseteq Actors
    /\ queue_ \in [Actors -> Nat]
    /\ hand \in Actors \cup {NoActor}
    /\ executor \in {"idle", "propagate", "shutdown", "may", "destroy"}
    /\ detach \subseteq Actors
    /\ defer_count_ \in Nat /\ retries \in Nat

\* EventsCounted: actor_refcount_ is the number of delete events of the actor, in the
\* queue or in DeleteExecutor's hand before the decrement.
EventsCounted ==
    \A a \in Actors :
        actor_refcount_[a] = queue_[a] + (IF hand = a /\ executor # "destroy" THEN 1 ELSE 0)

\* DestroyedUnreferenced: an actor is destroyed with no event, no dependent and
\* no lightweight dependent left, so no event ever refers to freed memory and
\* the assertions of ~LifetimeActor hold.
DestroyedUnreferenced ==
    \A a \in Actors :
        status[a] = "destroyed" \/ (hand = a /\ executor = "destroy") =>
            /\ queue_[a] = 0 /\ actor_refcount_[a] = 0
            /\ dependents_[a] = {}
            /\ a \notin inUse /\ ~delete_paused_[a]
            /\ deleted_[a] /\ shutdown_invoked_[a]

\* BottomUp: "object deletes are triggered from top to bottom while object
\* destruction happens in the reverse order": an object outlives its dependents,
\* and is destroyed only after its delete was propagated to all of them.
BottomUp ==
    \A a \in Actors : \A p \in Parents[a] :
        /\ status[a] = "alive" => status[p] = "alive"
        /\ shutdown_invoked_[p] /\ status[a] # "absent" => deleted_[a]

\* NoLostDelete: a deleted actor that nothing holds back has an event that will
\* destroy it.
NoLostDelete ==
    \A a \in Actors :
        /\ status[a] = "alive" /\ deleted_[a]
        /\ dependents_[a] = {} /\ ~delete_paused_[a] /\ a \notin inUse
        => queue_[a] > 0 \/ hand = a

\* An actor that does not exist has no state.
AbsentClean ==
    \A a \in Actors :
        status[a] = "absent" =>
            /\ ~deleted_[a] /\ ~shutdown_invoked_[a]
            /\ queue_[a] = 0 /\ a \notin inUse /\ dependents_[a] = {}

\* dependents_ are the living actors that refer to p, but for the one that is
\* being destroyed and has let go of p.
DependentsExact ==
    \A p, a \in Actors :
        a \in dependents_[p] <=>
            /\ p \in Parents[a]
            /\ status[a] = "alive"
            /\ hand = a /\ executor = "destroy" => p \in detach

\* DeleteExecutor handles a living, deleted actor.
ExecutorState ==
    /\ hand = NoActor <=> executor = "idle"
    /\ hand # NoActor => status[hand] = "alive" /\ deleted_[hand]
    /\ executor \in {"may", "destroy"} => shutdown_invoked_[hand]
    /\ executor = "shutdown" => \A d \in dependents_[hand] : deleted_[d]
    /\ executor = "destroy" => detach \subseteq Parents[hand]

\* Only deleted actors have events or are shut down.
EventsOfDeleted ==
    \A a \in Actors : queue_[a] > 0 \/ shutdown_invoked_[a] => deleted_[a]

\* LifeInv: the inductive invariant: the dependents and the events of an actor are
\* exactly those the code can still reach.
LifeInv ==
    /\ LifeTypeOK /\ EventsCounted /\ AbsentClean /\ DependentsExact /\ ExecutorState
    /\ EventsOfDeleted /\ DestroyedUnreferenced /\ BottomUp /\ NoLostDelete

\* DeletedDestroyed: an actor that is deleted is destroyed at last, after all
\* that depends on it.
DeletedDestroyed == \A a \in Actors : deleted_[a] ~> status[a] = "destroyed"
=============================================================================
