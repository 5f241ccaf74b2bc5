---------------------------- MODULE ZookeeperLock ----------------------------
(***************************************************************************)
(* zookeeper/zookeeper_client.cc: ZookeeperLock, a lock between hosts that *)
(* is held by the host whose name is the data of a persistent znode.       *)
(* Requests are retried when their answer is lost.                         *)
(***************************************************************************)
EXTENDS Naturals

CONSTANTS
    Hosts,
    NoNode,       \* the znode does not exist
    MaxCrashes    \* bound on the crashes of processes

ASSUME LockAssumption ==
    /\ NoNode \notin Hosts
    /\ MaxCrashes \in Nat

VARIABLES
    znode,        \* the data of the lock's znode
    host,         \* where a host is in Lock() or Release()
    is_acquired_,
    overrun,      \* has a repeated delete removed the znode of another host?
    crashes

lockVars == <<znode, host, is_acquired_, overrun, crashes>>

LockInit ==
    /\ znode \in Hosts \cup {NoNode}
    /\ host = [h \in Hosts |-> "idle"]
    /\ is_acquired_ = [h \in Hosts |-> FALSE]
    /\ overrun = FALSE
    /\ crashes = 0

At(h, from, to) == host[h] = from /\ host' = [host EXCEPT ![h] = to]

\* Lock(): Connect() blocks until there is a session.
Lock(h) == At(h, "idle", "create") /\ UNCHANGED <<znode, is_acquired_, overrun, crashes>>

Acquire(h, from) ==
    /\ At(h, from, "idle")
    /\ is_acquired_' = [is_acquired_ EXCEPT ![h] = TRUE]

\* The call fails with an error that is not retried and shuts the client down.
Fail(h, from) == At(h, from, "idle") /\ UNCHANGED <<znode, is_acquired_>>

\* A recoverable error (ZCONNECTIONLOSS, ZOPERATIONTIMEOUT) of a request that
\* the server has executed: it is sent again.  (One that the server has not
\* executed, a get, or an expired session, after which Reconnect() opens a new
\* one, changes nothing.)
Retry(h, from, to) == At(h, from, to) /\ UNCHANGED is_acquired_

\* Mutant: ZNODEEXISTS counts as success, as in ZookeeperClientImpl::CreateNode.
CreateNodeSyncExists(h) ==
    /\ \/ znode' = (IF znode = NoNode THEN h ELSE znode) /\ Acquire(h, "create")
       \/ Fail(h, "create")
    /\ UNCHANGED <<overrun, crashes>>

\* CreateNodeSync() in Lock().
CreateNodeSync(h) ==
    /\ \/ znode = NoNode /\ znode' = h /\ Acquire(h, "create")
       \/ znode = NoNode /\ znode' = h /\ Retry(h, "create", "create")
       \/ znode # NoNode /\ At(h, "create", "get") /\ UNCHANGED <<znode, is_acquired_>>
       \/ Fail(h, "create")
    /\ UNCHANGED <<overrun, crashes>>

\* Mutant: an existing znode is taken for our own.
GetNodeDataSyncAny(h) ==
    /\ \/ znode # NoNode /\ Acquire(h, "get") /\ UNCHANGED znode
       \/ Fail(h, "get")
    /\ UNCHANGED <<overrun, crashes>>

\* Mutant: a znode of ours is taken for a foreign one.
GetNodeDataSyncNever(h) ==
    /\ \/ At(h, "get", "create") /\ UNCHANGED <<znode, is_acquired_>>
       \/ Fail(h, "get")
    /\ UNCHANGED <<overrun, crashes>>

\* GetNodeDataSync(): the znode is ours (from a lost answer, or from before a
\* crash), or Lock() tries again after a second.
GetNodeDataSync(h) ==
    /\ \/ znode = h /\ Acquire(h, "get") /\ UNCHANGED znode
       \/ znode # h /\ At(h, "get", "create") /\ UNCHANGED <<znode, is_acquired_>>
       \/ Fail(h, "get")
    /\ UNCHANGED <<overrun, crashes>>

\* Release(); without Lock() it only shuts the client down.
Release(h) ==
    /\ is_acquired_[h] /\ At(h, "idle", "delete")
    /\ is_acquired_' = [is_acquired_ EXCEPT ![h] = FALSE]
    /\ UNCHANGED <<znode, overrun, crashes>>

\* DeleteNodeSync() in Release(), of any version and so of any owner; an error
\* leaves the znode.
DeleteNodeSync(h) ==
    /\ \/ znode' = NoNode /\ At(h, "delete", "idle") /\ UNCHANGED is_acquired_
       \/ znode' = NoNode /\ Retry(h, "delete", "redelete")
       \/ Fail(h, "delete")
    /\ UNCHANGED <<overrun, crashes>>

\* The delete again, after its answer was lost: the znode, if there is one now, is
\* another host's.
RepeatDeleteNodeSync(h) ==
    /\ \/ znode' = NoNode /\ At(h, "redelete", "idle") /\ UNCHANGED is_acquired_
          /\ overrun' = (overrun \/ znode # NoNode)
       \/ znode' = NoNode /\ Retry(h, "redelete", "redelete")
          /\ overrun' = (overrun \/ znode # NoNode)
       \/ Fail(h, "redelete") /\ UNCHANGED overrun
    /\ UNCHANGED crashes

\* A process ends anywhere and starts anew; its znode is persistent.
Crash(h) ==
    /\ crashes < MaxCrashes /\ crashes' = crashes + 1
    /\ host' = [host EXCEPT ![h] = "idle"]
    /\ is_acquired_' = [is_acquired_ EXCEPT ![h] = FALSE]
    /\ UNCHANGED <<znode, overrun>>

LockStep(h) ==
    \/ CreateNodeSync(h)
    \/ GetNodeDataSync(h)
    \/ DeleteNodeSync(h)
    \/ RepeatDeleteNodeSync(h)

LockNext == \E h \in Hosts : Lock(h) \/ Release(h) \/ LockStep(h) \/ Crash(h)

LockSpec == LockInit /\ [][LockNext]_lockVars

\* A call goes on, its requests succeed in the end; hosts come back for the lock
\* and give it back.
LockFairness ==
    \A h \in Hosts :
        /\ WF_lockVars(LockStep(h)) /\ WF_lockVars(~is_acquired_[h] /\ Lock(h))
        /\ SF_lockVars(Release(h))
        /\ SF_lockVars(Acquire(h, "create") /\ CreateNodeSync(h))
        /\ SF_lockVars(At(h, "create", "get") /\ CreateNodeSync(h))
        /\ SF_lockVars(Acquire(h, "get") /\ GetNodeDataSync(h))

LockFairSpec == LockSpec /\ LockFairness

-----------------------------------------------------------------------------
(* Properties.                                                             *)

\* The types of the znode and of the members of ZookeeperLockImpl.
LockTypeOK ==
    /\ znode \in Hosts \cup {NoNode}
    /\ host \in [Hosts -> {"idle", "create", "get", "delete", "redelete"}]
    /\ is_acquired_ \in [Hosts -> BOOLEAN]
    /\ overrun \in BOOLEAN
    /\ crashes \in 0 .. MaxCrashes

\* The holder's name is in the znode as long as it holds the lock.
HolderOwnsNode == \A h \in Hosts : is_acquired_[h] => znode = h

\* ZookeeperLock is "for distributed synchronization" (zookeeper_client.h): two
\* hosts never hold it at once.  (They may: the delete of Release() is sent again
\* with version -1, and may remove the znode of the next holder.)
Exclusive == \A g, h \in Hosts : is_acquired_[g] /\ is_acquired_[h] => g = h

\* ExclusiveUnlessOverrun: nothing but a delete that was repeated and met the znode
\* of the next holder makes two hosts hold the lock at once: no crash, no lost
\* answer to a create, no failed call, and no lost answer to a delete whose retry
\* comes before the next create.
ExclusiveUnlessOverrun == ~overrun => Exclusive

\* The inductive invariant: until such a delete a holder owns the znode, and so
\* does a host that is about to delete it, which holds no lock any more.
LockInv ==
    /\ LockTypeOK
    /\ ~overrun =>
          /\ HolderOwnsNode
          /\ \A h \in Hosts : host[h] = "delete" => znode = h /\ ~is_acquired_[h]

\* A host that waits in Lock() does not wait for ever for all of them: some host
\* gets the lock, also when the znode was left by a crash or an error.
LockProgress ==
    (\E h \in Hosts : host[h] \in {"create", "get"}) ~> (\E h \in Hosts : is_acquired_[h])
=============================================================================
