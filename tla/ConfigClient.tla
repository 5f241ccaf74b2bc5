----------------------------- MODULE ConfigClient -----------------------------
(***************************************************************************)
(* config-client-mgr: ConfigClientManager starts and restarts (reinit) a   *)
(* cassandra client, which reads all objects in bulk, and an AMQP client,  *)
(* whose RabbitMQReader task then follows the changes.  The tasks are kept *)
(* apart by the policy of SetDefaultSchedulingPolicy.                      *)
(***************************************************************************)
EXTENDS Integers, Sequences, FiniteSetsExt

CONSTANTS
    Partitions,
    UUIDs,                \* positive numbers: a std::map orders by key
    HashUUID,             \* UUIDs -> Partitions
    NumReadRequestToBunch, MaxRequestsToYield, MaxIterations,
    Callers,              \* threads that call ReinitConfigClient
    MaxReinits,           \* bound on the calls of ReinitConfigClient
    MaxWrites,            \* bound on the changes of the database
    MaxQueue              \* bound on the requests waiting in a WorkQueue

EndUUID == 0   \* the key "" of EndOfConfig, which sorts before every UUID
Keys == UUIDs \cup {EndUUID}

Configured ==
    /\ UUIDs \subseteq Nat \ {0} /\ IsFiniteSet(UUIDs)
    /\ HashUUID \in [UUIDs -> Partitions]
    /\ IsFiniteSet(Partitions) /\ Partitions # {} /\ IsFiniteSet(Callers)
    /\ NumReadRequestToBunch \in Nat \ {0} /\ MaxRequestsToYield \in Nat \ {0}
    /\ MaxIterations \in Nat \ {0}
    /\ MaxReinits \in Nat /\ MaxWrites \in Nat /\ MaxQueue \in Nat

ASSUME ConfigAssumption == Configured

VARIABLES
    \* ConfigClientManager
    reinit_triggered_, end_of_rib_computed_, generation_number_,
    init,                 \* the task of init_trigger_: how far InitConfigClient is
    caller, reinits,      \* the threads in ReinitConfigClient
    \* ConfigAmqpClient and the broker's queue
    amqp,                 \* the RabbitMQReader task
    bound, messages,
    \* ConfigCassandraClient
    bulk_sync_status_, fq_name_reader_, column_name, fq_name_cache_,
    \* ConfigCassandraPartition
    obj_process_queue_, uuid_read_set_, config_reader_, object_cache_map_,
    \* the database and the process that writes it
    db, writes, publishing

mgrVars == <<reinit_triggered_, end_of_rib_computed_, generation_number_>>
callVars == <<caller, reinits>>
amqpVars == <<amqp, bound, messages>>
fqVars == <<fq_name_reader_, column_name>>
partVars == <<obj_process_queue_, uuid_read_set_, config_reader_, object_cache_map_>>
dbVars == <<db, writes, publishing>>
vars == <<mgrVars, init, callVars, amqpVars, bulk_sync_status_, fqVars, fq_name_cache_,
          partVars, dbVars>>

NoRequest == [oper |-> "none", uuid |-> EndUUID]
NotRunning == [pc |-> "none", it |-> -1, bunch |-> {}, handled |-> 0]

\* A cassandra client as its constructor leaves it.
FreshClient ==
    /\ bulk_sync_status_' = 0
    /\ fq_name_reader_' = "none" /\ column_name' = 0
    /\ fq_name_cache_' = [u \in UUIDs |-> "none"]
    /\ obj_process_queue_' = [p \in Partitions |-> <<>>]
    /\ uuid_read_set_' = [p \in Partitions |-> [k \in Keys |-> "none"]]
    /\ config_reader_' = [p \in Partitions |-> NotRunning]
    /\ object_cache_map_' = [u \in UUIDs |-> 0]

\* SetUp() and Initialize(): the manager's first Init task is queued.
Init ==
    /\ reinit_triggered_ = FALSE /\ end_of_rib_computed_ = FALSE
    /\ generation_number_ = 0 /\ init = "queued"
    /\ caller = [c \in Callers |-> "idle"] /\ reinits = 0
    /\ amqp = "none" /\ bound = FALSE /\ messages = <<>>
    /\ bulk_sync_status_ = 0
    /\ fq_name_reader_ = "none" /\ column_name = 0
    /\ fq_name_cache_ = [u \in UUIDs |-> "none"]
    /\ obj_process_queue_ = [p \in Partitions |-> <<>>]
    /\ uuid_read_set_ = [p \in Partitions |-> [k \in Keys |-> "none"]]
    /\ config_reader_ = [p \in Partitions |-> NotRunning]
    /\ object_cache_map_ = [u \in UUIDs |-> 0]
    /\ db \in [UUIDs -> 0 .. 1]
    /\ writes = 0 /\ publishing = NoRequest

-----------------------------------------------------------------------------
(* The policy: which tasks are running, and what may start beside them.    *)

InitRunning == init \notin {"none", "queued"}
AmqpRunning == amqp \notin {"none", "queued"}
FQNameReaderRunning == fq_name_reader_ \notin {"none", "queued"}
ReaderRunning(p) == config_reader_[p].pc = "scan"

\* Mutant: the Init task is not excluded from amqp::RabbitMQReader.
InitMayStartBesideAmqp ==
    ~FQNameReaderRunning /\ \A p \in Partitions : ~ReaderRunning(p)

InitMayStart ==
    ~AmqpRunning /\ ~FQNameReaderRunning /\ \A p \in Partitions : ~ReaderRunning(p)
FQNameReaderMayStart == ~InitRunning /\ \A p \in Partitions : ~ReaderRunning(p)
ReaderMayStart == ~InitRunning /\ ~FQNameReaderRunning
ObjectProcessorMayStart(p) == ~InitRunning /\ ~ReaderRunning(p)

-----------------------------------------------------------------------------
(* ConfigClientManager: the Init task and ReinitConfigClient.              *)

\* TaskTrigger::Set() of init_trigger_.
SetInitTrigger == init' = IF init = "none" THEN "queued" ELSE init

\* The Init task ends or is recycled; the RabbitMQReader it has enqueued has
\* been deferred on it and starts before anything enqueued later.
InitExit(next) ==
    /\ init' = next
    /\ amqp' = IF amqp = "queued" THEN "run" ELSE amqp

InitStart ==
    /\ init = "queued" /\ InitMayStart
    /\ init' = "check"
    /\ UNCHANGED <<mgrVars, callVars, amqpVars, bulk_sync_status_, fqVars, fq_name_cache_,
                   partVars, dbVars>>

\* Mutant: pending triggers are not waited for.
IsTaskTriggeredNever == FALSE

IsTaskTriggered ==
    \/ fq_name_reader_ # "none"
    \/ \E p \in Partitions : config_reader_[p].pc # "none"

\* Mutant: end_of_rib_computed_ survives the reinit.
PostShutdownKeepsEnd ==
    /\ reinit_triggered_' = FALSE
    /\ UNCHANGED end_of_rib_computed_
    /\ generation_number_' = generation_number_ + 1
    /\ FreshClient

\* The clients are destroyed and new ones created for the next generation.
PostShutdown ==
    /\ reinit_triggered_' = FALSE
    /\ end_of_rib_computed_' = FALSE
    /\ generation_number_' = generation_number_ + 1
    /\ FreshClient

\* InitConfigClient(), first part.
InitConfigClient ==
    /\ init = "check"
    /\ \/ /\ ~reinit_triggered_
          /\ init' = "start"
          /\ UNCHANGED <<mgrVars, amqp, bulk_sync_status_, fqVars, fq_name_cache_, partVars>>
       \/ /\ reinit_triggered_ /\ IsTaskTriggered
          /\ InitExit("queued")
          /\ UNCHANGED <<mgrVars, bulk_sync_status_, fqVars, fq_name_cache_, partVars>>
       \/ /\ reinit_triggered_ /\ ~IsTaskTriggered
          /\ PostShutdown
          /\ init' = "start"
          /\ UNCHANGED amqp
    /\ UNCHANGED <<callVars, bound, messages, dbVars>>

\* StartRabbitMQReader(): the constructor of the task connects, in a loop that a
\* reinit ends, and deletes what an earlier queue holds.
StartRabbitMQReader ==
    /\ \/ init = "start" /\ reinit_triggered_ /\ init' = "db" /\ UNCHANGED amqpVars
       \/ init = "start" /\ ~reinit_triggered_ /\ init' = "connect" /\ UNCHANGED amqpVars
       \/ /\ init = "connect" /\ reinit_triggered_
          /\ init' = "db" /\ amqp' = "queued" /\ UNCHANGED <<bound, messages>>
       \/ /\ init = "connect" /\ ~reinit_triggered_
          /\ init' = "db" /\ amqp' = "queued" /\ bound' = TRUE /\ messages' = <<>>
    /\ UNCHANGED <<mgrVars, callVars, bulk_sync_status_, fqVars, fq_name_cache_, partVars, dbVars>>

\* InitDatabase(): retried until it succeeds and BulkDataSync() starts the
\* FQNameReader, or a reinit is triggered.
InitDatabase ==
    /\ init = "db" /\ init' = "final"
    /\ \/ /\ bulk_sync_status_' = Cardinality(Partitions)
          /\ fq_name_reader_' = IF fq_name_reader_ = "none" THEN "queued" ELSE fq_name_reader_
          /\ column_name' = 0
       \/ reinit_triggered_ /\ UNCHANGED <<bulk_sync_status_, fqVars>>
    /\ UNCHANGED <<mgrVars, callVars, amqpVars, fq_name_cache_, partVars, dbVars>>

\* InitConfigClient(), the last test: run again, or return true...
InitReturns ==
    /\ init = "final"
    /\ IF reinit_triggered_ THEN InitExit("queued") ELSE init' = "reset" /\ UNCHANGED amqp
    /\ UNCHANGED <<mgrVars, callVars, bound, messages, bulk_sync_status_, fqVars,
                   fq_name_cache_, partVars, dbVars>>

\* ... after which the TaskTrigger is reset.
InitReset ==
    /\ init = "reset"
    /\ InitExit("none")
    /\ UNCHANGED <<mgrVars, callVars, bound, messages, bulk_sync_status_, fqVars,
                   fq_name_cache_, partVars, dbVars>>

\* cond_var_.notify_all().
Notified == IF amqp = "waiting" THEN "woken" ELSE amqp

\* ReinitConfigClient(), by any thread: it notifies, sets the flag, and sets the
\* trigger.
CallStep(c, from, to) == caller[c] = from /\ caller' = [caller EXCEPT ![c] = to]

ReinitNotify(c) ==
    /\ CallStep(c, "idle", "flag")
    /\ reinits < MaxReinits /\ reinits' = reinits + 1
    /\ amqp' = Notified
    /\ UNCHANGED <<mgrVars, init, bound, messages, bulk_sync_status_, fqVars, fq_name_cache_,
                   partVars, dbVars>>

ReinitFlag(c) ==
    /\ CallStep(c, "flag", "set")
    /\ reinit_triggered_' = TRUE
    /\ UNCHANGED <<end_of_rib_computed_, generation_number_, init, reinits, amqpVars,
                   bulk_sync_status_, fqVars, fq_name_cache_, partVars, dbVars>>

ReinitSet(c) ==
    /\ CallStep(c, "set", "idle")
    /\ SetInitTrigger
    /\ UNCHANGED <<mgrVars, reinits, amqpVars, bulk_sync_status_, fqVars, fq_name_cache_,
                   partVars, dbVars>>

-----------------------------------------------------------------------------
(* ConfigAmqpClient: the RabbitMQReader task.                              *)

Enqueue(p, req) == Append(obj_process_queue_[p], req)

\* Run(): a reinit ends it at once, otherwise it waits for the end of the bulk
\* sync; "enter" is before end_of_rib_sync_mutex_ is locked.
AmqpRun ==
    /\ amqp = "run"
    /\ amqp' = IF reinit_triggered_ THEN "none" ELSE "enter"
    /\ UNCHANGED <<mgrVars, init, callVars, bound, messages, bulk_sync_status_, fqVars,
                   fq_name_cache_, partVars, dbVars>>

\* Mutant: the loop condition is not tested before the first wait.
WaitForEndOfConfigDoWhile ==
    /\ \/ amqp = "enter" /\ amqp' = "waiting"
       \/ amqp = "woken" /\ amqp' = IF reinit_triggered_ \/ end_of_rib_computed_ THEN "loop" ELSE "waiting"
       \/ amqp = "waiting" /\ amqp' = "woken"
    /\ UNCHANGED <<mgrVars, init, callVars, bound, messages, bulk_sync_status_, fqVars,
                   fq_name_cache_, partVars, dbVars>>

\* WaitForEndOfConfig(): the flag is tested only after a wait; a condition
\* variable may wake up spuriously.
WaitForEndOfConfig ==
    /\ \/ amqp = "enter" /\ amqp' = IF end_of_rib_computed_ THEN "loop" ELSE "waiting"
       \/ amqp = "woken" /\ amqp' = IF reinit_triggered_ \/ end_of_rib_computed_ THEN "loop" ELSE "waiting"
       \/ amqp = "waiting" /\ amqp' = "woken"
    /\ UNCHANGED <<mgrVars, init, callVars, bound, messages, bulk_sync_status_, fqVars,
                   fq_name_cache_, partVars, dbVars>>

AmqpStops ==
    /\ amqp = "loop" /\ reinit_triggered_
    /\ amqp' = "none"
    /\ UNCHANGED <<mgrVars, init, callVars, bound, messages, bulk_sync_status_, fqVars,
                   fq_name_cache_, partVars, dbVars>>

\* ProcessMessage(): the FQ name cache, then the request for the partition.
ProcessMessage(m) ==
    /\ fq_name_cache_' = [fq_name_cache_ EXCEPT ![m.uuid] =
          CASE m.oper = "DELETE" /\ @ # "none" -> "deleted"
            [] m.oper = "UPDATE" /\ @ = "none" -> "present"
            [] OTHER -> @]
    /\ LET p == HashUUID[m.uuid]
       IN  /\ Len(obj_process_queue_[p]) < MaxQueue
           /\ obj_process_queue_' = [obj_process_queue_ EXCEPT ![p] = Append(@, m)]

\* A message is acknowledged after it is processed; if the connection is lost
\* first, the queue is kept and the message delivered again.
AckOrReconnect == messages' \in {Tail(messages), messages}

ReceiveRabbitMessages ==
    /\ amqp = "loop" /\ ~reinit_triggered_ /\ messages # <<>>
    /\ ProcessMessage(Head(messages))
    /\ AckOrReconnect
    /\ UNCHANGED <<mgrVars, init, callVars, amqp, bound, bulk_sync_status_, fqVars,
                   uuid_read_set_, config_reader_, object_cache_map_, dbVars>>

-----------------------------------------------------------------------------
(* ConfigCassandraClient: the FQNameReader task.                           *)

FQNameReaderStart ==
    /\ fq_name_reader_ = "queued" /\ FQNameReaderMayStart
    /\ fq_name_reader_' = "read"
    /\ UNCHANGED <<mgrVars, init, callVars, amqpVars, bulk_sync_status_, column_name,
                   fq_name_cache_, partVars, dbVars>>

FQNameReaderAborts ==
    /\ fq_name_reader_ = "read" /\ reinit_triggered_
    /\ fq_name_reader_' = "none"
    /\ UNCHANGED <<mgrVars, init, callVars, amqpVars, bulk_sync_status_, column_name,
                   fq_name_cache_, partVars, dbVars>>

Unread == {u \in UUIDs : db[u] # 0 /\ u > column_name}

\* The next entry of the FQ name table: UpdateFQNameCache, EnqueueDBSyncRequest.
\* After a short last page the loop is left without another test of the flag.
FQNameReader ==
    /\ fq_name_reader_ = "read" /\ ~reinit_triggered_ /\ Unread # {}
    /\ LET u == Min(Unread)
           p == HashUUID[u]
       IN  /\ column_name' = u
           /\ fq_name_cache_' = [fq_name_cache_ EXCEPT ![u] = IF @ = "none" THEN "present" ELSE @]
           /\ Len(obj_process_queue_[p]) < MaxQueue
           /\ obj_process_queue_' =
                 [obj_process_queue_ EXCEPT ![p] = Append(@, [oper |-> "CREATE", uuid |-> u])]
           /\ fq_name_reader_' \in {"read"} \cup {x \in {"end"} : Unread = {u}}
    /\ UNCHANGED <<mgrVars, init, callVars, amqpVars, bulk_sync_status_,
                   uuid_read_set_, config_reader_, object_cache_map_, dbVars>>

FQNameReaderNoMore ==
    /\ fq_name_reader_ = "read" /\ ~reinit_triggered_ /\ Unread = {}
    /\ fq_name_reader_' = "end"
    /\ UNCHANGED <<mgrVars, init, callVars, amqpVars, bulk_sync_status_, column_name,
                   fq_name_cache_, partVars, dbVars>>

\* After the last type every partition is sent EndOfConfig.
FQNameReaderEnds ==
    /\ fq_name_reader_ = "end"
    /\ fq_name_reader_' = "none"
    /\ obj_process_queue_' =
          [p \in Partitions |-> Enqueue(p, [oper |-> "EndOfConfig", uuid |-> EndUUID])]
    /\ UNCHANGED <<mgrVars, init, callVars, amqpVars, bulk_sync_status_, column_name,
                   fq_name_cache_, uuid_read_set_, config_reader_, object_cache_map_, dbVars>>

-----------------------------------------------------------------------------
(* ConfigCassandraPartition: the ObjectProcessor queue and ConfigReader.   *)

Empty(set) == \A k \in Keys : set[k] = "none"
Without(set, S) == [k \in Keys |-> IF k \in S THEN "none" ELSE set[k]]

\* The requests of a batch for a key.
ForKey(batch, k) == {i \in DOMAIN batch : batch[i].uuid = k}

\* Mutant: a request for a UUID that has one already is dropped.
AddUUIDToRequestListKeeps(set, batch) ==
    [k \in Keys |-> IF set[k] # "none" \/ ForKey(batch, k) = {} THEN set[k]
                    ELSE batch[Min(ForKey(batch, k))].oper]

\* Request by request, one replaces the one its UUID has in the set: the last
\* of the batch stays.
AddUUIDToRequestList(set, batch) ==
    [k \in Keys |-> IF ForKey(batch, k) = {} THEN set[k]
                    ELSE batch[Max(ForKey(batch, k))].oper]

\* The set was empty: config_reader_ is set.
TriggerReader(p) ==
    IF Empty(uuid_read_set_[p]) /\ config_reader_[p].pc = "none"
    THEN [config_reader_ EXCEPT ![p].pc = "queued"] ELSE config_reader_

\* RequestHandler() for one run of the WorkQueue's task.
ObjectProcessor(p) ==
    /\ obj_process_queue_[p] # <<>> /\ ObjectProcessorMayStart(p)
    /\ LET n == Min({MaxIterations, Len(obj_process_queue_[p])})
           batch == SubSeq(obj_process_queue_[p], 1, n)
       IN  /\ uuid_read_set_' = [uuid_read_set_ EXCEPT ![p] =
                                    AddUUIDToRequestList(@, batch)]
           /\ obj_process_queue_' = [obj_process_queue_ EXCEPT ![p] =
                                        SubSeq(@, n + 1, Len(@))]
    /\ config_reader_' = TriggerReader(p)
    /\ UNCHANGED <<mgrVars, init, callVars, amqpVars, bulk_sync_status_, fqVars,
                   fq_name_cache_, object_cache_map_, dbVars>>

\* HandleObjectDelete(uuid, false): nothing without FQ name or cache entry.
Erased(S) == {u \in S : fq_name_cache_[u] # "none" /\ object_cache_map_[u] # 0}

HandleObjectDelete(S) ==
    /\ object_cache_map_' = [u \in UUIDs |-> IF u \in Erased(S) THEN 0 ELSE object_cache_map_[u]]
    /\ fq_name_cache_' = [u \in UUIDs |-> IF u \in Erased(S) THEN "none" ELSE fq_name_cache_[u]]

\* ReadObjUUIDTable(): rows found are stored, missing ones deleted.
ReadObjUUIDTable(S) ==
    LET stale == Erased({u \in S : db[u] = 0})
    IN  /\ object_cache_map_' = [u \in UUIDs |->
              IF u \in stale THEN 0
              ELSE IF u \in S /\ db[u] # 0 THEN db[u] ELSE object_cache_map_[u]]
        /\ fq_name_cache_' = [u \in UUIDs |-> IF u \in stale THEN "none" ELSE fq_name_cache_[u]]

\* EndOfConfig(), when the last partition is done.
BulkSyncDone ==
    /\ bulk_sync_status_' = bulk_sync_status_ - 1
    /\ end_of_rib_computed_' = (end_of_rib_computed_ \/ bulk_sync_status_ = 1)
    /\ amqp' = IF bulk_sync_status_ = 1 THEN Notified ELSE amqp

ConfigReaderStart(p) ==
    /\ config_reader_[p].pc = "queued" /\ ReaderMayStart
    /\ config_reader_' = [config_reader_ EXCEPT ![p].pc = "scan"]
    /\ UNCHANGED <<mgrVars, init, callVars, amqpVars, bulk_sync_status_, fqVars, fq_name_cache_,
                   obj_process_queue_, uuid_read_set_, object_cache_map_, dbVars>>

\* The function returns false and is called again...
Yield(p) == config_reader_' = [config_reader_ EXCEPT ![p] = [NotRunning EXCEPT !.pc = "queued"]]
\* ... or true, and the trigger is reset.
Done(p) == config_reader_' = [config_reader_ EXCEPT ![p] = NotRunning]

ConfigReaderStops(p) ==
    /\ ReaderRunning(p) /\ reinit_triggered_
    /\ uuid_read_set_' = [uuid_read_set_ EXCEPT ![p] = Without(@, Keys)]
    /\ Done(p)
    /\ UNCHANGED <<mgrVars, init, callVars, amqpVars, bulk_sync_status_, fqVars, fq_name_cache_,
                   obj_process_queue_, object_cache_map_, dbVars>>

\* The requests that the reader's iterator has not passed.
Pending(p) == {k \in Keys : uuid_read_set_[p][k] # "none" /\ k > config_reader_[p].it}
AtRequest(p, opers) ==
    /\ ReaderRunning(p) /\ ~reinit_triggered_ /\ Pending(p) # {}
    /\ uuid_read_set_[p][Min(Pending(p))] \in opers
Reads == {"CREATE", "UPDATE"}
Bunch(p) ==
    config_reader_[p].bunch \cup (IF AtRequest(p, Reads) THEN {Min(Pending(p))} ELSE {})
BunchComplete(p) == Cardinality(Pending(p)) <= 1 \/ Cardinality(Bunch(p)) = NumReadRequestToBunch

\* After n more requests: go on behind the current one, or yield.
Advance(p, n, yield) ==
    IF yield THEN Yield(p)
    ELSE config_reader_' = [config_reader_ EXCEPT ![p].it = Min(Pending(p)), ![p].bunch = {},
                                                  ![p].handled = @ + n]

\* A CREATE or UPDATE joins the bunch.
ConfigReaderBunches(p) ==
    /\ AtRequest(p, Reads) /\ ~BunchComplete(p)
    /\ config_reader_' = [config_reader_ EXCEPT ![p].it = Min(Pending(p)), ![p].bunch = Bunch(p)]
    /\ UNCHANGED <<mgrVars, init, callVars, amqpVars, bulk_sync_status_, fqVars, fq_name_cache_,
                   obj_process_queue_, uuid_read_set_, object_cache_map_, dbVars>>

\* The bunch is to be read: it is complete, or all requests are visited.
ReadDue(p) ==
    \/ AtRequest(p, Reads) /\ BunchComplete(p)
    \/ ReaderRunning(p) /\ ~reinit_triggered_ /\ Pending(p) = {} /\ Bunch(p) # {}

\* Db_GetMultiRow fails: everything is tried again.
ConfigReaderFails(p) ==
    /\ ReadDue(p)
    /\ Yield(p)
    /\ UNCHANGED <<mgrVars, init, callVars, amqpVars, bulk_sync_status_, fqVars, fq_name_cache_,
                   obj_process_queue_, uuid_read_set_, object_cache_map_, dbVars>>

\* RemoveObjReqEntries().
ReadDone(p) == uuid_read_set_' = [uuid_read_set_ EXCEPT ![p] = Without(@, Bunch(p))]

ConfigReaderReads(p) ==
    /\ ReadDue(p)
    /\ ReadObjUUIDTable(Bunch(p))
    /\ ReadDone(p)
    /\ LET n == Cardinality(Bunch(p))
       IN  IF Pending(p) = {} THEN Done(p)
           ELSE Advance(p, n, config_reader_[p].handled + n >= MaxRequestsToYield)
    /\ UNCHANGED <<mgrVars, init, callVars, amqpVars, bulk_sync_status_, fqVars,
                   obj_process_queue_, dbVars>>

RequestDone(p) ==
    /\ uuid_read_set_' = [uuid_read_set_ EXCEPT ![p] = Without(@, {Min(Pending(p))})]
    /\ IF config_reader_[p].handled + 1 = MaxRequestsToYield THEN Yield(p)
       ELSE config_reader_' = [config_reader_ EXCEPT ![p].it = Min(Pending(p)), ![p].handled = @ + 1]

ConfigReaderDeletes(p) ==
    /\ AtRequest(p, {"DELETE"})
    /\ HandleObjectDelete({Min(Pending(p))})
    /\ RequestDone(p)
    /\ UNCHANGED <<mgrVars, init, callVars, amqpVars, bulk_sync_status_, fqVars,
                   obj_process_queue_, dbVars>>

ConfigReaderEndOfConfig(p) ==
    /\ AtRequest(p, {"EndOfConfig"})
    /\ BulkSyncDone
    /\ RequestDone(p)
    /\ UNCHANGED <<reinit_triggered_, generation_number_, init, callVars, bound, messages, fqVars,
                   fq_name_cache_, obj_process_queue_, object_cache_map_, dbVars>>

\* Nothing is left: the assertion of ConfigReader is that the set is empty.
ConfigReaderReturns(p) ==
    /\ ReaderRunning(p) /\ ~reinit_triggered_ /\ Pending(p) = {} /\ Bunch(p) = {}
    /\ Done(p)
    /\ UNCHANGED <<mgrVars, init, callVars, amqpVars, bulk_sync_status_, fqVars, fq_name_cache_,
                   obj_process_queue_, uuid_read_set_, object_cache_map_, dbVars>>

-----------------------------------------------------------------------------
(* The writer of the database: a change is stored, then published.         *)

WriteObject(u) ==
    /\ publishing = NoRequest /\ writes < MaxWrites
    /\ writes' = writes + 1
    /\ \/ /\ db' = [db EXCEPT ![u] = writes + 2]
          /\ publishing' = [oper |-> "UPDATE", uuid |-> u]
       \/ /\ db[u] # 0 /\ db' = [db EXCEPT ![u] = 0]
          /\ publishing' = [oper |-> "DELETE", uuid |-> u]
    /\ UNCHANGED <<mgrVars, init, callVars, amqpVars, bulk_sync_status_, fqVars, fq_name_cache_,
                   partVars>>

\* The broker keeps it for this client once the client's queue is bound.
Publish ==
    /\ publishing # NoRequest
    /\ publishing' = NoRequest
    /\ messages' = IF bound THEN Append(messages, publishing) ELSE messages
    /\ UNCHANGED <<mgrVars, init, callVars, amqp, bound, bulk_sync_status_, fqVars, fq_name_cache_,
                   partVars, db, writes>>

-----------------------------------------------------------------------------
InitTask ==
    InitStart \/ InitConfigClient \/ StartRabbitMQReader \/ InitDatabase \/ InitReturns \/ InitReset
Reinit(c) == ReinitNotify(c) \/ ReinitFlag(c) \/ ReinitSet(c)
AmqpTask == AmqpRun \/ WaitForEndOfConfig \/ AmqpStops \/ ReceiveRabbitMessages
FQNameTask ==
    \/ FQNameReaderStart \/ FQNameReaderAborts \/ FQNameReader \/ FQNameReaderNoMore
    \/ FQNameReaderEnds
ReaderTask(p) ==
    \/ ConfigReaderStart(p) \/ ConfigReaderStops(p) \/ ConfigReaderBunches(p)
    \/ ConfigReaderReads(p) \/ ConfigReaderDeletes(p) \/ ConfigReaderEndOfConfig(p)
    \/ ConfigReaderReturns(p)

Next ==
    \/ InitTask \/ AmqpTask \/ FQNameTask
    \/ \E c \in Callers : Reinit(c)
    \/ \E p \in Partitions : ObjectProcessor(p) \/ ReaderTask(p) \/ ConfigReaderFails(p)
    \/ \E u \in UUIDs : WriteObject(u)
    \/ Publish

Spec == Init /\ [][Next]_vars

\* The scheduler runs the tasks, which go on by themselves (a condition variable
\* need not wake up by itself); connections and reads succeed in the end.
Fairness ==
    /\ WF_vars(InitTask)
    /\ \A c \in Callers : WF_vars(ReinitFlag(c)) /\ WF_vars(ReinitSet(c))
    /\ WF_vars(amqp # "waiting" /\ AmqpTask)
    /\ SF_vars(ReceiveRabbitMessages /\ messages' # messages)
    /\ WF_vars(FQNameTask)
    /\ \A p \in Partitions :
          WF_vars(ObjectProcessor(p)) /\ WF_vars(ReaderTask(p)) /\ SF_vars(ConfigReaderReads(p))
    /\ WF_vars(Publish)

FairSpec == Spec /\ Fairness

-----------------------------------------------------------------------------
(* Properties.                                                             *)

Opers == {"none", "CREATE", "UPDATE", "DELETE", "EndOfConfig"}
Requests == [oper : Opers, uuid : Keys]

\* The types of the members of the manager, the clients and the partitions.
TypeOK ==
    /\ reinit_triggered_ \in BOOLEAN /\ end_of_rib_computed_ \in BOOLEAN
    /\ generation_number_ \in 0 .. MaxReinits
    /\ init \in {"none", "queued", "check", "start", "connect", "db", "final", "reset"}
    /\ caller \in [Callers -> {"idle", "flag", "set"}] /\ reinits \in 0 .. MaxReinits
    /\ amqp \in {"none", "queued", "run", "enter", "waiting", "woken", "loop"}
    /\ bound \in BOOLEAN /\ messages \in Seq(Requests)
    /\ bulk_sync_status_ \in 0 .. Cardinality(Partitions)
    /\ fq_name_reader_ \in {"none", "queued", "read", "end"} /\ column_name \in UUIDs \cup {0}
    /\ fq_name_cache_ \in [UUIDs -> {"none", "present", "deleted"}]
    /\ obj_process_queue_ \in [Partitions -> Seq(Requests)]
    /\ uuid_read_set_ \in [Partitions -> [Keys -> Opers]]
    /\ config_reader_ \in [Partitions -> [pc : {"none", "queued", "scan"}, it : Keys \cup {-1},
                                          bunch : SUBSET UUIDs, handled : Nat]]
    /\ object_cache_map_ \in [UUIDs -> Nat] /\ db \in [UUIDs -> Nat]
    /\ writes \in 0 .. MaxWrites /\ publishing \in Requests

EndPending(p) ==
    \/ uuid_read_set_[p][EndUUID] # "none"
    \/ \E i \in DOMAIN obj_process_queue_[p] : obj_process_queue_[p][i].oper = "EndOfConfig"

\* AddUUIDToRequestList sets config_reader_ only when it finds uuid_read_set_
\* empty, and ConfigReader asserts that it leaves it empty: a partition never has
\* requests that no reader task will come for, whatever yields, failed reads and
\* reinits cut the reader short.
NoStrandedRequest ==
    \A p \in Partitions : Empty(uuid_read_set_[p]) \/ config_reader_[p].pc # "none"

\* EndOfConfig asserts that it is called once: bulk_sync_status_ counts the
\* partitions whose EndOfConfig is still on its way, in every generation, and the
\* end of the bulk sync is announced when the last one has arrived.
SyncAccounted ==
    /\ end_of_rib_computed_ => bulk_sync_status_ = 0
    /\ ~reinit_triggered_ =>
          /\ bulk_sync_status_ = IF fq_name_reader_ # "none" THEN Cardinality(Partitions)
                                 ELSE Cardinality({p \in Partitions : EndPending(p)})
          /\ init = "none" /\ bulk_sync_status_ = 0 => end_of_rib_computed_

\* A client's bulk sync is started once, on an untouched client: an Init task
\* that finds no reinit (two threads asked for one) cannot run beside or after
\* the client of the first.
BulkSyncOnce ==
    [][bulk_sync_status_' > bulk_sync_status_ =>
          /\ bulk_sync_status_ = 0 /\ ~end_of_rib_computed_ /\ fq_name_reader_ = "none"
          /\ \A p \in Partitions : obj_process_queue_[p] = <<>> /\ Empty(uuid_read_set_[p])]_vars

\* PostShutdown destroys the clients when no TaskTrigger of theirs is set (its
\* destructor asserts it) and no RabbitMQReader, which keeps a plain pointer to
\* its client, is left.
DestroyedIdle ==
    [][generation_number_' # generation_number_ =>
          /\ fq_name_reader_ = "none" /\ \A p \in Partitions : config_reader_[p].pc = "none"
          /\ amqp = "none"]_vars

\* Nothing is on its way to or in the client.
Quiet ==
    /\ end_of_rib_computed_ /\ ~reinit_triggered_ /\ amqp = "loop"
    /\ messages = <<>> /\ publishing = NoRequest
    /\ \A p \in Partitions : obj_process_queue_[p] = <<>> /\ Empty(uuid_read_set_[p])

\* HandleObjectDelete does nothing for an object without FQ name: if the row of
\* one is removed, it stays in the cache.
Unnamed(u) == db[u] = 0 /\ fq_name_cache_[u] = "none"
InStep(u) == object_cache_map_[u] = db[u] \/ Unnamed(u)

\* The object cache is what the database holds once all requests and messages
\* are processed: no change is lost between the bulk sync and the notifications
\* ("so that notification messages over rabbit mq are never missed"), nor by the
\* replacement of requests or messages delivered twice.  The one exception is an
\* object without FQ name.
Converged == Quiet => \A u \in UUIDs : InStep(u)

\* Unless a reinit is never served, the client catches up with every database
\* that is not changed for ever.
EventuallyConverged == <>[](~reinit_triggered_) => <>[](\A u \in UUIDs : InStep(u))

\* "Handle the UPDATE as a CREATE and add object to FQNameCache" (ProcessMessage):
\* an object that is cached has its FQ name, or no DELETE will find it.
CachedHasName ==
    Quiet => \A u \in UUIDs : object_cache_map_[u] # 0 => fq_name_cache_[u] # "none"

\* "The condition variable is triggered even in case of reinit. In such a case
\* wait is terminated and function returns" (WaitForEndOfConfig).
WaitEndsOnReinit == (amqp = "waiting" /\ reinit_triggered_) ~> amqp # "waiting"

\* "Reinit trigger ... to force re-reading of cassandra": after ReinitConfigClient
\* an Init task is on its way as long as the flag has not been served.
ReinitPending ==
    reinit_triggered_ /\ (\A c \in Callers : caller[c] = "idle") => init # "none"

\* "Once we have finished reading the complete cassandra DB" (EndOfConfig): when
\* the end is announced no object of the bulk sync is still to be read.
ReadBeforeEnd ==
    [][~end_of_rib_computed_ /\ end_of_rib_computed_' =>
          \A p \in Partitions : \A k \in Keys : uuid_read_set_[p][k] # "CREATE"]_vars

\* The partitions, their readers and the count of the bulk sync agree: no
\* request is stranded and every EndOfConfig is accounted for.
SyncState == TypeOK /\ NoStrandedRequest /\ SyncAccounted

-----------------------------------------------------------------------------
(* The inductive invariant behind the properties above.                    *)

EndRequest == [oper |-> "EndOfConfig", uuid |-> EndUUID]
Changes == [oper : {"UPDATE", "DELETE"}, uuid : UUIDs]
ObjectRequests == [oper : Reads \cup {"DELETE"}, uuid : UUIDs]

\* What travels where: every request is on the partition of its UUID.
RequestTypes ==
    /\ messages \in Seq(Changes) /\ publishing \in Changes \cup {NoRequest}
    /\ obj_process_queue_ \in [Partitions -> Seq(ObjectRequests \cup {EndRequest})]
    /\ \A p \in Partitions :
          /\ uuid_read_set_[p][EndUUID] \in {"none", "EndOfConfig"}
          /\ \A u \in UUIDs :
                /\ uuid_read_set_[p][u] # "EndOfConfig"
                /\ uuid_read_set_[p][u] # "none" => HashUUID[u] = p
                /\ \A i \in DOMAIN obj_process_queue_[p] :
                      obj_process_queue_[p][i].uuid = u => HashUUID[u] = p

\* A generation takes a call of ReinitConfigClient of its own.
GenerationState ==
    generation_number_ + (IF reinit_triggered_ THEN 1 ELSE 0)
       + Cardinality({c \in Callers : caller[c] = "flag"}) <= reinits

\* Which tasks the policy keeps apart.
TaskState ==
    /\ amqp = "queued" => init \in {"db", "final", "reset"}
    /\ AmqpRunning => init \in {"none", "queued"}
    /\ InitRunning => ~FQNameReaderRunning /\ \A p \in Partitions : ~ReaderRunning(p)
    /\ FQNameReaderRunning => \A p \in Partitions : ~ReaderRunning(p)

Fresh ==
    /\ bulk_sync_status_ = 0 /\ ~end_of_rib_computed_ /\ fq_name_reader_ = "none"
    /\ \A p \in Partitions :
          /\ obj_process_queue_[p] = <<>> /\ Empty(uuid_read_set_[p])
          /\ config_reader_[p].pc = "none"
    /\ \A u \in UUIDs : object_cache_map_[u] = 0

\* How far a client is that no reinit will replace.
ClientState ==
    /\ init \in {"start", "connect", "db"} => Fresh
    /\ messages # <<>> => bound
    /\ ~reinit_triggered_ =>
          /\ amqp = "none" => Fresh /\ init \in {"queued", "check", "start", "connect"}
          /\ amqp # "none" => bound
          /\ init \in {"final", "reset"} => fq_name_reader_ # "none"
          /\ AmqpRunning /\ bulk_sync_status_ = 0 => end_of_rib_computed_
          /\ amqp = "loop" => end_of_rib_computed_

\* Every partition gets one EndOfConfig, after the FQ names are read.
EndState ==
    ~reinit_triggered_ =>
       /\ fq_name_reader_ # "none" => \A p \in Partitions : ~EndPending(p)
       /\ \A p \in Partitions : \A i \in DOMAIN obj_process_queue_[p] :
             obj_process_queue_[p][i].oper = "EndOfConfig" =>
                /\ uuid_read_set_[p][EndUUID] = "none"
                /\ \A j \in DOMAIN obj_process_queue_[p] :
                      obj_process_queue_[p][j].oper = "EndOfConfig" => j = i

\* The reader's iterator leaves behind the requests of its bunch and no others.
ReaderState ==
    \A p \in Partitions :
        /\ ~ReaderRunning(p) => config_reader_[p].it = -1
        /\ \A k \in Keys :
              k \in config_reader_[p].bunch <=> uuid_read_set_[p][k] # "none" /\ k <= config_reader_[p].it

\* The requests and the messages for an object.
RequestOf(u) == uuid_read_set_[HashUUID[u]][u]
QueueOf(u) == obj_process_queue_[HashUUID[u]]
Queued(u) == \E i \in DOMAIN QueueOf(u) : QueueOf(u)[i].uuid = u
Announced(u) == publishing.uuid = u \/ \E i \in DOMAIN messages : messages[i].uuid = u

\* A DELETE on its way is true of the database, or not the last word.
DeletesFollowed ==
    /\ publishing.oper = "DELETE" => db[publishing.uuid] = 0
    /\ \A i \in DOMAIN messages :
          messages[i].oper = "DELETE" =>
             \/ db[messages[i].uuid] = 0 \/ publishing.uuid = messages[i].uuid
             \/ \E j \in DOMAIN messages : j > i /\ messages[j].uuid = messages[i].uuid
    /\ ~reinit_triggered_ => \A u \in UUIDs :
          /\ RequestOf(u) = "DELETE" => db[u] = 0 \/ Announced(u) \/ Queued(u)
          /\ \A i \in DOMAIN QueueOf(u) :
                QueueOf(u)[i].uuid = u /\ QueueOf(u)[i].oper = "DELETE" =>
                   \/ db[u] = 0 \/ Announced(u)
                   \/ \E j \in DOMAIN QueueOf(u) : j > i /\ QueueOf(u)[j].uuid = u

\* The bulk sync will still come to the object.
Unscanned(u) == init = "db" \/ (fq_name_reader_ \in {"queued", "read"} /\ u > column_name)

\* An object is read by the bulk sync, or asked for, or announced, or in step.
CacheState ==
    ~reinit_triggered_ => \A u \in UUIDs :
       /\ Unscanned(u) => object_cache_map_[u] = 0 /\ RequestOf(u) = "none" /\ ~Queued(u)
       /\ amqp # "none" =>
             Unscanned(u) \/ RequestOf(u) # "none" \/ Queued(u) \/ Announced(u) \/ InStep(u)

IInv ==
    /\ SyncState /\ RequestTypes /\ GenerationState /\ TaskState /\ ClientState /\ EndState
    /\ ReaderState /\ DeletesFollowed /\ CacheState
=============================================================================
