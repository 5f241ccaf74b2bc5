--------------------------- MODULE SandeshClient ---------------------------
(***************************************************************************)
(* The client side of a Sandesh connection: SandeshClientSMImpl, the state *)
(* machine that keeps one session to one collector, and the life of its    *)
(* owner, SandeshClient, from Initiate to Uninit.                          *)
(*                                                                         *)
(* Everything the machine reacts to is an event on its work queue.  The    *)
(* queue is fed by the application (start, stop, a new collector list), by *)
(* the TCP session's observer on the event-manager thread, by the reader   *)
(* task, and by two timers.  The runner of the queue and the two timers    *)
(* have the same task id and instance, so one reaction, or one timer       *)
(* callback, is one step; the others interleave between them.              *)
(*                                                                         *)
(* Durations are left out: idle_hold_time_ is kept as "nonzero or not",    *)
(* and the back-off of GetConnectTime only sets how long a timer runs.     *)
(***************************************************************************)
EXTENDS Integers, Sequences

CONSTANTS
    CollectorLists,   \* the collector lists the application may configure
    NoCollector,      \* the default-constructed endpoint
    MaxUpdates,       \* bound: calls of ReConfigCollectors
    MaxFaults         \* bound: failures the network and the collector cause

\* The endpoints a session may be opened to.
Endpoints ==
    {NoCollector} \union UNION {{list[i] : i \in DOMAIN list} : list \in CollectorLists}

ASSUME Bounds ==
    /\ MaxUpdates \in Nat /\ MaxFaults \in Nat
    /\ CollectorLists \subseteq Seq(Endpoints)

VARIABLES
    state,             \* state_, the state of the machine
    session_,          \* 0 or the index of the current session in sess
    server_,           \* the collector to connect to
    collectors_,       \* the configured list
    collector_index_,  \* position in it, from 0; set with the first list and not read before
    hold,              \* idle_hold_time_ # 0
    connect_timer_, idle_hold_timer_,  \* "init", "running" or "cancelled"
    queue,             \* work_queue_
    sess,              \* every session ever created
    owner,             \* how far SandeshClient and Uninit have got
    closer,            \* a call of CloseSMSession in progress
    updates, faults    \* what is used of the bounds

machine == <<state, session_, server_, collectors_, collector_index_, hold,
             connect_timer_, idle_hold_timer_>>
vars == <<machine, queue, sess, owner, closer, updates, faults>>

NoSession == 0
Idle == "Idle"
Connected == {"Connect", "ClientInit", "Established"}

Event(name) == [ev |-> name]
Of(name, s) == [ev |-> name, session |-> s]

(***************************************************************************)
(* A reaction is a composition of the machine's methods, so each of them   *)
(* is a function on the record of what it may change.                      *)
(***************************************************************************)
Current == [state |-> state, session |-> session_, server |-> server_,
            collectors |-> collectors_, index |-> collector_index_,
            hold |-> hold, connect |-> connect_timer_,
            idle |-> idle_hold_timer_, queue |-> queue, sess |-> sess]

Become(m) ==
    /\ state' = m.state             /\ session_' = m.session
    /\ server_' = m.server          /\ collectors_' = m.collectors
    /\ collector_index_' = m.index  /\ hold' = m.hold
    /\ connect_timer_' = m.connect  /\ idle_hold_timer_' = m.idle
    /\ queue' = m.queue             /\ sess' = m.sess

Enqueue(m, e) == [m EXCEPT !.queue = Append(@, e)]

\* Mutant: the session given up is not queued for deletion.
set_sessionForgets(m, s) ==
    IF m.session = NoSession THEN [m EXCEPT !.session = s]
    ELSE [m EXCEPT !.session = s, !.sess[m.session].tcp = "closed"]

\* Silences, closes and gives up the current session, then takes s.
\* EvTcpDeleteSession deletes the old one behind the events now queued.
set_session(m, s) ==
    IF m.session = NoSession THEN [m EXCEPT !.session = s]
    ELSE Enqueue([m EXCEPT !.session = s, !.sess[m.session].tcp = "closed"],
                 Of("EvTcpDeleteSession", m.session))

\* Mutant: the connect timer is never started.
StartConnectTimerNever(m) == m

CancelIdleHoldTimer(m) == [m EXCEPT !.idle = "cancelled"]
StartIdleHoldTimer(m) == IF m.hold THEN [m EXCEPT !.idle = "running"] ELSE m
CancelConnectTimer(m) == [m EXCEPT !.connect = "cancelled"]
StartConnectTimer(m) == [m EXCEPT !.connect = "running"]

OnIdle(m) ==
    set_session(CancelIdleHoldTimer([m EXCEPT !.hold = TRUE]), NoSession)

GetCollector(m) ==
    IF m.collectors = <<>> THEN NoCollector ELSE m.collectors[m.index + 1]

set_server(m) == [m EXCEPT !.server = GetCollector(m)]

CollectorUpdate(m, list) ==
    set_server([m EXCEPT !.collectors = list, !.index = 0])

CollectorChange(m) ==
    set_server(IF m.collectors = <<>> THEN m
               ELSE [m EXCEPT !.index = (@ + 1) % Len(m.collectors)])

(***************************************************************************)
(* Leaving a state (its destructor) and entering one (its constructor).    *)
(***************************************************************************)
Leave(m) ==
    IF m.state = Idle THEN CancelIdleHoldTimer(m)
    ELSE IF m.state \in {"Connect", "ClientInit"} THEN CancelConnectTimer(m)
    ELSE m

Enter(m, s) == [Leave(m) EXCEPT !.state = s]

\* CreateSMSession opens a session and starts connecting it to server_.
NewSession(ep) ==
    [ep |-> ep, tcp |-> "connecting", ctl |-> "none", deleted |-> FALSE]

EnterConnect(m) ==
    LET n == [Enter(m, "Connect") EXCEPT !.sess = Append(@, NewSession(m.server))]
    IN  StartConnectTimer(set_session(n, Len(n.sess)))

\* InitializeSMSession puts the control request on the queue.
EnterClientInit(m) ==
    Enqueue(StartConnectTimer(CancelConnectTimer(Enter(m, "ClientInit"))),
            Event("EvSandeshSend"))

\* Mutant: the timer is started before OnIdle cancels it.
ToIdleTimerFirst(m) == Enter(OnIdle(StartIdleHoldTimer([m EXCEPT !.hold = TRUE])), Idle)

ToIdle(m) == Enter(StartIdleHoldTimer(OnIdle(m)), Idle)

(***************************************************************************)
(* The reactions.  Each takes the event at the head of the queue; what a   *)
(* state does not list is dropped by unconsumed_event.                     *)
(***************************************************************************)
Ready(name) == owner # "destroyed" /\ queue # <<>> /\ Head(queue).ev = name
Dequeued == [Current EXCEPT !.queue = Tail(@)]

\* DequeueEvent for an event of this name, handled by After in the states
\* On and dropped in the others.
React(name, On, After) ==
    /\ Ready(name)
    /\ Become(IF state \in On THEN After ELSE Dequeued)
    /\ UNCHANGED <<owner, closer, updates, faults>>

EvStart ==
    React("EvStart", {Idle},
          IF hold THEN StartIdleHoldTimer(Dequeued)
          ELSE Enter(Dequeued, "Disconnect"))

EvStop ==
    React("EvStop", {Idle, "Disconnect"} \union Connected,
          IF state = Idle THEN CancelIdleHoldTimer(Dequeued)
          ELSE [OnIdle(Leave(Dequeued)) EXCEPT !.state = Idle])

EvCollectorUpdate ==
    /\ Ready("EvCollectorUpdate")
    /\ LET m == CollectorUpdate(Dequeued, Head(queue).list)
       IN  Become(CASE state = "Disconnect" -> EnterConnect(m)
                    [] state = "Established" /\ m.server # server_ ->
                          EnterConnect(OnIdle(m))
                    [] state \in {"Connect", "ClientInit"} /\ m.server # server_ ->
                          ToIdle(m)
                    [] OTHER -> m)
    /\ UNCHANGED <<owner, closer, updates, faults>>

\* EvIdleHoldTimerExpired::validate does not have the signature HasValidate
\* looks for, so it is never called: the event is processed as it comes.
EvIdleHoldTimerExpired ==
    React("EvIdleHoldTimerExpired", {Idle}, EnterConnect(Dequeued))

\* Dropped when validate finds the timer cancelled.
EvConnectTimerExpired ==
    React("EvConnectTimerExpired",
          IF connect_timer_ = "cancelled" THEN {} ELSE {"Connect", "ClientInit"},
          ToIdle(CollectorChange(Dequeued)))

EvTcpConnected ==
    React("EvTcpConnected", {"Connect"},
          EnterClientInit(CancelConnectTimer(Dequeued)))

EvTcpConnectFail ==
    React("EvTcpConnectFail", {"Connect"}, ToIdle(CollectorChange(Dequeued)))

EvTcpClose ==
    LET m == CollectorChange(Dequeued)
    IN  React("EvTcpClose", Connected,
              IF state = "Established" /\ m.server # server_
              THEN EnterConnect(OnIdle(m)) ELSE ToIdle(m))

EvTcpDeleteSession ==
    /\ Ready("EvTcpDeleteSession")
    /\ Become([Dequeued EXCEPT !.sess[Head(queue).session].deleted = TRUE])
    /\ UNCHANGED <<owner, closer, updates, faults>>

\* The control request leaves on the current session; before ClientInit the
\* Sandesh is released.
EvSandeshSend ==
    React("EvSandeshSend", {"ClientInit", "Established"},
          [Dequeued EXCEPT !.sess[session_].ctl = "sent"])

\* A message the manager rejects ends the session; the control message
\* completes the handshake.
EvSandeshMessageRecv ==
    React("EvSandeshMessageRecv", {"ClientInit", "Established"},
          CASE Head(queue).msg = "bad" -> ToIdle(Dequeued)
            [] Head(queue).msg = "control" /\ state = "ClientInit" ->
                  Enter(Dequeued, "Established")
            [] OTHER -> Dequeued)

Dequeue ==
    \/ EvStart \/ EvStop \/ EvCollectorUpdate
    \/ EvIdleHoldTimerExpired \/ EvConnectTimerExpired
    \/ EvTcpConnected \/ EvTcpConnectFail \/ EvTcpClose \/ EvTcpDeleteSession
    \/ EvSandeshSend \/ EvSandeshMessageRecv

(***************************************************************************)
(* The timers.  A callback enqueues its event and leaves the timer in Init.*)
(***************************************************************************)
Alive == owner \notin {"new", "destroyed"}

\* The peer of the current session will not be heard of again.
PeerSilent == session_ # NoSession /\ sess[session_].tcp = "silent"

ConnectTimerExpired ==
    /\ Alive /\ connect_timer_ = "running"
    /\ PeerSilent \/ faults < MaxFaults
    /\ faults' = IF PeerSilent THEN faults ELSE faults + 1
    /\ Become(Enqueue([Current EXCEPT !.connect = "init"],
                      Event("EvConnectTimerExpired")))
    /\ UNCHANGED <<owner, closer, updates>>

IdleHoldTimerExpired ==
    /\ Alive /\ idle_hold_timer_ = "running"
    /\ Become(Enqueue([Current EXCEPT !.idle = "init"],
                      Event("EvIdleHoldTimerExpired")))
    /\ UNCHANGED <<owner, closer, updates, faults>>

(***************************************************************************)
(* The session's observer and receive callback, called while the session   *)
(* is the current one (set_session clears both under their mutex).         *)
(***************************************************************************)
\* Mutant: a session that was given up still has its observer.
ObservedLate(name, from, to) ==
    /\ Alive
    /\ \E s \in DOMAIN sess :
          /\ sess[s].tcp \in from \/ (s # session_ /\ sess[s].tcp = "closed" /\ ~sess[s].deleted)
          /\ Become(Enqueue([Current EXCEPT !.sess[s].tcp = IF s = session_ THEN to ELSE @],
                            Of(name, s)))
    /\ UNCHANGED <<owner, closer, updates>>

Observed(name, from, to) ==
    /\ Alive /\ session_ # NoSession /\ sess[session_].tcp \in from
    /\ Become(Enqueue([Current EXCEPT !.sess[session_].tcp = to],
                      Of(name, session_)))
    /\ UNCHANGED <<owner, closer, updates>>

Fault == faults < MaxFaults /\ faults' = faults + 1

ConnectComplete ==
    Observed("EvTcpConnected", {"connecting"}, "up") /\ UNCHANGED faults

ConnectFailed == Fault /\ Observed("EvTcpConnectFail", {"connecting"}, "closed")

PeerClose == Fault /\ Observed("EvTcpClose", {"up"}, "closed")

\* The reader could not make out a message: EnqueueClose, session still open.
ReaderError == Fault /\ Observed("EvTcpClose", {"up"}, "up")

\* The peer or the network goes quiet before the handshake is complete.
Silence ==
    /\ Fault /\ Alive /\ session_ # NoSession
    /\ sess[session_].tcp \in {"connecting", "up"} /\ sess[session_].ctl # "answered"
    /\ sess' = [sess EXCEPT ![session_].tcp = "silent"]
    /\ UNCHANGED <<machine, queue, owner, closer, updates>>

\* OnMessage.  The collector answers the control request once; any other
\* message, and one the manager rejects, may come at any time.
Receive(msg, from, to) ==
    /\ Alive /\ session_ # NoSession
    /\ sess[session_].tcp = "up" /\ sess[session_].ctl \in from
    /\ Become(Enqueue([Current EXCEPT !.sess[session_].ctl = IF to = "same" THEN @ ELSE to],
                      [ev |-> "EvSandeshMessageRecv", session |-> session_, msg |-> msg]))
    /\ UNCHANGED <<owner, closer, updates>>

Answer == Receive("control", {"sent"}, "answered") /\ UNCHANGED faults
OtherMessage ==
    /\ Fault
    /\ \E msg \in {"other", "bad"} : Receive(msg, {"none", "sent", "answered"}, "same")

Network ==
    \/ ConnectComplete \/ ConnectFailed \/ PeerClose \/ ReaderError
    \/ Silence \/ Answer \/ OtherMessage

(***************************************************************************)
(* The owner, on threads of its own.                                       *)
(***************************************************************************)
Post(es) == queue' = queue \o es

\* SetAdminState(false), then SetCollectors unless the list is empty.
Initiate(list) ==
    /\ owner = "new" /\ owner' = "started"
    /\ hold' = FALSE
    /\ Post(<<Event("EvStart")>> \o
            IF list = <<>> THEN <<>> ELSE <<[ev |-> "EvCollectorUpdate", list |-> list]>>)
    /\ UNCHANGED <<state, session_, server_, collectors_, collector_index_,
                   connect_timer_, idle_hold_timer_, sess, closer, updates, faults>>

ReConfigCollectors(list) ==
    /\ owner = "started" /\ updates < MaxUpdates
    /\ updates' = updates + 1
    /\ Post(<<[ev |-> "EvCollectorUpdate", list |-> list]>>)
    /\ UNCHANGED <<machine, sess, owner, closer, faults>>

\* CloseSMSession, when DoCloseSMSession's rate limit lets the call through,
\* reads the session pointer, ...
CloseSMSession ==
    /\ owner = "started" /\ closer.pc = "none" /\ session_ # NoSession
    /\ Fault
    /\ closer' = [pc |-> "check", session |-> session_]
    /\ UNCHANGED <<machine, queue, sess, owner, updates>>

\* ... EnqueueClose finds it open and copies the observer, ...
EnqueueClose ==
    /\ closer.pc = "check"
    /\ closer' = IF sess[closer.session].tcp # "closed" /\ closer.session = session_
                 THEN [closer EXCEPT !.pc = "call"]
                 ELSE [pc |-> "none", session |-> NoSession]
    /\ UNCHANGED <<machine, queue, sess, owner, updates, faults>>

\* ... and calls the copy.
CallObserver ==
    /\ closer.pc = "call"
    /\ Post(<<Of("EvTcpClose", closer.session)>>)
    /\ closer' = [pc |-> "none", session |-> NoSession]
    /\ UNCHANGED <<machine, sess, owner, updates, faults>>

\* Sandesh::Uninit: Shutdown, wait for the session to go, wait for the
\* scheduler to be idle (15 seconds at most), destroy the client and its state
\* machine.  What is queued when deleted_ is set has no effect: DequeueEvent
\* drops it, here it stays in queue.
Shutdown ==
    /\ owner = "started" /\ owner' = "stopping"
    /\ Post(<<Event("EvStop")>>)
    /\ UNCHANGED <<machine, sess, closer, updates, faults>>

SessionGone ==
    /\ owner = "stopping" /\ session_ = NoSession /\ owner' = "waiting"
    /\ UNCHANGED <<machine, queue, sess, closer, updates, faults>>

Destroy ==
    /\ owner = "waiting" /\ closer.pc = "none"
    /\ owner' = "destroyed"
    /\ UNCHANGED <<machine, queue, sess, closer, updates, faults>>

Owner ==
    \/ \E list \in CollectorLists \union {<<>>} : Initiate(list)
    \/ \E list \in CollectorLists : ReConfigCollectors(list)
    \/ CloseSMSession \/ EnqueueClose \/ CallObserver
    \/ Shutdown \/ SessionGone \/ Destroy

Init ==
    /\ state = Idle /\ session_ = NoSession /\ server_ = NoCollector
    /\ collectors_ = <<>> /\ collector_index_ = 0 /\ hold = FALSE
    /\ connect_timer_ = "init" /\ idle_hold_timer_ = "init"
    /\ queue = <<>> /\ sess = <<>> /\ owner = "new"
    /\ closer = [pc |-> "none", session |-> NoSession]
    /\ updates = 0 /\ faults = 0

Next == Dequeue \/ ConnectTimerExpired \/ IdleHoldTimerExpired \/ Network \/ Owner

Spec == Init /\ [][Next]_vars

\* The runner and the timers are served, a call under way ends, a reachable
\* collector accepts and answers, and a silent one runs into the timer.
FairSpec ==
    /\ Spec
    /\ WF_vars(Dequeue)
    /\ WF_vars(IdleHoldTimerExpired)
    /\ WF_vars(PeerSilent /\ ConnectTimerExpired)
    /\ WF_vars(ConnectComplete)
    /\ WF_vars(Answer)
    /\ WF_vars(EnqueueClose \/ CallObserver)
-----------------------------------------------------------------------------

Queued(name) == {e \in {queue[i] : i \in DOMAIN queue} : e.ev = name}
Deletes(s) == {i \in DOMAIN queue : queue[i] = Of("EvTcpDeleteSession", s)}

(***************************************************************************)
(* A machine that has a session is connecting or connected, and one that   *)
(* is connecting or connected has a session, open to the collector that    *)
(* collector_index_ names in the current list: no reaction dereferences a  *)
(* null session (session()->remote_endpoint(), send_session), and neither  *)
(* a new list nor a change of collector leaves it connected to an old one. *)
(***************************************************************************)
SessionToServer ==
    /\ session_ # NoSession <=> state \in Connected
    /\ session_ # NoSession =>
          /\ sess[session_].ep = server_
          /\ server_ = GetCollector(Current)

(***************************************************************************)
(* A session the machine has given up is deleted once and not leaked:      *)
(* until it is deleted, one EvTcpDeleteSession for it is on the queue, and *)
(* the current session is never deleted.  (A machine destroyed before it   *)
(* came to that event leaves the session to ClearSessions.)                *)
(***************************************************************************)
GivenUpDeletedOnce ==
    \A s \in DOMAIN sess :
        IF s = session_ \/ sess[s].deleted THEN
            /\ Deletes(s) = {}
            /\ s = session_ => ~sess[s].deleted
        ELSE \E i \in DOMAIN queue : Deletes(s) = {i}

(***************************************************************************)
(* The reactions do not look at the session an event names.  They need not *)
(* for what the event-manager thread and the reader report: when a machine *)
(* acts on a completed or failed connect, or on a message, it is of the    *)
(* current session, because all events of an earlier session were queued   *)
(* before it was given up.  (A close may be of an earlier session.)        *)
(***************************************************************************)
ActsOnOwnSession ==
    [][\/ EvTcpConnected /\ state = "Connect"
       \/ EvTcpConnectFail /\ state = "Connect"
       \/ EvSandeshMessageRecv /\ state \in {"ClientInit", "Established"}
       => Head(queue).session = session_]_vars

(***************************************************************************)
(* The machine is never left waiting for nothing: while it waits for a     *)
(* peer the connect timer runs or its expiry is queued, and while it is    *)
(* idle and wanted up the idle-hold timer runs or its expiry is queued.    *)
(* And a timer runs only in the states that wait for it.                   *)
(***************************************************************************)
TimerCovers ==
    /\ state \in {"Connect", "ClientInit"} =>
          connect_timer_ = "running" \/ Queued("EvConnectTimerExpired") # {}
    /\ state = Idle /\ owner = "started" /\ Queued("EvStart") = {} =>
          idle_hold_timer_ = "running" \/ Queued("EvIdleHoldTimerExpired") # {}
    /\ connect_timer_ = "running" => state \in {"Connect", "ClientInit"}
    /\ idle_hold_timer_ = "running" => state = Idle

(***************************************************************************)
(* Once the network stops failing, a client with a collector to go to gets *)
(* connected and stays connected, unless it is shut down.                  *)
(***************************************************************************)
StaysEstablished ==
    <>[](\/ state = "Established"
         \/ owner # "started"
         \/ collectors_ = <<>>)

(***************************************************************************)
(* "The State Machine should have already been shutdown by this point.":   *)
(* the destructor's assert(!session()).                                    *)
(***************************************************************************)
ShutdownByDestructor == owner = "destroyed" => session_ = NoSession

(***************************************************************************)
(* "if the caller sets the observer to NULL it is guaranteed that the      *)
(* observer will not get invoked after this method returns": no close is   *)
(* queued for a session that was given up.                                 *)
(***************************************************************************)
ObserverSilenced ==
    [][CallObserver => closer.session = session_]_vars

(***************************************************************************)
(* Of all sessions ever created one is the machine's, to the collector it  *)
(* wants, and every other one is deleted or has one deletion queued.       *)
(***************************************************************************)
SessionsAccounted == SessionToServer /\ GivenUpDeletedOnce

(***************************************************************************)
(* The inductive invariant behind the properties above.                    *)
(***************************************************************************)
Events ==
    [ev : {"EvStart", "EvStop", "EvIdleHoldTimerExpired", "EvConnectTimerExpired",
           "EvSandeshSend"}]
    \union [ev : {"EvTcpConnected", "EvTcpConnectFail", "EvTcpClose", "EvTcpDeleteSession"},
            session : Nat \ {0}]
    \union [ev : {"EvSandeshMessageRecv"}, session : Nat \ {0}, msg : {"control", "other", "bad"}]
    \union [ev : {"EvCollectorUpdate"}, list : CollectorLists]

Sessions == [ep : Endpoints, tcp : {"connecting", "up", "silent", "closed"},
             ctl : {"none", "sent", "answered"}, deleted : BOOLEAN]

States == {Idle, "Disconnect"} \union Connected
Timers == {"init", "running", "cancelled"}

Machines == [state : States, session : Nat, server : Endpoints,
             collectors : CollectorLists \union {<<>>}, index : Nat, hold : BOOLEAN,
             connect : Timers, idle : Timers, queue : Seq(Events), sess : Seq(Sessions)]

\* The types of the machine, its queue and its sessions; collector_index_ is in
\* the range of the list.
TypeOK ==
    /\ Current \in Machines /\ session_ <= Len(sess)
    /\ collectors_ # <<>> => collector_index_ < Len(collectors_)
    /\ owner \in {"new", "started", "stopping", "waiting", "destroyed"}
    /\ closer \in [pc : {"none", "check", "call"}, session : Nat]
    /\ closer.session <= Len(sess)
    /\ closer.pc # "none" => closer.session # NoSession /\ owner # "new"

Handshake == {"EvTcpConnected", "EvTcpConnectFail"}
Reports == Handshake \union {"EvSandeshMessageRecv"}

\* What the queue may hold, by owner, state and timer.
QueueState ==
    /\ owner = "new" => queue = <<>> /\ state = Idle /\ idle_hold_timer_ # "running"
    /\ \A i \in DOMAIN queue :
          /\ owner = "started" => queue[i].ev # "EvStop"
          /\ queue[i].ev \in Reports \union {"EvTcpDeleteSession"} => queue[i].session \in DOMAIN sess
          /\ queue[i].ev = "EvIdleHoldTimerExpired" =>
                /\ state = Idle /\ idle_hold_timer_ # "running"
                /\ \A j \in DOMAIN queue : queue[j].ev = "EvIdleHoldTimerExpired" => i = j
          /\ queue[i].ev = "EvStart" =>
                /\ state = Idle /\ idle_hold_timer_ # "running"
                /\ \A j \in DOMAIN queue :
                      /\ queue[j].ev \notin Reports \union {"EvIdleHoldTimerExpired"}
                      /\ queue[j].ev = "EvStart" => i = j

OwnHandshake(i) == queue[i].ev \in Handshake /\ queue[i].session = session_

\* The end of a connect is reported once, to a machine that waits for it.
HandshakeOnce ==
    /\ state \in {"ClientInit", "Established"} => sess[session_].tcp # "connecting"
    /\ \A i \in DOMAIN queue :
          OwnHandshake(i) =>
              /\ state = "Connect" /\ sess[session_].tcp # "connecting"
              /\ \A j \in DOMAIN queue : OwnHandshake(j) => i = j

Stale(i) == queue[i].ev \in Reports /\ queue[i].session # session_

\* What was reported of an earlier session is ahead of the event that would
\* bring the machine to a state in which it acts on it.
StaleFirst ==
    \A i \in DOMAIN queue :
        Stale(i) =>
            /\ state = Idle \/ (state = "Connect" /\ queue[i].ev \notin Handshake)
            /\ \A j \in DOMAIN queue :
                  queue[j].ev = "EvIdleHoldTimerExpired" \/ OwnHandshake(j) => i < j

\* The collector the machine wants is the one its list and index name, and an
\* expiry of the connect timer is not taken for one of a cancelled timer.
MachineState ==
    /\ server_ = GetCollector(Current)
    /\ state \in {"Connect", "ClientInit"} => connect_timer_ # "cancelled"

IInv ==
    /\ TypeOK /\ QueueState /\ HandshakeOnce /\ StaleFirst /\ MachineState
    /\ SessionsAccounted /\ TimerCovers
=============================================================================
