---------------------------- MODULE SandeshProofs ----------------------------
(***************************************************************************)
(* The client of sandesh/library/cpp/sandesh_client_sm.cc, for every       *)
(* CollectorLists and all bounds: every session is accounted for, a timer  *)
(* or a session covers every state that waits, and an event acts on the    *)
(* machine only when it is of the session it was sent for.                 *)
(***************************************************************************)
EXTENDS SandeshClient, TLAPS

LEMMA StutterInv == ASSUME IInv, UNCHANGED vars PROVE IInv'
  BY DEF vars, machine, IInv, TypeOK, Current, QueueState, HandshakeOnce, OwnHandshake,
         StaleFirst, Stale, MachineState, GetCollector, SessionsAccounted, SessionToServer,
         GivenUpDeletedOnce, Deletes, TimerCovers, Queued

-----------------------------------------------------------------------------
(* What the machine's methods return.                                      *)

LEMMA EventTypes ==
  /\ \A n \in {"EvStart", "EvStop", "EvIdleHoldTimerExpired", "EvConnectTimerExpired",
               "EvSandeshSend"} : Event(n) \in Events
  /\ \A n \in {"EvTcpConnected", "EvTcpConnectFail", "EvTcpClose", "EvTcpDeleteSession"} :
        \A s \in Nat \ {0} : Of(n, s) \in Events
  BY Zenon DEF Event, Of, Events

LEMMA ChangeSession ==
  ASSUME NEW q \in Seq(Sessions), NEW s \in 1 .. Len(q), NEW x \in Sessions
  PROVE  /\ [q EXCEPT ![s] = x] \in Seq(Sessions) /\ Len([q EXCEPT ![s] = x]) = Len(q)
  OBVIOUS

LEMMA SessionFields ==
  ASSUME NEW x \in Sessions
  PROVE  /\ \A t \in {"connecting", "up", "silent", "closed"} : [x EXCEPT !.tcp = t] \in Sessions
         /\ \A c \in {"none", "sent", "answered"} : [x EXCEPT !.ctl = c] \in Sessions
         /\ [x EXCEPT !.deleted = TRUE] \in Sessions
  BY Zenon DEF Sessions

LEMMA ChangeTcp ==
  ASSUME NEW q \in Seq(Sessions), NEW s \in 1 .. Len(q), NEW t \in {"connecting", "up", "silent", "closed"}
  PROVE  [q EXCEPT ![s].tcp = t] \in Seq(Sessions) /\ Len([q EXCEPT ![s].tcp = t]) = Len(q)
  <1>1. q[s] \in Sessions
    OBVIOUS
  <1>2. [q[s] EXCEPT !.tcp = t] \in Sessions
    BY <1>1, SessionFields, Zenon
  <1> QED BY <1>2, ChangeSession, Zenon

LEMMA ChangeCtl ==
  ASSUME NEW q \in Seq(Sessions), NEW s \in 1 .. Len(q), NEW c \in {"none", "sent", "answered"}
  PROVE  [q EXCEPT ![s].ctl = c] \in Seq(Sessions) /\ Len([q EXCEPT ![s].ctl = c]) = Len(q)
  <1>1. q[s] \in Sessions
    OBVIOUS
  <1>2. [q[s] EXCEPT !.ctl = c] \in Sessions
    BY <1>1, SessionFields, Zenon
  <1> QED BY <1>2, ChangeSession, Zenon

LEMMA ChangeDeleted ==
  ASSUME NEW q \in Seq(Sessions), NEW s \in 1 .. Len(q)
  PROVE  [q EXCEPT ![s].deleted = TRUE] \in Seq(Sessions) /\ Len([q EXCEPT ![s].deleted = TRUE]) = Len(q)
  <1>1. q[s] \in Sessions
    OBVIOUS
  <1>2. [q[s] EXCEPT !.deleted = TRUE] \in Sessions
    BY <1>1, SessionFields, Zenon
  <1> QED BY <1>2, ChangeSession, Zenon

\* The session a machine gives up is closed and queued for deletion.
GivesUp(m, n) ==
  IF m.session = NoSession THEN n.queue = m.queue /\ n.sess = m.sess
  ELSE /\ n.queue = Append(m.queue, Of("EvTcpDeleteSession", m.session))
       /\ n.sess = [m.sess EXCEPT ![m.session].tcp = "closed"]

SameList(m, n) ==
  n.server = m.server /\ n.collectors = m.collectors /\ n.index = m.index

GaveUp(m, n) ==
  /\ n \in Machines /\ n.session = NoSession /\ GivesUp(m, n) /\ Len(n.sess) = Len(m.sess)
  /\ n.state = m.state /\ SameList(m, n) /\ n.hold = m.hold /\ n.connect = m.connect
  /\ n.idle = m.idle

LEMMA GiveUp ==
  ASSUME NEW m \in Machines, m.session <= Len(m.sess)
  PROVE  GaveUp(m, set_session(m, NoSession))
  <1> USE DEF set_session, GivesUp, GaveUp, SameList, NoSession
  <1>1. CASE m.session = 0
    BY <1>1, Zenon DEF Machines
  <1>2. CASE m.session # 0
    <2> DEFINE e == Of("EvTcpDeleteSession", m.session)
               c == [m.sess EXCEPT ![m.session].tcp = "closed"]
    <2>1. e \in Events
      BY <1>2, EventTypes, Zenon DEF Machines
    <2>2. Append(m.queue, e) \in Seq(Events)
      BY <2>1 DEF Machines
    <2>3. c \in Seq(Sessions) /\ Len(c) = Len(m.sess)
      <3>1. m.sess \in Seq(Sessions) /\ m.session \in 1 .. Len(m.sess)
        BY <1>2 DEF Machines
      <3> QED BY <3>1, ChangeTcp, Zenon
    <2> QED BY <1>2, <2>2, <2>3, Zenon DEF Machines, Enqueue
  <1> QED BY <1>1, <1>2, Zenon

Idled(m, n) ==
  /\ n \in Machines /\ n.session = NoSession /\ GivesUp(m, n) /\ Len(n.sess) = Len(m.sess)
  /\ n.state = m.state /\ SameList(m, n) /\ n.connect = m.connect
  /\ n.hold = TRUE /\ n.idle = "cancelled"

LEMMA OnIdleIs ==
  ASSUME NEW m \in Machines, m.session <= Len(m.sess)
  PROVE  Idled(m, OnIdle(m))
  <1> DEFINE k == CancelIdleHoldTimer([m EXCEPT !.hold = TRUE])
  <1>1. /\ k \in Machines /\ SameList(m, k) /\ k.state = m.state /\ k.session = m.session
        /\ k.connect = m.connect /\ k.hold = TRUE /\ k.idle = "cancelled"
        /\ k.queue = m.queue /\ k.sess = m.sess
    BY Zenon DEF Machines, CancelIdleHoldTimer, SameList, Timers
  <1>2. OnIdle(m) = set_session(k, NoSession)
    BY Zenon DEF OnIdle
  <1> HIDE DEF k
  <1>3. GaveUp(k, OnIdle(m))
    BY <1>1, <1>2, GiveUp, Zenon
  <1> QED BY <1>1, <1>3, Zenon DEF Idled, GaveUp, GivesUp, SameList

WentIdle(m, n) ==
  /\ n \in Machines /\ n.session = NoSession /\ GivesUp(m, n) /\ Len(n.sess) = Len(m.sess)
  /\ n.state = Idle /\ SameList(m, n) /\ n.idle = "running"
  /\ n.connect = IF m.state = "Established" THEN m.connect ELSE "cancelled"

LEMMA ToIdleIs ==
  ASSUME NEW m \in Machines, m.session <= Len(m.sess), m.state \in Connected
  PROVE  WentIdle(m, ToIdle(m))
  <1> DEFINE k == OnIdle(m)
  <1>1. Idled(m, k)
    BY OnIdleIs, Zenon
  <1>2. ToIdle(m) = Enter(StartIdleHoldTimer(k), Idle)
    BY Zenon DEF ToIdle
  <1> HIDE DEF k
  <1>3. StartIdleHoldTimer(k) = [k EXCEPT !.idle = "running"]
    BY <1>1, Zenon DEF Idled, StartIdleHoldTimer
  <1>4. CASE m.state = "Established"
    <2>1. ToIdle(m) = [[k EXCEPT !.idle = "running"] EXCEPT !.state = Idle]
      BY <1>1, <1>2, <1>3, <1>4, Zenon DEF Enter, Leave, Idle, Idled, Machines
    <2> QED BY <1>1, <1>4, <2>1, Zenon
               DEF WentIdle, Idled, Machines, States, Timers, GivesUp, SameList
  <1>5. CASE m.state # "Established"
    <2>1. ToIdle(m) = [[[k EXCEPT !.idle = "running"] EXCEPT !.connect = "cancelled"] EXCEPT !.state = Idle]
      BY <1>1, <1>2, <1>3, <1>5, Zenon
         DEF Enter, Leave, Idle, Idled, Machines, Connected, CancelConnectTimer
    <2> QED BY <1>1, <1>5, <2>1, ZenonT(60)
               DEF WentIdle, Idled, Machines, States, Timers, GivesUp, SameList
  <1> QED BY <1>4, <1>5, Zenon

\* CreateSMSession, from a machine without a session.
Opened(m, n) ==
  /\ n \in Machines /\ SameList(m, n) /\ n.queue = m.queue
  /\ n.sess = Append(m.sess, NewSession(m.server)) /\ n.session = Len(m.sess) + 1
  /\ n.state = "Connect" /\ n.connect = "running"
  /\ n.idle = IF m.state = Idle THEN "cancelled" ELSE m.idle

LEMMA EnterConnectIs ==
  ASSUME NEW m \in Machines, m.session = NoSession
  PROVE  Opened(m, EnterConnect(m))
  <1> DEFINE k == [Enter(m, "Connect") EXCEPT !.sess = Append(@, NewSession(m.server))]
  <1>1. Append(m.sess, NewSession(m.server)) \in Seq(Sessions)
    BY DEF Machines, NewSession, Sessions
  <1>2. /\ k \in Machines /\ SameList(m, k) /\ k.session = 0 /\ k.state = "Connect"
        /\ k.sess = Append(m.sess, NewSession(m.server)) /\ k.queue = m.queue
        /\ k.idle = IF m.state = Idle THEN "cancelled" ELSE m.idle
    BY <1>1, Zenon
       DEF Enter, Leave, CancelConnectTimer, CancelIdleHoldTimer, Idle, Connected, Machines,
           States, Timers, SameList, NoSession
  <1> HIDE DEF k
  <1>3. EnterConnect(m) = [[k EXCEPT !.session = Len(k.sess)] EXCEPT !.connect = "running"]
    BY <1>2, Zenon DEF EnterConnect, StartConnectTimer, set_session, NoSession, k
  <1>4. Len(k.sess) = Len(m.sess) + 1 /\ Len(k.sess) \in Nat
    BY <1>2 DEF Machines
  <1> QED BY <1>2, <1>3, <1>4, Zenon DEF Opened, Machines, Timers, SameList

Inited(m, n) ==
  /\ n \in Machines /\ SameList(m, n) /\ n.sess = m.sess /\ n.session = m.session
  /\ n.queue = Append(m.queue, Event("EvSandeshSend"))
  /\ n.state = "ClientInit" /\ n.connect = "running" /\ n.idle = m.idle

LEMMA EnterClientInitIs ==
  ASSUME NEW m \in Machines, m.state = "Connect"
  PROVE  Inited(m, EnterClientInit(CancelConnectTimer(m)))
  <1>1. Append(m.queue, Event("EvSandeshSend")) \in Seq(Events)
    BY EventTypes DEF Machines
  <1> QED
    BY <1>1, Zenon
       DEF EnterClientInit, Enqueue, StartConnectTimer, CancelConnectTimer, Enter, Leave, Idle,
           Connected, Machines, States, Timers, SameList, Inited

-----------------------------------------------------------------------------
(* The list of collectors.                                                 *)

SameButList(m, n) ==
  /\ n.state = m.state /\ n.session = m.session /\ n.hold = m.hold
  /\ n.connect = m.connect /\ n.idle = m.idle /\ n.queue = m.queue /\ n.sess = m.sess

InList(m) == m.collectors # <<>> => m.index < Len(m.collectors)

Listed(m, n) ==
  n \in Machines /\ SameButList(m, n) /\ InList(n) /\ n.server = GetCollector(n)

LEMMA SetServerIs ==
  ASSUME CollectorLists \subseteq Seq(Endpoints), NEW m \in Machines, InList(m)
  PROVE  Listed(m, set_server(m))
  <1>1. GetCollector(m) \in Endpoints
    <2>1. CASE m.collectors = <<>>
      BY <2>1, Zenon DEF GetCollector, Endpoints
    <2>2. CASE m.collectors # <<>>
      <3>1. m.collectors \in Seq(Endpoints) /\ m.index + 1 \in 1 .. Len(m.collectors)
        BY <2>2 DEF Machines, InList
      <3> QED BY <2>2, <3>1 DEF GetCollector
    <2> QED BY <2>1, <2>2, Zenon
  <1> QED BY <1>1, Zenon DEF set_server, Machines, SameButList, InList, GetCollector, Listed

LEMMA Remainder == ASSUME NEW n \in Nat \ {0}, NEW k \in Nat PROVE k % n \in 0 .. n - 1
  OBVIOUS

LEMMA CollectorChangeIs ==
  ASSUME CollectorLists \subseteq Seq(Endpoints), NEW m \in Machines, InList(m)
  PROVE  Listed(m, CollectorChange(m))
  <1>1. CASE m.collectors = <<>>
    BY <1>1, SetServerIs, Zenon DEF CollectorChange
  <1>2. CASE m.collectors # <<>>
    <2> DEFINE r == (m.index + 1) % Len(m.collectors)
               k == [m EXCEPT !.index = r]
    <2>1. m.collectors \in Seq(Endpoints) /\ Len(m.collectors) \in Nat \ {0} /\ m.index \in Nat
      BY <1>2 DEF Machines
    <2>2. r \in 0 .. Len(m.collectors) - 1
      <3>1. m.index + 1 \in Nat
        BY <2>1
      <3> QED BY <2>1, <3>1, Remainder, Zenon
    <2>3. CollectorChange(m) = set_server(k)
      BY <1>2, Zenon DEF CollectorChange
    <2> HIDE DEF r
    <2>4. k \in Machines /\ InList(k) /\ SameButList(m, k)
      <3>1. r \in Nat
        BY <2>1, <2>2
      <3>2. k \in Machines /\ SameButList(m, k)
        BY <3>1, Zenon DEF Machines, SameButList
      <3>3. k.index = r /\ k.collectors = m.collectors
        BY Zenon DEF Machines
      <3>4. InList(k)
        BY <1>2, <2>2, <3>3 DEF InList
      <3> QED BY <3>2, <3>4
    <2> HIDE DEF k
    <2> QED BY <2>3, <2>4, SetServerIs DEF SameButList, Listed
  <1> QED BY <1>1, <1>2, Zenon

LEMMA CollectorUpdateIs ==
  ASSUME CollectorLists \subseteq Seq(Endpoints), NEW m \in Machines, NEW list \in CollectorLists
  PROVE  Listed(m, CollectorUpdate(m, list))
  <1> DEFINE k == [m EXCEPT !.collectors = list, !.index = 0]
  <1>1. list \in Seq(Endpoints) /\ (list # <<>> => 0 < Len(list))
    OBVIOUS
  <1>2. k \in Machines /\ SameButList(m, k) /\ k.index = 0 /\ k.collectors = list
    BY Zenon DEF Machines, SameButList
  <1>3. CollectorUpdate(m, list) = set_server(k)
    BY Zenon DEF CollectorUpdate
  <1> HIDE DEF k
  <1>4. InList(k)
    BY <1>1, <1>2, Zenon DEF InList
  <1> QED BY <1>2, <1>3, <1>4, SetServerIs DEF SameButList, Listed

-----------------------------------------------------------------------------
(* Facts about the queue.                                                  *)

\* r is q without its first d events, and possibly followed by x.
Follows(q, r, d, x) ==
  \A i \in DOMAIN r : /\ i \in Nat
                      /\ \/ i + d \in DOMAIN q /\ r[i] = q[i + d]
                         \/ r[i] = x /\ \A j \in DOMAIN r : j <= i

LEMMA QueueSteps ==
  ASSUME NEW q \in Seq(Events), NEW x \in Events
  PROVE  /\ Follows(q, q, 0, x) /\ Follows(q, Append(q, x), 0, x)
         /\ q # <<>> => /\ Follows(q, Tail(q), 1, x)
                        /\ Follows(q, Append(Tail(q), x), 1, x)
  BY DEF Follows

None(q, e) == \A i \in DOMAIN q : q[i] # e
Once(q, e) == \E i \in DOMAIN q : \A j \in DOMAIN q : q[j] = e <=> j = i

LEMMA TailCounts ==
  ASSUME NEW q \in Seq(Events), q # <<>>, NEW e
  PROVE  /\ None(q, e) => None(Tail(q), e)
         /\ Once(q, e) /\ Head(q) # e => Once(Tail(q), e)
         /\ Once(q, e) /\ Head(q) = e => None(Tail(q), e)
  <1>1. \A i \in DOMAIN Tail(q) : i + 1 \in DOMAIN q /\ Tail(q)[i] = q[i + 1] /\ i \in Nat \ {0}
    OBVIOUS
  <1>2. \A i \in DOMAIN q : i = 1 \/ (i - 1 \in DOMAIN Tail(q) /\ Tail(q)[i - 1] = q[i])
    OBVIOUS
  <1>3. Head(q) = q[1] /\ 1 \in DOMAIN q /\ \A i \in DOMAIN q : i \in Nat
    OBVIOUS
  <1>4. None(q, e) => None(Tail(q), e)
    BY <1>1, Zenon DEF None
  <1>5. ASSUME Once(q, e), Head(q) # e PROVE Once(Tail(q), e)
    <2>1. PICK i \in DOMAIN q : \A j \in DOMAIN q : q[j] = e <=> j = i
      BY <1>5, Zenon DEF Once
    <2>2. i - 1 \in DOMAIN Tail(q)
      BY <1>2, <1>3, <1>5, <2>1, Zenon
    <2>3. \A j \in DOMAIN Tail(q) : Tail(q)[j] = e <=> j = i - 1
      BY <1>1, <1>3, <2>1
    <2> QED BY <2>2, <2>3, Zenon DEF Once
  <1>6. ASSUME Once(q, e), Head(q) = e PROVE None(Tail(q), e)
    BY <1>1, <1>3, <1>6 DEF Once, None
  <1> QED BY <1>4, <1>5, <1>6, Zenon

LEMMA AppendCounts ==
  ASSUME NEW q \in Seq(Events), NEW x \in Events, NEW e
  PROVE  /\ None(q, e) /\ x # e => None(Append(q, x), e)
         /\ Once(q, e) /\ x # e => Once(Append(q, x), e)
         /\ None(q, e) /\ x = e => Once(Append(q, x), e)
  <1>1. \A i \in DOMAIN Append(q, x) : \/ i \in DOMAIN q /\ Append(q, x)[i] = q[i]
                                       \/ i = Len(q) + 1 /\ Append(q, x)[i] = x
    OBVIOUS
  <1>2. \A i \in DOMAIN q : i \in DOMAIN Append(q, x) /\ Append(q, x)[i] = q[i] /\ i # Len(q) + 1
    OBVIOUS
  <1>3. Len(q) + 1 \in DOMAIN Append(q, x) /\ Append(q, x)[Len(q) + 1] = x
    OBVIOUS
  <1>4. ASSUME None(q, e), x # e PROVE None(Append(q, x), e)
    BY <1>1, <1>4, Zenon DEF None
  <1>5. ASSUME Once(q, e), x # e PROVE Once(Append(q, x), e)
    <2>1. PICK i \in DOMAIN q : \A j \in DOMAIN q : q[j] = e <=> j = i
      BY <1>5, Zenon DEF Once
    <2>2. \A j \in DOMAIN Append(q, x) : Append(q, x)[j] = e <=> j = i
      BY <1>1, <1>2, <1>5, <2>1, Zenon
    <2> QED BY <1>2, <2>2, Zenon DEF Once
  <1>6. ASSUME None(q, e), x = e PROVE Once(Append(q, x), e)
    <2>1. \A j \in DOMAIN Append(q, x) : Append(q, x)[j] = e <=> j = Len(q) + 1
      BY <1>1, <1>3, <1>6, Zenon DEF None
    <2> QED BY <1>3, <2>1, Zenon DEF Once
  <1> QED BY <1>4, <1>5, <1>6, Zenon

Has(q, name) == \E i \in DOMAIN q : q[i].ev = name

LEMMA HasSteps ==
  ASSUME NEW q \in Seq(Events), NEW x \in Events, NEW name
  PROVE  /\ Has(q, name) => Has(Append(q, x), name)
         /\ x.ev = name => Has(Append(q, x), name)
         /\ Has(Append(q, x), name) => Has(q, name) \/ x.ev = name
         /\ q # <<>> => /\ Has(Tail(q), name) => Has(q, name)
                        /\ Has(q, name) => Has(Tail(q), name) \/ Head(q).ev = name
  <1>1. \A i \in DOMAIN Append(q, x) : \/ i \in DOMAIN q /\ Append(q, x)[i] = q[i]
                                       \/ i = Len(q) + 1 /\ Append(q, x)[i] = x
    OBVIOUS
  <1>2. \A i \in DOMAIN q : i \in DOMAIN Append(q, x) /\ Append(q, x)[i] = q[i]
    OBVIOUS
  <1>3. Len(q) + 1 \in DOMAIN Append(q, x) /\ Append(q, x)[Len(q) + 1] = x
    OBVIOUS
  <1>4. ASSUME q # <<>>
        PROVE  /\ \A i \in DOMAIN Tail(q) : i + 1 \in DOMAIN q /\ Tail(q)[i] = q[i + 1]
               /\ \A i \in DOMAIN q : q[i] = Head(q) \/ (i - 1 \in DOMAIN Tail(q) /\ Tail(q)[i - 1] = q[i])
    BY <1>4
  <1>5. Has(q, name) => Has(Append(q, x), name)
    BY <1>2, Zenon DEF Has
  <1>6. x.ev = name => Has(Append(q, x), name)
    BY <1>3, Zenon DEF Has
  <1>7. Has(Append(q, x), name) => Has(q, name) \/ x.ev = name
    BY <1>1, Zenon DEF Has
  <1>8. q # <<>> /\ Has(Tail(q), name) => Has(q, name)
    BY <1>4, Zenon DEF Has
  <1>9. q # <<>> /\ Has(q, name) => Has(Tail(q), name) \/ Head(q).ev = name
    BY <1>4, Zenon DEF Has
  <1> QED BY <1>5, <1>6, <1>7, <1>8, <1>9, Zenon

Covers(q) ==
  /\ state \in {"Connect", "ClientInit"} => connect_timer_ = "running" \/ Has(q, "EvConnectTimerExpired")
  /\ state = Idle /\ owner = "started" =>
        idle_hold_timer_ = "running" \/ Has(q, "EvIdleHoldTimerExpired") \/ Has(q, "EvStart")
  /\ connect_timer_ = "running" => state \in {"Connect", "ClientInit"}
  /\ idle_hold_timer_ = "running" => state = Idle

LEMMA CoversIs == TimerCovers <=> Covers(queue)
  <1>1. \A name : Queued(name) # {} <=> Has(queue, name)
    BY Zenon DEF Queued, Has
  <1> QED BY <1>1, Zenon DEF TimerCovers, Covers

LEMMA CoversNext == Covers(queue)' => TimerCovers'
  <1>1. (TimerCovers <=> Covers(queue))'
    BY CoversIs, PTL
  <1> QED BY <1>1, Zenon

-----------------------------------------------------------------------------
(* The deletion of sessions.                                               *)

Del(s) == Of("EvTcpDeleteSession", s)

Accounted(q, ss, cur) ==
  \A s \in DOMAIN ss :
     IF s = cur \/ ss[s].deleted THEN None(q, Del(s)) /\ (s = cur => ~ss[s].deleted)
     ELSE Once(q, Del(s))

LEMMA AccountedIs == GivenUpDeletedOnce <=> Accounted(queue, sess, session_)
  <1>1. ASSUME NEW s PROVE Deletes(s) = {} <=> None(queue, Del(s))
    BY Zenon DEF Deletes, None, Del
  <1>2. ASSUME NEW s PROVE (\E i \in DOMAIN queue : Deletes(s) = {i}) <=> Once(queue, Del(s))
    <2>1. ASSUME NEW i \in DOMAIN queue
          PROVE  Deletes(s) = {i} <=> \A j \in DOMAIN queue : queue[j] = Del(s) <=> j = i
      BY Zenon DEF Deletes, Del
    <2> QED BY <2>1, Zenon DEF Once
  <1> QED BY <1>1, <1>2, Zenon DEF GivenUpDeletedOnce, Accounted

LEMMA AccountedNext == Accounted(queue', sess', session_') => GivenUpDeletedOnce'
  <1>1. (GivenUpDeletedOnce <=> Accounted(queue, sess, session_))'
    BY AccountedIs, PTL
  <1> QED BY <1>1, Zenon

LEMMA DelIsOne ==
  ASSUME NEW s, NEW t, Del(s) = Del(t) PROVE s = t
  BY Zenon DEF Del, Of

\* An event other than a deletion leaves or enters the queue.
LEMMA OtherEvents ==
  ASSUME NEW q \in Seq(Events), NEW ss, NEW cur, Accounted(q, ss, cur)
  PROVE  /\ q # <<>> /\ Head(q).ev # "EvTcpDeleteSession" => Accounted(Tail(q), ss, cur)
         /\ \A x \in Events : x.ev # "EvTcpDeleteSession" => Accounted(Append(q, x), ss, cur)
  <1>1. ASSUME NEW e \in Events, NEW s PROVE e = Del(s) => e.ev = "EvTcpDeleteSession"
    BY DEF Del, Of
  <1>2. ASSUME q # <<>>, Head(q).ev # "EvTcpDeleteSession" PROVE Accounted(Tail(q), ss, cur)
    <2>1. Head(q) \in Events
      BY <1>2
    <2>2. \A s : Head(q) # Del(s)
      BY <1>1, <1>2, <2>1, Zenon
    <2> QED BY <1>2, <2>2, TailCounts, Zenon DEF Accounted
  <1>3. ASSUME NEW x \in Events, x.ev # "EvTcpDeleteSession" PROVE Accounted(Append(q, x), ss, cur)
    <2>1. \A s : x # Del(s)
      BY <1>1, <1>3, Zenon
    <2> QED BY <2>1, AppendCounts, Zenon DEF Accounted
  <1> QED BY <1>2, <1>3, Zenon

\* The sessions change, but not whether they are deleted.
LEMMA OtherChange ==
  ASSUME NEW q, NEW ss, NEW cur, NEW tt, DOMAIN tt = DOMAIN ss,
         \A s \in DOMAIN ss : tt[s].deleted = ss[s].deleted, Accounted(q, ss, cur)
  PROVE  Accounted(q, tt, cur)
  BY Zenon DEF Accounted

\* The current session is given up and its deletion queued.
LEMMA GiveUpAccounted ==
  ASSUME NEW q \in Seq(Events), NEW ss \in Seq(Sessions), NEW cur \in 1 .. Len(ss),
         Accounted(q, ss, cur)
  PROVE  Accounted(Append(q, Del(cur)), ss, NoSession)
  <1>1. Del(cur) \in Events
    BY EventTypes DEF Del
  <1>2. \A s \in DOMAIN ss : s # NoSession
    BY DEF NoSession
  <1> QED BY <1>1, <1>2, AppendCounts, DelIsOne, Zenon DEF Accounted

\* A session is opened; nothing on the queue is about it.
LEMMA OpenAccounted ==
  ASSUME NEW q \in Seq(Events), NEW ss \in Seq(Sessions), NEW t \in Sessions, ~t.deleted,
         \A i \in DOMAIN q : q[i].ev = "EvTcpDeleteSession" => q[i].session \in DOMAIN ss,
         Accounted(q, ss, NoSession)
  PROVE  Accounted(q, Append(ss, t), Len(ss) + 1)
  <1>1. \A s \in DOMAIN Append(ss, t) : \/ s \in DOMAIN ss /\ Append(ss, t)[s] = ss[s] /\ s # Len(ss) + 1
                                        \/ s = Len(ss) + 1 /\ Append(ss, t)[s] = t
    OBVIOUS
  <1>2. Len(ss) + 1 \notin DOMAIN ss /\ \A s \in DOMAIN ss : s # NoSession
    BY DEF NoSession
  <1>3. None(q, Del(Len(ss) + 1))
    BY <1>2 DEF None, Del, Of
  <1> QED BY <1>1, <1>2, <1>3, Zenon DEF Accounted

\* The session at the head of the queue is deleted.
LEMMA DeleteAccounted ==
  ASSUME NEW q \in Seq(Events), NEW ss \in Seq(Sessions), NEW cur, NEW s \in DOMAIN ss,
         q # <<>>, Head(q) = Del(s), Accounted(q, ss, cur)
  PROVE  Accounted(Tail(q), [ss EXCEPT ![s].deleted = TRUE], cur)
  <1>1. Head(q) = q[1] /\ 1 \in DOMAIN q
    OBVIOUS
  <1>2. s # cur /\ Once(q, Del(s))
    BY <1>1, Zenon DEF Accounted, None
  <1>3. None(Tail(q), Del(s))
    BY <1>2, TailCounts, Zenon
  <1>4. \A t \in DOMAIN ss : t # s => Head(q) # Del(t)
    BY DelIsOne, Zenon
  <1>5. \A t \in DOMAIN ss : [ss EXCEPT ![s].deleted = TRUE][t] =
                                IF t = s THEN [ss[s] EXCEPT !.deleted = TRUE] ELSE ss[t]
    BY Zenon
  <1>6. [ss[s] EXCEPT !.deleted = TRUE].deleted = TRUE
    BY DEF Sessions
  <1>7. DOMAIN [ss EXCEPT ![s].deleted = TRUE] = DOMAIN ss
    BY Zenon
  <1> QED BY <1>2, <1>3, <1>4, <1>5, <1>6, <1>7, TailCounts, Zenon DEF Accounted

-----------------------------------------------------------------------------
(* What a step does to the events of the queue.                            *)

QueueInv == QueueState /\ HandshakeOnce /\ StaleFirst

Plain == {"EvConnectTimerExpired", "EvTcpClose", "EvSandeshSend", "EvCollectorUpdate"}

\* The session stays, and an event that no other depends on may be added.
LEMMA KeepQueue ==
  ASSUME QueueInv, NEW d \in {0, 1}, NEW x, x.ev \in Plain, Follows(queue, queue', d, x),
         state' = state \/ (state = "Disconnect" /\ state' = Idle), session_' = session_,
         DOMAIN sess \subseteq DOMAIN sess',
         state \in Connected =>
            (sess'[session_].tcp = "connecting" => sess[session_].tcp = "connecting"),
         idle_hold_timer_' = "running" => idle_hold_timer_ = "running",
         owner' = "started" => owner = "started", owner' # "new"
  PROVE  QueueInv'
  <1> USE DEF QueueInv, Follows, Plain, Idle
  <1>1. QueueState'
    BY DEF QueueState, Handshake, Reports
  <1>2. HandshakeOnce'
    BY DEF HandshakeOnce, OwnHandshake, Handshake, Connected
  <1>3. StaleFirst'
    BY DEF StaleFirst, Stale, OwnHandshake, Handshake, Reports
  <1> QED BY <1>1, <1>2, <1>3, Zenon

\* The machine goes idle and gives up its session.
LEMMA IdleQueue ==
  ASSUME QueueInv, queue \in Seq(Events), queue' \in Seq(Events), session_ \in DOMAIN sess,
         Follows(queue, queue', 1, Del(session_)), state \in Connected,
         state' = Idle, session_' = NoSession, DOMAIN sess' = DOMAIN sess,
         owner' = owner, owner # "new"
  PROVE  QueueInv'
  <1> USE DEF QueueInv, Follows, Del, Of, Idle, Connected
  <1>1. QueueState'
    BY DEF QueueState, Handshake, Reports
  <1>2. \A i \in DOMAIN queue' : ~OwnHandshake(i)'
    <2> SUFFICES ASSUME NEW i \in DOMAIN queue', queue'[i].ev \in Handshake
                 PROVE  queue'[i].session # NoSession
      BY Zenon DEF OwnHandshake
    <2>1. queue'[i] \in Events
      OBVIOUS
    <2> QED BY <2>1, Zenon DEF Events, Handshake, NoSession
  <1>3. HandshakeOnce'
    BY <1>2, Zenon DEF HandshakeOnce
  <1>4. StaleFirst'
    BY <1>2 DEF StaleFirst, QueueState
  <1> QED BY <1>1, <1>3, <1>4, Zenon

\* A session is opened by a machine that has had none: nothing is stale.
LEMMA OpenQueue ==
  ASSUME QueueInv, queue' = Tail(queue), queue \in Seq(Events), queue # <<>>,
         \A i \in DOMAIN queue' :
            queue'[i].ev \notin Reports \union {"EvIdleHoldTimerExpired", "EvStart"},
         DOMAIN sess \subseteq DOMAIN sess', state' = "Connect", owner' = owner, owner # "new"
  PROVE  QueueInv'
  <1>1. \A i \in DOMAIN queue' : i + 1 \in DOMAIN queue /\ queue'[i] = queue[i + 1]
    OBVIOUS
  <1> USE DEF QueueInv, Reports
  <1>2. QueueState'
    BY <1>1 DEF QueueState
  <1>3. HandshakeOnce' /\ StaleFirst'
    BY Zenon DEF HandshakeOnce, OwnHandshake, StaleFirst, Stale
  <1> QED BY <1>2, <1>3, Zenon

\* An established session is replaced: its messages are stale, but no connect is
\* reported yet.
LEMMA ReopenQueue ==
  ASSUME QueueInv, Follows(queue, queue', 1, Del(session_)), session_ \in DOMAIN sess,
         state = "Established", state' = "Connect",
         DOMAIN sess \subseteq DOMAIN sess', session_' \notin DOMAIN sess,
         owner' = owner, owner # "new"
  PROVE  QueueInv'
  <1> USE DEF QueueInv, Follows, Del, Of, Idle
  <1>1. QueueState'
    BY DEF QueueState, Handshake, Reports
  <1>2. \A i \in DOMAIN queue' : queue'[i].ev \notin Handshake
    <2>1. \A i \in DOMAIN queue : queue[i].ev \in Handshake => OwnHandshake(i)
      BY Zenon DEF StaleFirst, Stale, OwnHandshake, Reports
    <2>2. \A i \in DOMAIN queue : ~OwnHandshake(i)
      BY Zenon DEF HandshakeOnce
    <2> QED BY <2>1, <2>2 DEF Handshake
  <1>3. HandshakeOnce' /\ StaleFirst'
    BY <1>1, <1>2, Zenon DEF HandshakeOnce, OwnHandshake, StaleFirst, Stale, QueueState
  <1> QED BY <1>1, <1>3, Zenon

\* The machine acts on the end of its connect: nothing stale is left.
LEMMA InitQueue ==
  ASSUME QueueInv, queue # <<>>, queue \in Seq(Events), queue' \in Seq(Events),
         NEW x, x.ev \in Plain, Follows(queue, queue', 1, x),
         Head(queue).ev = "EvTcpConnected", state = "Connect", state' = "ClientInit",
         session_' = session_, sess' = sess, idle_hold_timer_' = idle_hold_timer_,
         owner' = owner, owner # "new"
  PROVE  QueueInv'
  <1>1. queue[1] = Head(queue) /\ 1 \in DOMAIN queue /\ \A i \in DOMAIN queue : i >= 1
    OBVIOUS
  <1> USE DEF QueueInv, Follows, Plain, Idle
  <1>2. OwnHandshake(1)
    BY <1>1, Zenon DEF StaleFirst, Stale, OwnHandshake, Handshake, Reports
  <1>3. \A i \in DOMAIN queue : i # 1 => ~OwnHandshake(i)
    BY <1>1, <1>2, Zenon DEF HandshakeOnce
  <1>4. \A i \in DOMAIN queue : ~Stale(i)
    BY <1>1, <1>2 DEF StaleFirst
  <1>5. QueueState'
    BY Zenon DEF QueueState, Handshake, Reports
  <1>6. \A i \in DOMAIN queue' : ~OwnHandshake(i)' /\ ~Stale(i)'
    <2>1. \A i \in DOMAIN queue' : i + 1 # 1
      OBVIOUS
    <2> QED BY <1>3, <1>4, <2>1, Zenon DEF OwnHandshake, Stale, Reports, Handshake
  <1>7. sess'[session_'].tcp # "connecting"
    BY <1>1, <1>2, Zenon DEF HandshakeOnce
  <1> QED BY <1>5, <1>6, <1>7, Zenon DEF HandshakeOnce, StaleFirst

\* The handshake is complete.
LEMMA EstablishedQueue ==
  ASSUME QueueInv, NEW x, x.ev \in Plain, Follows(queue, queue', 1, x),
         state = "ClientInit", state' = "Established",
         session_' = session_, sess' = sess, idle_hold_timer_' = idle_hold_timer_,
         owner' = owner, owner # "new"
  PROVE  QueueInv'
  <1> USE DEF QueueInv, Follows, Plain, Idle
  <1>1. QueueState'
    BY Zenon DEF QueueState, Handshake, Reports
  <1>2. HandshakeOnce'
    BY Zenon DEF HandshakeOnce, OwnHandshake, Handshake
  <1>3. StaleFirst'
    BY Zenon DEF StaleFirst, Stale, OwnHandshake, Handshake, Reports
  <1> QED BY <1>1, <1>2, <1>3, Zenon

\* EvStart finds a queue without reports and expiries.
LEMMA StartQueue ==
  ASSUME QueueInv, queue # <<>>, queue \in Seq(Events), queue' = Tail(queue),
         Head(queue).ev = "EvStart", state' \in {Idle, "Disconnect"},
         sess' = sess, owner' = owner, owner # "new"
  PROVE  QueueInv'
  <1>1. queue[1] = Head(queue) /\ 1 \in DOMAIN queue
    OBVIOUS
  <1>2. \A i \in DOMAIN queue' : i + 1 \in DOMAIN queue /\ i + 1 # 1 /\ queue'[i] = queue[i + 1]
    OBVIOUS
  <1>3. \A i \in DOMAIN queue' :
           queue'[i].ev \notin Reports \union {"EvIdleHoldTimerExpired", "EvStart"}
    BY <1>1, <1>2 DEF QueueInv, QueueState
  <1>4. QueueState'
    BY <1>2, <1>3 DEF QueueInv, QueueState
  <1>5. HandshakeOnce'
    BY <1>3, Zenon DEF HandshakeOnce, OwnHandshake, Reports, Idle
  <1>6. StaleFirst'
    BY <1>3, Zenon DEF StaleFirst, Stale
  <1> QED BY <1>4, <1>5, <1>6, Zenon DEF QueueInv

\* The idle-hold timer expires.
LEMMA ExpiryQueue ==
  ASSUME QueueInv, NEW x, x.ev = "EvIdleHoldTimerExpired", Follows(queue, queue', 0, x),
         state = Idle, idle_hold_timer_ = "running", idle_hold_timer_' = "init",
         UNCHANGED <<state, session_, sess, owner>>, owner # "new"
  PROVE  QueueInv'
  <1> USE DEF QueueInv, Follows
  <1>1. QueueState'
    BY DEF QueueState, Handshake, Reports
  <1>2. HandshakeOnce'
    BY DEF HandshakeOnce, OwnHandshake, Handshake
  <1>3. StaleFirst'
    BY DEF StaleFirst, Stale, OwnHandshake, Handshake, Reports
  <1> QED BY <1>1, <1>2, <1>3, Zenon

\* The end of a connect, or a message, is reported.
LEMMA ReportQueue ==
  ASSUME QueueInv, NEW x, x.ev \in Reports, x.session = session_, Follows(queue, queue', 0, x),
         session_ \in DOMAIN sess, state \in Connected,
         x.ev \in Handshake => sess[session_].tcp = "connecting" /\ sess'[session_].tcp # "connecting",
         sess'[session_].tcp = "connecting" => sess[session_].tcp = "connecting",
         DOMAIN sess' = DOMAIN sess,
         UNCHANGED <<state, session_, owner, idle_hold_timer_>>, owner # "new"
  PROVE  QueueInv'
  <1> USE DEF QueueInv, Follows, Idle, Connected
  <1>1. QueueState'
    BY Zenon DEF QueueState, Handshake, Reports
  <1>2. HandshakeOnce'
    BY DEF HandshakeOnce, OwnHandshake, Handshake
  <1>3. StaleFirst'
    BY DEF StaleFirst, Stale, OwnHandshake, Handshake, Reports
  <1> QED BY <1>1, <1>2, <1>3, Zenon

\* The owner stops the machine.
LEMMA StopQueue ==
  ASSUME QueueInv, NEW x, x.ev = "EvStop", Follows(queue, queue', 0, x),
         UNCHANGED <<state, session_, sess, idle_hold_timer_>>, owner' = "stopping"
  PROVE  QueueInv'
  <1> USE DEF QueueInv, Follows
  <1>1. QueueState'
    BY DEF QueueState, Handshake, Reports
  <1>2. HandshakeOnce'
    BY DEF HandshakeOnce, OwnHandshake, Handshake
  <1>3. StaleFirst'
    BY DEF StaleFirst, Stale, OwnHandshake, Handshake, Reports
  <1> QED BY <1>1, <1>2, <1>3, Zenon

\* The owner starts the machine.
LEMMA InitiateQueue ==
  ASSUME QueueInv, owner = "new", owner' = "started",
         \A i \in DOMAIN queue' : /\ i \in Nat
                                  /\ queue'[i].ev \in {"EvStart", "EvCollectorUpdate"}
                                  /\ queue'[i].ev = "EvStart" <=> i = 1,
         UNCHANGED <<state, session_, sess, idle_hold_timer_>>
  PROVE  QueueInv'
  <1> USE DEF QueueInv
  <1>1. QueueState'
    BY Zenon DEF QueueState, Handshake, Reports
  <1>2. HandshakeOnce'
    BY Zenon DEF HandshakeOnce, OwnHandshake, Handshake
  <1>3. StaleFirst'
    BY Zenon DEF StaleFirst, Stale, OwnHandshake, Handshake, Reports
  <1> QED BY <1>1, <1>2, <1>3, Zenon

-----------------------------------------------------------------------------
(* What the machine does with a session.                                   *)

LEMMA BecomeType ==
  ASSUME NEW n \in Machines, Become(n) PROVE (Current \in Machines)'
  <1>1. /\ state' = n.state /\ session_' = n.session /\ server_' = n.server
        /\ collectors_' = n.collectors /\ collector_index_' = n.index /\ hold' = n.hold
        /\ connect_timer_' = n.connect /\ idle_hold_timer_' = n.idle
        /\ queue' = n.queue /\ sess' = n.sess
    BY Zenon DEF Become
  <1> QED BY <1>1, Zenon DEF Current, Machines

LEMMA TypeNext ==
  ASSUME TypeOK, NEW n \in Machines, Become(n), InList(n), n.session <= Len(n.sess),
         Len(sess) <= Len(sess'), UNCHANGED <<owner, closer>>
  PROVE  TypeOK'
  <1>1. (Current \in Machines)'
    BY BecomeType, Zenon
  <1>2. /\ session_' <= Len(sess') /\ (collectors_' # <<>> => collector_index_' < Len(collectors_'))
        /\ Len(sess') \in Nat
    BY DEF Become, InList, Machines
  <1>3. closer.session \in Nat /\ closer.session <= Len(sess) /\ Len(sess) \in Nat
    BY DEF TypeOK, Current, Machines
  <1>4. closer.session <= Len(sess')
    BY <1>2, <1>3
  <1> QED BY <1>1, <1>2, <1>4, Zenon DEF TypeOK

\* The types, one by one.
Typed ==
  /\ state \in States /\ session_ \in Nat /\ session_ <= Len(sess)
  /\ queue \in Seq(Events) /\ sess \in Seq(Sessions)

LEMMA CurrentTyped == ASSUME TypeOK PROVE Typed
  BY Zenon DEF TypeOK, Typed, Current, Machines

\* The step of a machine that keeps its queue but for its head, and then x.
Steps(x) == queue' = Tail(queue) \/ queue' = Append(Tail(queue), x)

\* An event is handled, by a machine that is now m but for its queue.
Handling(m) ==
  /\ IInv /\ queue # <<>> /\ owner # "new"
  /\ m \in Machines /\ SameButList(Dequeued, m) /\ InList(m) /\ m.server = GetCollector(m)
  /\ UNCHANGED <<owner, closer>>

LEMMA HandlingIs ==
  ASSUME NEW m, Handling(m)
  PROVE  /\ m.state = state /\ m.session = session_ /\ m.queue = Tail(queue) /\ m.sess = sess
         /\ m.connect = connect_timer_ /\ m.idle = idle_hold_timer_
         /\ m.session \in Nat /\ m.session <= Len(m.sess)
         /\ Typed /\ Head(queue) \in Events /\ queue[1] = Head(queue) /\ 1 \in DOMAIN queue
         /\ Len(sess) \in Nat
         /\ session_ # NoSession <=> state \in Connected
         /\ Accounted(queue, sess, session_) /\ QueueInv
  <1>1. Typed
    BY CurrentTyped, Zenon DEF Handling, IInv
  <1>2. Head(queue) \in Events /\ queue[1] = Head(queue) /\ 1 \in DOMAIN queue /\ Len(sess) \in Nat
    BY <1>1 DEF Handling, Typed
  <1>3. /\ m.state = state /\ m.session = session_ /\ m.queue = Tail(queue) /\ m.sess = sess
        /\ m.connect = connect_timer_ /\ m.idle = idle_hold_timer_
    BY Zenon DEF Handling, SameButList, Dequeued, Current
  <1>4. Accounted(queue, sess, session_) /\ (session_ # NoSession <=> state \in Connected)
    BY AccountedIs, Zenon DEF Handling, IInv, SessionsAccounted, SessionToServer
  <1> QED BY <1>1, <1>2, <1>3, <1>4, Zenon DEF Handling, IInv, QueueInv, Typed

\* The machine gives up its session and goes idle.
GoesIdle(m, n) ==
  /\ n \in Machines /\ n.session = NoSession /\ GivesUp(m, n) /\ Len(n.sess) = Len(m.sess)
  /\ n.state = Idle /\ SameList(m, n) /\ n.connect # "running"
  /\ n.idle = "running" \/ owner # "started"

LEMMA IdleStep ==
  ASSUME NEW m, NEW n, Handling(m), GoesIdle(m, n), Become(n), state \in Connected,
         Head(queue).ev # "EvTcpDeleteSession"
  PROVE  IInv'
  <1>1. /\ m.state = state /\ m.session = session_ /\ m.queue = Tail(queue) /\ m.sess = sess
        /\ Typed /\ session_ # NoSession /\ Accounted(queue, sess, session_) /\ QueueInv
        /\ Len(sess) \in Nat
    BY HandlingIs, Zenon
  <1>2. /\ state' = Idle /\ session_' = NoSession /\ connect_timer_' # "running"
        /\ idle_hold_timer_' = "running" \/ owner # "started"
        /\ queue' = Append(Tail(queue), Del(session_))
        /\ sess' = [sess EXCEPT ![session_].tcp = "closed"]
    BY <1>1, Zenon DEF GoesIdle, GivesUp, Become, Del
  <1>3. /\ queue' \in Seq(Events) /\ sess' \in Seq(Sessions) /\ Len(sess') = Len(sess)
        /\ session_ \in DOMAIN sess /\ session_ \in 1 .. Len(sess)
        /\ queue # <<>> /\ queue \in Seq(Events) /\ Tail(queue) \in Seq(Events)
    BY <1>1 DEF GoesIdle, Become, Machines, Typed, NoSession, Handling
  <1>4. TypeOK'
    <2>1. n \in Machines /\ InList(n) /\ n.session <= Len(n.sess) /\ Len(sess) <= Len(sess')
      BY <1>1, <1>3 DEF GoesIdle, SameList, Handling, InList, NoSession
    <2> QED BY <2>1, TypeNext, Zenon DEF Handling, IInv
  <1>5. QueueInv'
    <2>1. Del(session_) \in Events
      BY <1>3, EventTypes DEF Del, NoSession
    <2>2. Follows(queue, queue', 1, Del(session_))
      BY <1>2, <1>3, <2>1, QueueSteps, Zenon
    <2>3. DOMAIN sess' = DOMAIN sess
      BY <1>2, Zenon
    <2> QED BY <1>1, <1>2, <1>3, <2>2, <2>3, IdleQueue, Zenon DEF Handling
  <1>6. GivenUpDeletedOnce'
    <2>1. Accounted(Tail(queue), sess, session_)
      BY <1>1, <1>3, OtherEvents, Zenon
    <2>2. Accounted(queue', sess, NoSession)
      BY <1>1, <1>2, <1>3, <2>1, GiveUpAccounted, Zenon DEF Typed
    <2>3. DOMAIN sess' = DOMAIN sess /\ \A s \in DOMAIN sess : sess'[s].deleted = sess[s].deleted
      BY <1>1, <1>2, <1>3 DEF Typed, Sessions
    <2>4. Accounted(queue', sess', session_')
      BY <1>2, <2>2, <2>3, OtherChange, Zenon
    <2> QED BY <2>4, AccountedNext, Zenon
  <1>7. MachineState' /\ SessionToServer'
    BY <1>2, Zenon
       DEF MachineState, SessionToServer, GoesIdle, SameList, Become, Handling, GetCollector,
           Current, Idle, Connected
  <1>8. TimerCovers'
    BY <1>2, Zenon DEF TimerCovers, Idle, Handling
  <1> QED BY <1>4, <1>5, <1>6, <1>7, <1>8, Zenon DEF IInv, QueueInv, SessionsAccounted

\* The machine opens a session; it has none.
LEMMA OpenStep ==
  ASSUME NEW m, NEW n, Handling(m), Opened(m, n), Become(n), state \in {Idle, "Disconnect"},
         Head(queue).ev \in {"EvIdleHoldTimerExpired", "EvCollectorUpdate"},
         Head(queue).ev = "EvCollectorUpdate" => state = "Disconnect"
  PROVE  IInv'
  <1>1. /\ m.state = state /\ m.session = session_ /\ m.queue = Tail(queue) /\ m.sess = sess
        /\ m.idle = idle_hold_timer_ /\ queue[1] = Head(queue) /\ 1 \in DOMAIN queue
        /\ Typed /\ session_ = NoSession /\ Accounted(queue, sess, NoSession) /\ QueueInv
        /\ Len(sess) \in Nat
    BY HandlingIs, Zenon DEF Connected, Idle
  <1>2. /\ state' = "Connect" /\ session_' = Len(sess) + 1 /\ connect_timer_' = "running"
        /\ queue' = Tail(queue) /\ sess' = Append(sess, NewSession(m.server))
        /\ idle_hold_timer_' = IF state = Idle THEN "cancelled" ELSE idle_hold_timer_
    BY <1>1, Zenon DEF Opened, Become
  <1>3. /\ queue # <<>> /\ queue \in Seq(Events) /\ Tail(queue) \in Seq(Events)
        /\ sess \in Seq(Sessions) /\ sess' \in Seq(Sessions) /\ Len(sess') = Len(sess) + 1
        /\ DOMAIN sess \subseteq DOMAIN sess' /\ sess'[Len(sess) + 1] = NewSession(m.server)
        /\ NewSession(m.server) \in Sessions
    BY <1>1, <1>2 DEF Typed, Handling, Opened, Machines, NewSession, Sessions
  <1>4. TypeOK'
    <2>1. n \in Machines /\ InList(n) /\ n.session <= Len(n.sess) /\ Len(sess) <= Len(sess')
      BY <1>1, <1>2, <1>3 DEF Opened, Become, SameList, Handling, InList
    <2> QED BY <2>1, TypeNext, Zenon DEF Handling, IInv
  <1>5. \A i \in DOMAIN queue' :
           queue'[i].ev \notin Reports \union {"EvIdleHoldTimerExpired", "EvStart"}
    <2>1. \A i \in DOMAIN queue' : i + 1 \in DOMAIN queue /\ queue'[i] = queue[i + 1] /\ i + 1 > 1
      BY <1>2, <1>3
    <2>2. \A i \in DOMAIN queue : queue[i].ev \in Reports => Stale(i)
      <3>1. \A i \in DOMAIN queue : queue[i] \in Events
        BY <1>3
      <3> QED BY <1>1, <3>1, Zenon DEF Stale, Reports, Handshake, Events, NoSession
    <2>3. \A i \in DOMAIN queue : ~(i > 1 /\ queue[i].ev \in Reports)
      <3>1. CASE state = "Disconnect"
        BY <1>1, <2>2, <3>1, Zenon DEF QueueInv, StaleFirst, Idle
      <3>2. CASE state = Idle
        <4>1. queue[1].ev = "EvIdleHoldTimerExpired"
          BY <1>1, <3>2, Zenon DEF Idle
        <4> QED BY <1>1, <1>3, <2>2, <4>1 DEF QueueInv, StaleFirst
      <3> QED BY <3>1, <3>2, Zenon
    <2>4. \A i \in DOMAIN queue : i > 1 => queue[i].ev \notin {"EvIdleHoldTimerExpired", "EvStart"}
      BY <1>1, <1>3 DEF QueueInv, QueueState, Idle
    <2> QED BY <2>1, <2>3, <2>4, Zenon
  <1>6. QueueInv'
    BY <1>1, <1>2, <1>3, <1>5, OpenQueue, Zenon DEF Handling
  <1>7. GivenUpDeletedOnce'
    <2>1. Accounted(Tail(queue), sess, NoSession)
      BY <1>1, <1>3, OtherEvents, Zenon
    <2>2. \A i \in DOMAIN Tail(queue) :
             Tail(queue)[i].ev = "EvTcpDeleteSession" => Tail(queue)[i].session \in DOMAIN sess
      BY <1>1, <1>3 DEF QueueInv, QueueState
    <2>3. Accounted(queue', sess', session_')
      BY <1>2, <1>3, <2>1, <2>2, OpenAccounted, Zenon DEF NewSession
    <2> QED BY <2>3, AccountedNext, Zenon
  <1>8. MachineState' /\ SessionToServer'
    <2>1. server_' = m.server /\ server_' = GetCollector(Current)'
      BY Zenon DEF Opened, SameList, Become, Handling, GetCollector, Current
    <2> QED BY <1>1, <1>2, <1>3, <2>1
               DEF MachineState, SessionToServer, Connected, NoSession, NewSession
  <1>9. TimerCovers'
    BY <1>2, Zenon DEF TimerCovers, Idle, Handling, IInv
  <1> QED BY <1>4, <1>6, <1>7, <1>8, <1>9, Zenon DEF IInv, QueueInv, SessionsAccounted

\* An established session is given up for one to another collector.
LEMMA ReopenStep ==
  ASSUME NEW m, NEW k, NEW n, Handling(m), Idled(m, k), Opened(k, n), Become(n),
         state = "Established", Head(queue).ev # "EvTcpDeleteSession"
  PROVE  IInv'
  <1>1. /\ m.state = state /\ m.session = session_ /\ m.queue = Tail(queue) /\ m.sess = sess
        /\ Typed /\ session_ # NoSession /\ Accounted(queue, sess, session_) /\ QueueInv
        /\ Len(sess) \in Nat
    BY HandlingIs, Zenon DEF Connected
  <1> DEFINE c == [sess EXCEPT ![session_].tcp = "closed"]
  <1>2. /\ state' = "Connect" /\ session_' = Len(sess) + 1 /\ connect_timer_' = "running"
        /\ queue' = Append(Tail(queue), Del(session_)) /\ sess' = Append(c, NewSession(m.server))
        /\ idle_hold_timer_' = "cancelled"
    BY <1>1, Zenon DEF Opened, Idled, GivesUp, SameList, Become, Del, Idle
  <1>3. /\ queue # <<>> /\ queue \in Seq(Events) /\ Tail(queue) \in Seq(Events)
        /\ sess \in Seq(Sessions) /\ session_ \in 1 .. Len(sess) /\ session_ \in DOMAIN sess
    BY <1>1 DEF Typed, Handling, NoSession
  <1>4. /\ c \in Seq(Sessions) /\ DOMAIN c = DOMAIN sess /\ Len(c) = Len(sess)
        /\ \A s \in DOMAIN sess : c[s].deleted = sess[s].deleted
    <2>1. c \in Seq(Sessions) /\ Len(c) = Len(sess)
      BY <1>3, ChangeTcp, Zenon
    <2>2. DOMAIN c = DOMAIN sess /\ \A s \in DOMAIN sess : c[s].deleted = sess[s].deleted
      BY <1>3 DEF Sessions
    <2> QED BY <2>1, <2>2, Zenon
  <1>5. NewSession(m.server) \in Sessions /\ Del(session_) \in Events
    BY <1>3, EventTypes DEF Handling, Machines, NewSession, Sessions, Del
  <1> HIDE DEF c
  <1>6. /\ queue' \in Seq(Events) /\ Len(sess') = Len(sess) + 1 /\ sess' \in Seq(Sessions)
        /\ DOMAIN sess \subseteq DOMAIN sess' /\ sess'[Len(sess) + 1] = NewSession(m.server)
        /\ session_' \notin DOMAIN sess
    BY <1>2, <1>3, <1>4, <1>5
  <1>7. TypeOK'
    <2>1. n \in Machines /\ InList(n)
      BY Zenon DEF Opened, Idled, SameList, Handling, InList
    <2>2. n.session <= Len(n.sess) /\ Len(sess) <= Len(sess')
      BY <1>1, <1>2, <1>6 DEF Become
    <2> QED BY <2>1, <2>2, TypeNext, Zenon DEF Handling, IInv
  <1>8. QueueInv'
    <2>1. Follows(queue, queue', 1, Del(session_))
      BY <1>2, <1>3, <1>5, QueueSteps, Zenon
    <2> QED BY <1>1, <1>2, <1>3, <1>6, <2>1, ReopenQueue, Zenon DEF Handling
  <1>9. GivenUpDeletedOnce'
    <2>1. Accounted(Tail(queue), sess, session_)
      BY <1>1, <1>3, OtherEvents, Zenon
    <2>2. Accounted(queue', sess, NoSession)
      BY <1>2, <1>3, <2>1, GiveUpAccounted, Zenon
    <2>3. Accounted(queue', c, NoSession)
      BY <1>4, <2>2, OtherChange, Zenon
    <2>4. \A i \in DOMAIN queue' :
             queue'[i].ev = "EvTcpDeleteSession" => queue'[i].session \in DOMAIN c
      <3>1. \A i \in DOMAIN queue' :
               queue'[i] = Del(session_) \/ (i + 1 \in DOMAIN queue /\ queue'[i] = queue[i + 1])
        BY <1>2, <1>3
      <3> QED BY <1>1, <1>3, <1>4, <3>1 DEF QueueInv, QueueState, Del, Of
    <2>5. Accounted(queue', sess', session_')
      BY <1>2, <1>4, <1>5, <1>6, <2>3, <2>4, OpenAccounted, Zenon DEF NewSession
    <2> QED BY <2>5, AccountedNext, Zenon
  <1>10. MachineState' /\ SessionToServer'
    <2>1. server_' = m.server /\ server_' = GetCollector(Current)'
      BY ZenonT(60) DEF Opened, Idled, SameList, Become, Handling, GetCollector, Current
    <2> QED BY <1>1, <1>2, <1>6, <2>1
               DEF MachineState, SessionToServer, Connected, NoSession, NewSession
  <1>11. TimerCovers'
    BY <1>2, Zenon DEF TimerCovers, Idle, Handling
  <1> QED BY <1>7, <1>8, <1>9, <1>10, <1>11, Zenon DEF IInv, QueueInv, SessionsAccounted

\* The session stays; an event that no other depends on leaves the queue.
Kept(m, n) ==
  /\ n \in Machines /\ SameList(m, n) /\ n.session = m.session /\ n.queue = m.queue
  /\ DOMAIN n.sess = DOMAIN m.sess /\ Len(n.sess) = Len(m.sess) /\ n.connect = m.connect
  /\ \A s \in DOMAIN m.sess : n.sess[s].ep = m.sess[s].ep /\ n.sess[s].tcp = m.sess[s].tcp
  /\ n.idle = m.idle \/ (n.idle # "running" /\ owner # "started")
  /\ n.state = m.state \/ (m.state = "Disconnect" /\ n.state = Idle /\ owner # "started")

LEMMA KeepStep ==
  ASSUME NEW m, NEW n, Handling(m), Kept(m, n), Become(n),
         session_ # NoSession => m.server = server_,
         Accounted(queue', sess', session_'),
         Head(queue).ev \notin {"EvStart", "EvIdleHoldTimerExpired"},
         Head(queue).ev = "EvConnectTimerExpired" => state \notin {"Connect", "ClientInit"}
  PROVE  IInv'
  <1>1. /\ m.state = state /\ m.session = session_ /\ m.queue = Tail(queue) /\ m.sess = sess
        /\ m.connect = connect_timer_ /\ m.idle = idle_hold_timer_
        /\ Typed /\ QueueInv /\ Len(sess) \in Nat
        /\ session_ # NoSession <=> state \in Connected
    BY HandlingIs, Zenon
  <1>2. /\ state' = state \/ (state = "Disconnect" /\ state' = Idle /\ owner # "started")
        /\ session_' = session_ /\ queue' = Tail(queue) /\ connect_timer_' = connect_timer_
        /\ idle_hold_timer_' = idle_hold_timer_ \/ (idle_hold_timer_' # "running" /\ owner # "started")
        /\ DOMAIN sess' = DOMAIN sess /\ Len(sess') = Len(sess)
        /\ \A s \in DOMAIN sess : sess'[s].ep = sess[s].ep /\ sess'[s].tcp = sess[s].tcp
    BY <1>1, Zenon DEF Kept, Become
  <1>3. /\ queue # <<>> /\ queue \in Seq(Events)
        /\ session_ # NoSession => session_ \in DOMAIN sess
    BY <1>1 DEF Typed, Handling, NoSession
  <1>4. TypeOK'
    <2>1. n \in Machines /\ InList(n) /\ n.session <= Len(n.sess) /\ Len(sess) <= Len(sess')
      BY <1>1, <1>2 DEF Kept, SameList, Handling, InList, Typed
    <2> QED BY <2>1, TypeNext, Zenon DEF Handling, IInv
  <1>5. QueueInv'
    <2> DEFINE x == Event("EvSandeshSend")
    <2>1. x \in Events /\ x.ev \in Plain
      BY EventTypes, Zenon DEF Event, Plain
    <2> HIDE DEF x
    <2>2. Follows(queue, queue', 1, x)
      BY <1>2, <1>3, <2>1, QueueSteps, Zenon
    <2>3. state \in Connected =>
             (sess'[session_].tcp = "connecting" => sess[session_].tcp = "connecting")
      BY <1>1, <1>2, <1>3, Zenon
    <2> QED BY <1>1, <1>2, <2>1, <2>2, <2>3, KeepQueue, Zenon DEF Handling
  <1>6. MachineState' /\ SessionToServer'
    <2>1. server_' = m.server /\ server_' = GetCollector(Current)'
      BY Zenon DEF Kept, SameList, Become, Handling, GetCollector, Current
    <2>2. session_ # NoSession => sess[session_].ep = server_
      BY Zenon DEF Handling, IInv, SessionsAccounted, SessionToServer
    <2> QED BY <1>1, <1>2, <1>3, <2>1, <2>2, Zenon
               DEF MachineState, SessionToServer, Connected, Idle, Handling, IInv
  <1>7. TimerCovers'
    <2>1. \A name : Has(queue, name) => Has(queue', name) \/ Head(queue).ev = name
      BY <1>2, <1>3, HasSteps, EventTypes, Zenon
    <2>2. Covers(queue)
      BY CoversIs, Zenon DEF Handling, IInv
    <2>3. Covers(queue)'
      BY <1>2, <2>1, <2>2, Zenon DEF Covers, Idle, Handling
    <2> QED BY <2>3, CoversNext, Zenon
  <1>8. GivenUpDeletedOnce'
    BY AccountedNext, Zenon
  <1> QED BY <1>4, <1>5, <1>6, <1>7, <1>8, Zenon DEF IInv, QueueInv, SessionsAccounted

\* The event has no effect, or none but on the list.
LEMMA DropStep ==
  ASSUME NEW m, Handling(m), Become(m), session_ # NoSession => m.server = server_,
         Head(queue).ev \notin {"EvStart", "EvIdleHoldTimerExpired", "EvTcpDeleteSession"},
         Head(queue).ev = "EvConnectTimerExpired" => state \notin {"Connect", "ClientInit"}
  PROVE  IInv'
  <1>1. Kept(m, m)
    BY Zenon DEF Kept, Handling, SameList
  <1>2. Accounted(queue', sess', session_')
    <2>1. /\ m.session = session_ /\ m.queue = Tail(queue) /\ m.sess = sess
          /\ Accounted(queue, sess, session_) /\ queue \in Seq(Events)
      BY HandlingIs, Zenon DEF Typed
    <2> QED BY <2>1, OtherEvents, Zenon DEF Become, Handling
  <1> QED BY <1>1, <1>2, KeepStep, Zenon

LEMMA DequeuedIs ==
  ASSUME IInv, queue # <<>>, UNCHANGED <<owner, closer>>
  PROVE  /\ Handling(Dequeued) /\ owner # "new"
         /\ \A m : Listed(Dequeued, m) => Handling(m)
  <1>1. owner # "new"
    BY Zenon DEF IInv, QueueState
  <1>2. Tail(queue) \in Seq(Events)
    BY CurrentTyped DEF IInv, Typed
  <1>3. Current \in Machines /\ InList(Current) /\ server_ = GetCollector(Current)
    BY Zenon DEF IInv, TypeOK, MachineState, InList, Current
  <1>4. Dequeued \in Machines /\ InList(Dequeued) /\ Dequeued.server = GetCollector(Dequeued)
    BY <1>2, <1>3, Zenon DEF Dequeued, Current, Machines, InList, GetCollector
  <1> QED BY <1>1, <1>4, Zenon DEF Handling, SameButList, Listed

-----------------------------------------------------------------------------
(* The reactions.                                                          *)

LEMMA EvStartInv ==
  ASSUME IInv, EvStart PROVE IInv'
  <1>1. /\ queue # <<>> /\ Head(queue).ev = "EvStart" /\ UNCHANGED <<owner, closer>>
        /\ Become(IF state \in {Idle}
                  THEN IF hold THEN StartIdleHoldTimer(Dequeued) ELSE Enter(Dequeued,
                  "Disconnect")
                  ELSE Dequeued)
    BY Zenon DEF EvStart, React, Ready
  <1>2. /\ Handling(Dequeued) /\ owner # "new"
        /\ Dequeued.state = state /\ Dequeued.session = session_ /\ Dequeued.queue = Tail(queue)
        /\ Dequeued.sess = sess /\ Dequeued.connect = connect_timer_ /\ Typed /\ QueueInv
        /\ Accounted(queue, sess, session_) /\ queue[1] = Head(queue) /\ 1 \in DOMAIN queue
        /\ session_ # NoSession <=> state \in Connected
    BY <1>1, DequeuedIs, HandlingIs, Zenon
  <1>3. state = Idle /\ session_ = NoSession
    BY <1>1, <1>2, Zenon DEF QueueInv, QueueState, Connected, Idle
  <1> DEFINE n == IF hold THEN StartIdleHoldTimer(Dequeued) ELSE Enter(Dequeued, "Disconnect")
  <1>4. /\ n \in Machines /\ SameList(Dequeued, n) /\ n.session = NoSession /\ n.queue = Tail(queue)
        /\ n.sess = sess /\ n.connect = connect_timer_
        /\ \/ n.state = Idle /\ n.idle = "running"
           \/ n.state = "Disconnect" /\ n.idle = "cancelled"
    <2>1. Dequeued.hold = hold /\ Dequeued \in Machines
      BY <1>2, Zenon DEF Dequeued, Current, Handling
    <2>2. CASE hold
      BY <1>2, <1>3, <2>1, <2>2, Zenon DEF StartIdleHoldTimer, Machines, Timers, SameList
    <2>3. CASE ~hold
      BY <1>2, <1>3, <2>1, <2>3, Zenon
         DEF Enter, Leave, CancelIdleHoldTimer, Machines, Timers, States, SameList
    <2> QED BY <2>2, <2>3, Zenon
  <1>5. Become(n)
    BY <1>1, <1>3, Zenon
  <1> HIDE DEF n
  <1>6. /\ session_' = NoSession /\ queue' = Tail(queue) /\ sess' = sess /\ connect_timer_' = connect_timer_
        /\ \/ state' = Idle /\ idle_hold_timer_' = "running"
           \/ state' = "Disconnect" /\ idle_hold_timer_' = "cancelled"
    BY <1>4, <1>5, Zenon DEF Become
  <1>7. TypeOK'
    <2>1. InList(n) /\ n.session <= Len(n.sess) /\ Len(sess) <= Len(sess')
      BY <1>2, <1>4, <1>6 DEF SameList, Handling, InList, Typed, NoSession
    <2> QED BY <1>1, <1>4, <1>5, <2>1, TypeNext, Zenon DEF IInv
  <1>8. QueueInv'
    BY <1>1, <1>2, <1>6, StartQueue, Zenon DEF Typed
  <1>9. GivenUpDeletedOnce'
    BY <1>1, <1>2, <1>3, <1>6, OtherEvents, AccountedNext, Zenon DEF Typed
  <1>10. MachineState' /\ SessionToServer'
    <2>1. server_' = GetCollector(Current)'
      BY <1>2, <1>4, <1>5, Zenon DEF SameList, Become, Handling, GetCollector, Current
    <2> QED BY <1>6, <2>1, Zenon DEF MachineState, SessionToServer, Connected, Idle
  <1>11. TimerCovers'
    BY <1>3, <1>6, Zenon DEF TimerCovers, Idle, IInv
  <1> QED BY <1>7, <1>8, <1>9, <1>10, <1>11, Zenon DEF IInv, QueueInv, SessionsAccounted

LEMMA EvStopInv ==
  ASSUME IInv, EvStop PROVE IInv'
  <1>1. /\ queue # <<>> /\ Head(queue).ev = "EvStop" /\ UNCHANGED <<owner, closer>>
        /\ Become(IF state = Idle THEN CancelIdleHoldTimer(Dequeued)
                  ELSE [OnIdle(Leave(Dequeued)) EXCEPT !.state = Idle])
    <2>1. state \in {Idle, "Disconnect"} \union Connected
      BY CurrentTyped, Zenon DEF IInv, Typed, States
    <2> QED BY <2>1, Zenon DEF EvStop, React, Ready
  <1> DEFINE m == Dequeued
  <1>2. /\ Handling(m) /\ m \in Machines /\ m.state = state /\ m.session = session_
        /\ m.session <= Len(m.sess) /\ m.queue = Tail(queue) /\ m.sess = sess
        /\ m.connect = connect_timer_ /\ Typed /\ QueueInv
        /\ Accounted(queue, sess, session_) /\ queue[1] = Head(queue) /\ 1 \in DOMAIN queue
        /\ session_ # NoSession <=> state \in Connected
    BY <1>1, DequeuedIs, HandlingIs, Zenon DEF Handling
  <1>3. owner # "started" /\ m.server = server_
    BY <1>1, <1>2, Zenon DEF QueueInv, QueueState, Dequeued, Current
  <1>4. Accounted(Tail(queue), sess, session_)
    BY <1>1, <1>2, OtherEvents, Zenon DEF Typed
  <1>5. CASE state = Idle
    <2> DEFINE n == CancelIdleHoldTimer(m)
    <2>1. Kept(m, n) /\ n.sess = sess
      BY <1>2, <1>3, Zenon DEF CancelIdleHoldTimer, Machines, Timers, Kept, SameList
    <2>2. Become(n)
      BY <1>1, <1>5, Zenon
    <2>3. Accounted(queue', sess', session_')
      BY <1>2, <1>4, <2>1, <2>2, Zenon DEF Become, Kept
    <2> QED BY <1>1, <1>2, <1>3, <2>1, <2>2, <2>3, KeepStep, Zenon
  <1>6. CASE state = "Disconnect"
    <2> DEFINE k == OnIdle(m)
               n == [k EXCEPT !.state = Idle]
    <2>1. Idled(m, k) /\ m.session = NoSession
      BY <1>2, <1>6, OnIdleIs, Zenon DEF Connected
    <2>2. Leave(m) = m
      BY <1>2, <1>6, Zenon DEF Leave, Idle
    <2>3. Become(n)
      BY <1>1, <1>6, <2>2, Zenon DEF Idle
    <2> HIDE DEF k
    <2>4. Kept(m, n) /\ n.sess = sess
      BY <1>2, <1>3, <1>6, <2>1, Zenon DEF Idled, GivesUp, Machines, States, Kept, SameList
    <2>5. Accounted(queue', sess', session_')
      BY <1>2, <1>4, <2>3, <2>4, Zenon DEF Become, Kept
    <2> QED BY <1>1, <1>2, <1>3, <2>3, <2>4, <2>5, KeepStep, Zenon
  <1>7. CASE state \in Connected
    <2> DEFINE l == Leave(m)
               k == OnIdle(l)
               n == [k EXCEPT !.state = Idle]
    <2>1. /\ l \in Machines /\ SameList(m, l) /\ l.session = m.session /\ l.queue = m.queue
          /\ l.sess = m.sess /\ l.connect # "running"
      <3>1. connect_timer_ # "running" \/ state \in {"Connect", "ClientInit"}
        BY Zenon DEF IInv, TimerCovers
      <3> QED BY <1>2, <1>7, <3>1, Zenon
                 DEF Leave, CancelConnectTimer, Connected, Idle, Machines, Timers, SameList
    <2> HIDE DEF l
    <2>2. Idled(l, k)
      BY <1>2, <2>1, OnIdleIs, Zenon
    <2>3. Become(n)
      BY <1>1, <1>7, Zenon DEF Idle, Connected, l
    <2> HIDE DEF k
    <2>4. GoesIdle(m, n)
      BY <1>3, <2>1, <2>2, Zenon DEF Idled, GivesUp, GoesIdle, Machines, States, SameList
    <2> QED BY <1>1, <1>2, <1>7, <2>3, <2>4, IdleStep, Zenon
  <1> QED BY <1>2, <1>5, <1>6, <1>7, Zenon DEF Typed, States

LEMMA EvCollectorUpdateInv ==
  ASSUME CollectorLists \subseteq Seq(Endpoints), IInv, EvCollectorUpdate PROVE IInv'
  <1> DEFINE m == CollectorUpdate(Dequeued, Head(queue).list)
  <1>1. /\ queue # <<>> /\ Head(queue).ev = "EvCollectorUpdate" /\ UNCHANGED <<owner, closer>>
        /\ Become(CASE state = "Disconnect" -> EnterConnect(m)
                    [] state = "Established" /\ m.server # server_ -> EnterConnect(OnIdle(m))
                    [] state \in {"Connect", "ClientInit"} /\ m.server # server_ -> ToIdle(m)
                    [] OTHER -> m)
    BY Zenon DEF EvCollectorUpdate, Ready
  <1>2. Handling(Dequeued)
    BY <1>1, DequeuedIs, Zenon
  <1>3. Head(queue).list \in CollectorLists
    BY <1>1, <1>2, HandlingIs, Zenon DEF Events
  <1>4. Handling(m)
    BY <1>1, <1>2, <1>3, CollectorUpdateIs, DequeuedIs, Zenon DEF Handling
  <1> HIDE DEF m
  <1>5. /\ m \in Machines /\ m.session <= Len(m.sess) /\ m.state = state
        /\ session_ # NoSession <=> state \in Connected
        /\ m.session = session_
    BY <1>4, HandlingIs, Zenon DEF Handling
  <1>6. CASE state = "Disconnect"
    <2>1. Opened(m, EnterConnect(m)) /\ Become(EnterConnect(m))
      BY <1>1, <1>5, <1>6, EnterConnectIs, Zenon DEF Connected
    <2> QED BY <1>1, <1>4, <1>6, <2>1, OpenStep, Zenon
  <1>7. CASE state = "Established" /\ m.server # server_
    <2>1. Idled(m, OnIdle(m))
      BY <1>5, OnIdleIs, Zenon
    <2>2. Opened(OnIdle(m), EnterConnect(OnIdle(m))) /\ Become(EnterConnect(OnIdle(m)))
      BY <1>1, <1>7, <2>1, EnterConnectIs, Zenon DEF Idled
    <2> QED BY <1>1, <1>4, <1>7, <2>1, <2>2, ReopenStep, Zenon
  <1>8. CASE state \in {"Connect", "ClientInit"} /\ m.server # server_
    <2>1. WentIdle(m, ToIdle(m)) /\ Become(ToIdle(m))
      BY <1>1, <1>5, <1>8, ToIdleIs, Zenon DEF Connected
    <2>2. GoesIdle(m, ToIdle(m))
      BY <1>5, <1>8, <2>1, Zenon DEF WentIdle, GoesIdle
    <2> QED BY <1>1, <1>4, <1>8, <2>1, <2>2, IdleStep, Zenon DEF Connected
  <1>9. CASE ~(state = "Disconnect" \/ (state \in Connected /\ m.server # server_))
    <2>1. Become(m) /\ (session_ # NoSession => m.server = server_)
      BY <1>1, <1>5, <1>9, Zenon DEF Connected
    <2> QED BY <1>1, <1>4, <2>1, DropStep, Zenon
  <1> QED BY <1>6, <1>7, <1>8, <1>9, Zenon DEF Connected

LEMMA EvIdleHoldTimerExpiredInv ==
  ASSUME IInv, EvIdleHoldTimerExpired PROVE IInv'
  <1>1. /\ queue # <<>> /\ Head(queue).ev = "EvIdleHoldTimerExpired" /\ UNCHANGED <<owner, closer>>
        /\ Become(IF state \in {Idle} THEN EnterConnect(Dequeued) ELSE Dequeued)
    BY Zenon DEF EvIdleHoldTimerExpired, React, Ready
  <1>2. /\ Handling(Dequeued) /\ Dequeued.session = session_ /\ QueueInv
        /\ queue[1] = Head(queue) /\ 1 \in DOMAIN queue
        /\ session_ # NoSession <=> state \in Connected
    BY <1>1, DequeuedIs, HandlingIs, Zenon
  <1>3. state = Idle /\ session_ = NoSession
    BY <1>1, <1>2, Zenon DEF QueueInv, QueueState, Connected, Idle
  <1>4. Opened(Dequeued, EnterConnect(Dequeued)) /\ Become(EnterConnect(Dequeued))
    BY <1>1, <1>2, <1>3, EnterConnectIs, Zenon DEF Handling
  <1> QED BY <1>1, <1>2, <1>3, <1>4, OpenStep, Zenon

\* The machine changes to the next collector and goes idle.
LEMMA FailStep ==
  ASSUME CollectorLists \subseteq Seq(Endpoints), IInv, queue # <<>>, UNCHANGED <<owner, closer>>,
         state \in Connected, Head(queue).ev # "EvTcpDeleteSession",
         NEW m, m = Dequeued \/ m = CollectorChange(Dequeued), Become(ToIdle(m))
  PROVE  IInv'
  <1>1. Handling(Dequeued)
    BY DequeuedIs, Zenon
  <1>2. Handling(m)
    BY <1>1, CollectorChangeIs, DequeuedIs, Zenon DEF Handling
  <1>3. m \in Machines /\ m.session <= Len(m.sess) /\ m.state = state /\ m.connect = connect_timer_
    BY <1>2, HandlingIs, Zenon DEF Handling
  <1>4. WentIdle(m, ToIdle(m))
    BY <1>3, ToIdleIs, Zenon
  <1>5. state = "Established" => connect_timer_ # "running"
    BY Zenon DEF IInv, TimerCovers
  <1>6. GoesIdle(m, ToIdle(m))
    BY <1>3, <1>4, <1>5, Zenon DEF WentIdle, GoesIdle
  <1> QED BY <1>2, <1>6, IdleStep, Zenon

LEMMA DequeuedStep ==
  ASSUME IInv, queue # <<>>, UNCHANGED <<owner, closer>>, Become(Dequeued),
         Head(queue).ev \notin {"EvStart", "EvIdleHoldTimerExpired", "EvTcpDeleteSession"},
         Head(queue).ev = "EvConnectTimerExpired" => state \notin {"Connect", "ClientInit"}
  PROVE  IInv'
  <1>1. Handling(Dequeued) /\ Dequeued.server = server_
    BY DequeuedIs, Zenon DEF Dequeued, Current
  <1> QED BY <1>1, DropStep, Zenon

LEMMA EvConnectTimerExpiredInv ==
  ASSUME CollectorLists \subseteq Seq(Endpoints), IInv, EvConnectTimerExpired PROVE IInv'
  <1>1. connect_timer_ = "cancelled" => state \notin {"Connect", "ClientInit"}
    BY Zenon DEF IInv, MachineState
  <1>2. /\ queue # <<>> /\ Head(queue).ev = "EvConnectTimerExpired" /\ UNCHANGED <<owner, closer>>
        /\ Become(IF state \in {"Connect", "ClientInit"} THEN ToIdle(CollectorChange(Dequeued)) ELSE Dequeued)
    BY <1>1, Zenon DEF EvConnectTimerExpired, React, Ready
  <1>3. CASE state \in {"Connect", "ClientInit"}
    BY <1>2, <1>3, FailStep, Zenon DEF Connected
  <1>4. CASE state \notin {"Connect", "ClientInit"}
    BY <1>2, <1>4, DequeuedStep, Zenon
  <1> QED BY <1>3, <1>4, Zenon

LEMMA EvTcpConnectFailInv ==
  ASSUME CollectorLists \subseteq Seq(Endpoints), IInv, EvTcpConnectFail PROVE IInv'
  <1>1. /\ queue # <<>> /\ Head(queue).ev = "EvTcpConnectFail" /\ UNCHANGED <<owner, closer>>
        /\ Become(IF state \in {"Connect"} THEN ToIdle(CollectorChange(Dequeued)) ELSE Dequeued)
    BY Zenon DEF EvTcpConnectFail, React, Ready
  <1>2. CASE state = "Connect"
    BY <1>1, <1>2, FailStep, Zenon DEF Connected
  <1>3. CASE state # "Connect"
    BY <1>1, <1>3, DequeuedStep, Zenon
  <1> QED BY <1>2, <1>3, Zenon

LEMMA EvTcpCloseInv ==
  ASSUME CollectorLists \subseteq Seq(Endpoints), IInv, EvTcpClose PROVE IInv'
  <1> DEFINE m == CollectorChange(Dequeued)
  <1>1. /\ queue # <<>> /\ Head(queue).ev = "EvTcpClose" /\ UNCHANGED <<owner, closer>>
        /\ Become(IF state \in Connected
                  THEN IF state = "Established" /\ m.server # server_
                       THEN EnterConnect(OnIdle(m)) ELSE ToIdle(m)
                  ELSE Dequeued)
    BY Zenon DEF EvTcpClose, React, Ready
  <1>2. Handling(Dequeued)
    BY <1>1, DequeuedIs, Zenon
  <1>3. Handling(m)
    BY <1>1, <1>2, CollectorChangeIs, DequeuedIs, Zenon DEF Handling
  <1>4. CASE state = "Established" /\ m.server # server_
    <2> HIDE DEF m
    <2>1. m \in Machines /\ m.session <= Len(m.sess)
      BY <1>3, HandlingIs, Zenon DEF Handling
    <2>2. Idled(m, OnIdle(m))
      BY <2>1, OnIdleIs, Zenon
    <2>3. Opened(OnIdle(m), EnterConnect(OnIdle(m))) /\ Become(EnterConnect(OnIdle(m)))
      BY <1>1, <1>4, <2>2, EnterConnectIs, Zenon DEF Idled, Connected
    <2> QED BY <1>1, <1>3, <1>4, <2>2, <2>3, ReopenStep, Zenon
  <1>5. CASE state \in Connected /\ ~(state = "Established" /\ m.server # server_)
    BY <1>1, <1>5, FailStep, Zenon
  <1>6. CASE state \notin Connected
    BY <1>1, <1>6, DequeuedStep, Zenon
  <1> QED BY <1>4, <1>5, <1>6, Zenon

LEMMA EvTcpDeleteSessionInv ==
  ASSUME IInv, EvTcpDeleteSession PROVE IInv'
  <1> DEFINE m == Dequeued
             s == Head(queue).session
             n == [m EXCEPT !.sess[s].deleted = TRUE]
  <1>1. /\ queue # <<>> /\ Head(queue).ev = "EvTcpDeleteSession" /\ UNCHANGED <<owner, closer>>
        /\ Become(n)
    BY Zenon DEF EvTcpDeleteSession, Ready
  <1>2. /\ Handling(m) /\ m.queue = Tail(queue) /\ m.sess = sess /\ m.session = session_ /\ Typed
        /\ QueueInv /\ Accounted(queue, sess, session_) /\ queue[1] = Head(queue) /\ 1 \in DOMAIN queue
        /\ Head(queue) \in Events /\ m \in Machines
    BY <1>1, DequeuedIs, HandlingIs, Zenon DEF Handling
  <1>3. s \in DOMAIN sess /\ s \in 1 .. Len(sess) /\ Head(queue) = Del(s)
    <2>1. s \in DOMAIN sess
      BY <1>1, <1>2, Zenon DEF QueueInv, QueueState
    <2>2. Head(queue) = Del(s)
      BY <1>1, <1>2, Zenon DEF Events, Del, Of
    <2> QED BY <1>2, <2>1, <2>2 DEF Typed
  <1> DEFINE c == [sess EXCEPT ![s].deleted = TRUE]
  <1>4. /\ c \in Seq(Sessions) /\ Len(c) = Len(sess) /\ DOMAIN c = DOMAIN sess
        /\ \A t \in DOMAIN sess : c[t].ep = sess[t].ep /\ c[t].tcp = sess[t].tcp
    <2>1. c \in Seq(Sessions) /\ Len(c) = Len(sess)
      BY <1>2, <1>3, ChangeDeleted, Zenon DEF Typed
    <2> QED BY <1>2, <1>3, <2>1 DEF Typed, Sessions
  <1>5. Accounted(Tail(queue), c, session_)
    BY <1>1, <1>2, <1>3, DeleteAccounted, Zenon DEF Typed
  <1>6. m.server = server_ /\ n = [m EXCEPT !.sess = c]
    BY <1>2, Zenon DEF Dequeued, Current
  <1> HIDE DEF m, c, n
  <1>7. Kept(m, n) /\ n.sess = c
    BY <1>2, <1>4, <1>6, Zenon DEF Kept, SameList, Machines
  <1>8. Accounted(queue', sess', session_')
    BY <1>1, <1>2, <1>5, <1>7, Zenon DEF Become, Kept
  <1> QED BY <1>1, <1>2, <1>6, <1>7, <1>8, KeepStep, Zenon

LEMMA EvSandeshSendInv ==
  ASSUME IInv, EvSandeshSend PROVE IInv'
  <1> DEFINE m == Dequeued
             n == [m EXCEPT !.sess[session_].ctl = "sent"]
  <1>1. /\ queue # <<>> /\ Head(queue).ev = "EvSandeshSend" /\ UNCHANGED <<owner, closer>>
        /\ Become(IF state \in {"ClientInit", "Established"} THEN n ELSE m)
    BY Zenon DEF EvSandeshSend, React, Ready
  <1>2. CASE state \notin {"ClientInit", "Established"}
    BY <1>1, <1>2, DequeuedStep, Zenon
  <1>3. CASE state \in {"ClientInit", "Established"}
    <2>1. /\ Handling(m) /\ m.queue = Tail(queue) /\ m.sess = sess /\ m.session = session_ /\ Typed
          /\ session_ # NoSession <=> state \in Connected
          /\ Accounted(queue, sess, session_) /\ m \in Machines
      BY <1>1, DequeuedIs, HandlingIs, Zenon DEF Handling
    <2>2. session_ \in 1 .. Len(sess)
      BY <1>3, <2>1 DEF Typed, NoSession, Connected
    <2> DEFINE c == [sess EXCEPT ![session_].ctl = "sent"]
    <2>3. /\ c \in Seq(Sessions) /\ Len(c) = Len(sess) /\ DOMAIN c = DOMAIN sess
          /\ \A t \in DOMAIN sess : /\ c[t].ep = sess[t].ep /\ c[t].tcp = sess[t].tcp
                                    /\ c[t].deleted = sess[t].deleted
      <3>1. c \in Seq(Sessions) /\ Len(c) = Len(sess)
        BY <2>1, <2>2, ChangeCtl, ZenonT(60) DEF Typed
      <3> QED BY <2>1, <2>2, <3>1 DEF Typed, Sessions
    <2>4. Accounted(Tail(queue), sess, session_)
      BY <1>1, <2>1, OtherEvents, Zenon DEF Typed
    <2>5. m.server = server_ /\ n = [m EXCEPT !.sess = c] /\ Become(n)
      BY <1>1, <1>3, <2>1, Zenon DEF Dequeued, Current
    <2> HIDE DEF m, c, n
    <2>6. Kept(m, n) /\ n.sess = c
      BY <2>1, <2>3, <2>5, Zenon DEF Kept, SameList, Machines
    <2>7. Accounted(Tail(queue), c, session_)
      BY <2>3, <2>4, OtherChange, Zenon
    <2>8. Accounted(queue', sess', session_')
      BY <2>1, <2>5, <2>6, <2>7, Zenon DEF Become, Kept
    <2> QED BY <1>1, <2>1, <2>5, <2>6, <2>8, KeepStep, Zenon
  <1> QED BY <1>2, <1>3, Zenon

\* The handshake advances.
Advanced(m, n) ==
  /\ n \in Machines /\ SameList(m, n) /\ n.session = m.session /\ n.sess = m.sess /\ n.idle = m.idle
  /\ \/ n.state = "ClientInit" /\ n.connect = "running"
     \/ n.state = "Established" /\ n.connect = "cancelled"

LEMMA AdvanceStep ==
  ASSUME IInv, queue # <<>>, UNCHANGED <<owner, closer>>, NEW n, Advanced(Dequeued, n), Become(n),
         state \in {"Connect", "ClientInit"}, QueueInv',
         queue' = Tail(queue) \/ queue' = Append(Tail(queue), Event("EvSandeshSend")),
         Head(queue).ev # "EvTcpDeleteSession"
  PROVE  IInv'
  <1> DEFINE m == Dequeued
  <1>1. /\ Handling(m) /\ m.session = session_ /\ m.sess = sess /\ m.idle = idle_hold_timer_ /\ Typed
        /\ session_ # NoSession <=> state \in Connected
        /\ Accounted(queue, sess, session_) /\ m.server = server_
    BY DequeuedIs, HandlingIs, Zenon DEF Dequeued, Current
  <1>2. /\ session_' = session_ /\ sess' = sess /\ idle_hold_timer_' = idle_hold_timer_
        /\ \/ state' = "ClientInit" /\ connect_timer_' = "running"
           \/ state' = "Established" /\ connect_timer_' = "cancelled"
    BY <1>1, Zenon DEF Advanced, Become
  <1>3. server_' = server_ /\ server_' = GetCollector(Current)'
    BY <1>1, Zenon DEF Advanced, SameList, Become, Handling, GetCollector, Current
  <1>4. TypeOK'
    <2>1. n \in Machines /\ InList(n) /\ n.session <= Len(n.sess) /\ Len(sess) <= Len(sess')
      BY <1>1, <1>2 DEF Advanced, SameList, Handling, InList, Typed
    <2> QED BY <2>1, TypeNext, Zenon DEF IInv
  <1>5. GivenUpDeletedOnce'
    <2>1. Accounted(Tail(queue), sess, session_) /\ Tail(queue) \in Seq(Events)
      BY <1>1, OtherEvents DEF Typed
    <2>2. Event("EvSandeshSend") \in Events /\ Event("EvSandeshSend").ev # "EvTcpDeleteSession"
      BY EventTypes, Zenon DEF Event
    <2>3. Accounted(queue', sess, session_)
      BY <2>1, <2>2, OtherEvents, Zenon
    <2> QED BY <1>2, <2>3, AccountedNext, Zenon
  <1>6. MachineState' /\ SessionToServer'
    BY <1>1, <1>2, <1>3, Zenon
       DEF MachineState, SessionToServer, Connected, IInv, SessionsAccounted
  <1>7. TimerCovers'
    BY <1>2, Zenon DEF TimerCovers, IInv, Idle
  <1> QED BY <1>4, <1>5, <1>6, <1>7, Zenon DEF IInv, QueueInv, SessionsAccounted

LEMMA EvTcpConnectedInv ==
  ASSUME IInv, EvTcpConnected PROVE IInv'
  <1> DEFINE n == EnterClientInit(CancelConnectTimer(Dequeued))
  <1>1. /\ queue # <<>> /\ Head(queue).ev = "EvTcpConnected" /\ UNCHANGED <<owner, closer>>
        /\ Become(IF state \in {"Connect"} THEN n ELSE Dequeued)
    BY Zenon DEF EvTcpConnected, React, Ready
  <1>2. CASE state # "Connect"
    BY <1>1, <1>2, DequeuedStep, Zenon
  <1>3. CASE state = "Connect"
    <2>1. /\ Dequeued \in Machines /\ Dequeued.state = state /\ Dequeued.queue = Tail(queue)
          /\ Dequeued.session = session_ /\ Dequeued.sess = sess /\ Dequeued.idle = idle_hold_timer_
          /\ Typed /\ QueueInv /\ owner # "new"
      BY <1>1, DequeuedIs, HandlingIs, Zenon DEF Handling
    <2>2. Inited(Dequeued, n)
      BY <1>3, <2>1, EnterClientInitIs, Zenon
    <2>3. Become(n)
      BY <1>1, <1>3, Zenon
    <2> HIDE DEF n
    <2> DEFINE x == Event("EvSandeshSend")
    <2>4. x \in Events /\ x.ev \in Plain
      BY EventTypes, Zenon DEF Event, Plain
    <2>5. /\ queue' = Append(Tail(queue), x) /\ queue' \in Seq(Events) /\ queue \in Seq(Events)
          /\ state' = "ClientInit" /\ session_' = session_ /\ sess' = sess
          /\ idle_hold_timer_' = idle_hold_timer_
      BY <2>1, <2>2, <2>3, Zenon DEF Inited, Become, Machines, Typed
    <2>6. Advanced(Dequeued, n)
      BY <2>2, Zenon DEF Inited, Advanced
    <2> HIDE DEF x
    <2>7. Follows(queue, queue', 1, x)
      BY <1>1, <2>4, <2>5, QueueSteps, Zenon
    <2>8. QueueInv'
      BY <1>1, <1>3, <2>1, <2>4, <2>5, <2>7, InitQueue, Zenon
    <2> QED BY <1>1, <1>3, <2>3, <2>5, <2>6, <2>8, AdvanceStep, Zenon DEF x
  <1> QED BY <1>2, <1>3, Zenon

LEMMA EvSandeshMessageRecvInv ==
  ASSUME CollectorLists \subseteq Seq(Endpoints), IInv, EvSandeshMessageRecv PROVE IInv'
  <1> DEFINE n == Enter(Dequeued, "Established")
  <1>1. /\ queue # <<>> /\ Head(queue).ev = "EvSandeshMessageRecv" /\ UNCHANGED <<owner, closer>>
        /\ Become(IF state \in {"ClientInit", "Established"}
                  THEN CASE Head(queue).msg = "bad" -> ToIdle(Dequeued)
                         [] Head(queue).msg = "control" /\ state = "ClientInit" -> n
                         [] OTHER -> Dequeued
                  ELSE Dequeued)
    BY Zenon DEF EvSandeshMessageRecv, React, Ready
  <1>2. CASE state \in {"ClientInit", "Established"} /\ Head(queue).msg = "bad"
    <2>1. Become(ToIdle(Dequeued))
      BY <1>1, <1>2, Zenon
    <2> QED BY <1>1, <1>2, <2>1, FailStep, Zenon DEF Connected
  <1>3. CASE state = "ClientInit" /\ Head(queue).msg = "control"
    <2>1. /\ Dequeued \in Machines /\ Dequeued.state = state /\ Dequeued.queue = Tail(queue)
          /\ Dequeued.session = session_ /\ Dequeued.sess = sess /\ Dequeued.idle = idle_hold_timer_
          /\ Typed /\ QueueInv /\ owner # "new"
      BY <1>1, DequeuedIs, HandlingIs, Zenon DEF Handling
    <2>2. Advanced(Dequeued, n) /\ n.queue = Tail(queue) /\ n.state = "Established"
      BY <1>3, <2>1, Zenon
         DEF Advanced, SameList, Enter, Leave, CancelConnectTimer, Machines, States, Timers,
             Connected, Idle
    <2>3. Become(n)
      BY <1>1, <1>3, Zenon
    <2> HIDE DEF n
    <2> DEFINE x == Event("EvSandeshSend")
    <2>4. x \in Events /\ x.ev \in Plain
      BY EventTypes, Zenon DEF Event, Plain
    <2>5. /\ queue' = Tail(queue) /\ state' = "Established" /\ session_' = session_ /\ sess' = sess
          /\ idle_hold_timer_' = idle_hold_timer_ /\ queue \in Seq(Events)
      BY <2>1, <2>2, <2>3, Zenon DEF Advanced, Become, Typed
    <2> HIDE DEF x
    <2>6. Follows(queue, queue', 1, x)
      BY <1>1, <2>4, <2>5, QueueSteps, Zenon
    <2>7. QueueInv'
      BY <1>1, <1>3, <2>1, <2>4, <2>5, <2>6, EstablishedQueue, Zenon
    <2> QED BY <1>1, <1>3, <2>2, <2>3, <2>5, <2>7, AdvanceStep, Zenon
  <1>4. CASE ~(/\ state \in {"ClientInit", "Established"}
               /\ Head(queue).msg = "bad" \/ (Head(queue).msg = "control" /\ state = "ClientInit"))
    <2>1. Become(Dequeued)
      BY <1>1, <1>4, Zenon
    <2> QED BY <1>1, <2>1, DequeuedStep, Zenon
  <1> QED BY <1>2, <1>3, <1>4, Zenon

-----------------------------------------------------------------------------
(* The steps outside the machine: they add at most one event to its queue. *)

OwnerOK ==
  /\ owner \in {"new", "started", "stopping", "waiting", "destroyed"}
  /\ closer \in [pc : {"none", "check", "call"}, session : Nat]
  /\ closer.session <= Len(sess)
  /\ closer.pc # "none" => closer.session # NoSession /\ owner # "new"

SameSessions ==
  /\ sess' \in Seq(Sessions) /\ Len(sess') = Len(sess) /\ DOMAIN sess' = DOMAIN sess
  /\ \A s \in DOMAIN sess : sess'[s].ep = sess[s].ep /\ sess'[s].deleted = sess[s].deleted

LEMMA OutsideStep ==
  ASSUME IInv, QueueInv', OwnerOK', SameSessions, NEW x \in Events,
         queue' = queue \/ queue' = Append(queue, x), x.ev # "EvTcpDeleteSession",
         UNCHANGED <<state, session_, server_, collectors_, collector_index_, hold>>,
         \/ connect_timer_' = connect_timer_
         \/ connect_timer_' = "init" /\ queue' = Append(queue, x) /\ x.ev = "EvConnectTimerExpired",
         \/ idle_hold_timer_' = idle_hold_timer_
         \/ idle_hold_timer_' = "init" /\ queue' = Append(queue, x) /\ x.ev = "EvIdleHoldTimerExpired",
         owner' = "started" => owner = "started"
  PROVE  IInv'
  <1>1. Typed /\ Current \in Machines
    BY CurrentTyped, Zenon DEF IInv, TypeOK
  <1>2. TypeOK'
    <2>1. queue' \in Seq(Events)
      BY <1>1 DEF Typed
    <2>2. (Current \in Machines)'
      BY <1>1, <2>1, Zenon DEF SameSessions, Current, Machines, Timers
    <2> QED BY <1>1, <2>2, Zenon DEF TypeOK, OwnerOK, SameSessions, IInv
  <1>3. GivenUpDeletedOnce'
    <2>1. Accounted(queue, sess, session_)
      BY AccountedIs, Zenon DEF IInv, SessionsAccounted
    <2>2. Accounted(queue', sess, session_)
      BY <1>1, <2>1, OtherEvents, Zenon DEF Typed
    <2>3. Accounted(queue', sess', session_)
      BY <2>2, OtherChange, Zenon DEF SameSessions
    <2> QED BY <2>3, AccountedNext, Zenon
  <1>4. MachineState' /\ SessionToServer'
    <2>1. GetCollector(Current)' = GetCollector(Current)
      BY Zenon DEF GetCollector, Current
    <2>2. session_ # NoSession => session_ \in DOMAIN sess
      BY <1>1 DEF Typed, NoSession
    <2> QED BY <2>1, <2>2, Zenon
               DEF MachineState, SessionToServer, IInv, SessionsAccounted, SameSessions
  <1>5. TimerCovers'
    <2>1. Covers(queue)
      BY CoversIs, Zenon DEF IInv
    <2>2. \A name : /\ Has(queue, name) => Has(queue', name)
                    /\ queue' = Append(queue, x) /\ x.ev = name => Has(queue', name)
      <3>1. \A name : /\ Has(queue, name) => Has(Append(queue, x), name)
                      /\ x.ev = name => Has(Append(queue, x), name)
        BY <1>1, HasSteps, Zenon DEF Typed
      <3> QED BY <3>1, Zenon
    <2>3. Covers(queue)'
      BY <2>1, <2>2, Zenon DEF Covers
    <2> QED BY <2>3, CoversNext, Zenon
  <1> QED BY <1>2, <1>3, <1>4, <1>5, Zenon DEF IInv, QueueInv, SessionsAccounted

LEMMA SameOwner ==
  ASSUME IInv, UNCHANGED <<owner, closer>>, SameSessions PROVE OwnerOK'
  BY Zenon DEF IInv, TypeOK, OwnerOK, SameSessions

LEMMA Unchanged ==
  ASSUME IInv, UNCHANGED sess PROVE SameSessions
  <1>1. sess \in Seq(Sessions)
    BY CurrentTyped, Zenon DEF IInv, Typed
  <1> QED BY <1>1, Zenon DEF SameSessions

LEMMA OutsideIs ==
  ASSUME IInv
  PROVE  /\ Typed /\ QueueInv /\ queue \in Seq(Events)
         /\ session_ # NoSession => session_ \in 1 .. Len(sess) /\ session_ \in DOMAIN sess /\ state \in Connected
         /\ \A x \in Events : Follows(queue, Append(queue, x), 0, x) /\ Follows(queue, queue, 0, x)
  <1>1. Typed
    BY CurrentTyped, Zenon DEF IInv
  <1>2. session_ # NoSession => session_ \in 1 .. Len(sess) /\ session_ \in DOMAIN sess /\ state \in Connected
    BY <1>1 DEF IInv, SessionsAccounted, SessionToServer, Typed, NoSession
  <1> QED BY <1>1, <1>2, QueueSteps, Zenon DEF IInv, QueueInv, Typed

LEMMA ConnectTimerExpiredInv ==
  ASSUME IInv, ConnectTimerExpired PROVE IInv'
  <1> DEFINE x == Event("EvConnectTimerExpired")
  <1>1. /\ queue' = Append(queue, x) /\ connect_timer_' = "init" /\ idle_hold_timer_' = idle_hold_timer_
        /\ UNCHANGED <<state, session_, server_, collectors_, collector_index_, hold, sess, owner, closer>>
        /\ owner # "new"
    BY Zenon DEF ConnectTimerExpired, Become, Enqueue, Current, Alive
  <1>2. x \in Events /\ x.ev = "EvConnectTimerExpired" /\ x.ev \in Plain
    BY EventTypes, Zenon DEF Event, Plain
  <1> HIDE DEF x
  <1>3. QueueInv'
    BY <1>1, <1>2, OutsideIs, KeepQueue, Zenon
  <1> QED BY <1>1, <1>2, <1>3, OutsideStep, SameOwner, Unchanged, Zenon

LEMMA IdleHoldTimerExpiredInv ==
  ASSUME IInv, IdleHoldTimerExpired PROVE IInv'
  <1> DEFINE x == Event("EvIdleHoldTimerExpired")
  <1>1. /\ queue' = Append(queue, x) /\ idle_hold_timer_' = "init" /\ connect_timer_' = connect_timer_
        /\ UNCHANGED <<state, session_, server_, collectors_, collector_index_, hold, sess, owner, closer>>
        /\ owner # "new" /\ idle_hold_timer_ = "running"
    BY Zenon DEF IdleHoldTimerExpired, Become, Enqueue, Current, Alive
  <1>2. x \in Events /\ x.ev = "EvIdleHoldTimerExpired"
    BY EventTypes, Zenon DEF Event
  <1> HIDE DEF x
  <1>3. state = Idle
    BY <1>1, Zenon DEF IInv, TimerCovers
  <1>4. QueueInv'
    BY <1>1, <1>2, <1>3, OutsideIs, ExpiryQueue, Zenon
  <1> QED BY <1>1, <1>2, <1>4, OutsideStep, SameOwner, Unchanged, Zenon

-----------------------------------------------------------------------------
(* The network.                                                            *)

\* A field of the current session changes, and an event of it may be queued.
SessionStep(x) ==
  /\ session_ # NoSession /\ owner # "new" /\ (queue' = queue \/ queue' = Append(queue, x))
  /\ \/ \E t \in {"connecting", "up", "silent", "closed"} : sess' = [sess EXCEPT ![session_].tcp = t]
     \/ \E c \in {"none", "sent", "answered"} : sess' = [sess EXCEPT ![session_].ctl = c]
  /\ UNCHANGED <<machine, owner, closer>>

LEMMA SessionStepIs ==
  ASSUME IInv, NEW x, SessionStep(x)
  PROVE  /\ SameSessions
         /\ \A t : sess' = [sess EXCEPT ![session_].tcp = t] => sess'[session_].tcp = t
         /\ \A c : sess' = [sess EXCEPT ![session_].ctl = c] => sess'[session_].tcp = sess[session_].tcp
  <1>1. session_ \in 1 .. Len(sess) /\ session_ \in DOMAIN sess /\ sess \in Seq(Sessions)
    BY OutsideIs, Zenon DEF SessionStep, Typed
  <1>2. sess[session_] \in Sessions
    BY <1>1
  <1>3. ASSUME NEW t, sess' = [sess EXCEPT ![session_].tcp = t] PROVE sess'[session_].tcp = t
    <2>1. sess'[session_] = [sess[session_] EXCEPT !.tcp = t]
      BY <1>1, <1>3, Zenon
    <2> QED BY <1>2, <2>1, Zenon DEF Sessions
  <1>4. ASSUME NEW c, sess' = [sess EXCEPT ![session_].ctl = c]
        PROVE  sess'[session_].tcp = sess[session_].tcp
    <2>1. sess'[session_] = [sess[session_] EXCEPT !.ctl = c]
      BY <1>1, <1>4, Zenon
    <2> QED BY <1>2, <2>1, Zenon DEF Sessions
  <1>5. ASSUME NEW t \in {"connecting", "up", "silent", "closed"}, sess' = [sess EXCEPT ![session_].tcp = t]
        PROVE  SameSessions
    <2> DEFINE d == [sess EXCEPT ![session_].tcp = t]
    <2>1. d \in Seq(Sessions) /\ Len(d) = Len(sess)
      <3>1. [sess[session_] EXCEPT !.tcp = t] \in Sessions
        BY <1>2, SessionFields, Zenon
      <3> QED BY <1>1, <3>1, ChangeSession, Zenon
    <2>2. DOMAIN d = DOMAIN sess /\ \A s \in DOMAIN sess : d[s].ep = sess[s].ep /\ d[s].deleted = sess[s].deleted
      BY <1>1 DEF Sessions
    <2> QED BY <1>5, <2>1, <2>2, Zenon DEF SameSessions
  <1>6. ASSUME NEW c \in {"none", "sent", "answered"}, sess' = [sess EXCEPT ![session_].ctl = c]
        PROVE  SameSessions
    <2> DEFINE d == [sess EXCEPT ![session_].ctl = c]
    <2>1. d \in Seq(Sessions) /\ Len(d) = Len(sess)
      BY <1>1, ChangeCtl, ZenonT(60)
    <2>2. DOMAIN d = DOMAIN sess /\ \A s \in DOMAIN sess : d[s].ep = sess[s].ep /\ d[s].deleted = sess[s].deleted
      BY <1>1 DEF Sessions
    <2> QED BY <1>6, <2>1, <2>2, Zenon DEF SameSessions
  <1> QED BY <1>3, <1>4, <1>5, <1>6, Zenon DEF SessionStep

LEMMA SessionStepInv ==
  ASSUME IInv, NEW x \in Events, SessionStep(x), QueueInv', x.ev # "EvTcpDeleteSession" PROVE IInv'
  <1>1. SameSessions /\ OwnerOK'
    BY SessionStepIs, SameOwner, Zenon DEF SessionStep
  <1> QED BY <1>1, OutsideStep, Zenon DEF SessionStep, machine

LEMMA ObservedInv ==
  ASSUME IInv, NEW name \in Handshake \union {"EvTcpClose"}, NEW from, NEW to \in {"up", "closed"},
         name \in Handshake => from = {"connecting"}, Observed(name, from, to)
  PROVE  IInv'
  <1> DEFINE x == Of(name, session_)
  <1>1. /\ queue' = Append(queue, x) /\ sess' = [sess EXCEPT ![session_].tcp = to]
        /\ UNCHANGED <<machine, owner, closer>> /\ owner # "new" /\ session_ # NoSession
        /\ sess[session_].tcp \in from
    BY Zenon DEF Observed, Become, Enqueue, Current, Alive, machine
  <1>2. x.ev = name /\ x.session = session_
    BY Zenon DEF Of
  <1>3. x \in Events
    BY <1>1, EventTypes, OutsideIs, Zenon DEF Typed, NoSession, Handshake
  <1> HIDE DEF x
  <1>4. SessionStep(x)
    BY <1>1, Zenon DEF SessionStep
  <1>5. SameSessions /\ sess'[session_].tcp = to
    BY <1>1, <1>4, SessionStepIs, Zenon
  <1>6. QueueInv'
    <2>1. CASE name \in Handshake
      BY <1>1, <1>2, <1>3, <1>5, <2>1, OutsideIs, ReportQueue, Zenon
         DEF machine, Reports, SameSessions
    <2>2. CASE name = "EvTcpClose"
      BY <1>1, <1>2, <1>3, <1>5, <2>2, OutsideIs, KeepQueue DEF machine, SameSessions, Plain
    <2> QED BY <2>1, <2>2, Zenon
  <1> QED BY <1>2, <1>3, <1>4, <1>6, SessionStepInv, Zenon DEF Handshake

LEMMA SilenceInv ==
  ASSUME IInv, Silence PROVE IInv'
  <1> DEFINE x == Event("EvSandeshSend")
  <1>1. x \in Events /\ x.ev = "EvSandeshSend" /\ x.ev \in Plain
    BY EventTypes, Zenon DEF Event, Plain
  <1> HIDE DEF x
  <1>2. /\ queue' = queue /\ sess' = [sess EXCEPT ![session_].tcp = "silent"]
        /\ UNCHANGED <<machine, owner, closer>> /\ owner # "new" /\ session_ # NoSession
    BY Zenon DEF Silence, Alive
  <1>3. SessionStep(x)
    BY <1>2, Zenon DEF SessionStep
  <1>4. SameSessions /\ sess'[session_].tcp = "silent"
    BY <1>2, <1>3, SessionStepIs, Zenon
  <1>5. QueueInv'
    BY <1>1, <1>2, <1>4, OutsideIs, KeepQueue, Zenon DEF machine, SameSessions
  <1> QED BY <1>1, <1>3, <1>5, SessionStepInv, Zenon

LEMMA ReceiveInv ==
  ASSUME IInv, NEW msg \in {"control", "other", "bad"}, NEW from, NEW to \in {"same", "answered"},
         Receive(msg, from, to)
  PROVE  IInv'
  <1> DEFINE x == [ev |-> "EvSandeshMessageRecv", session |-> session_, msg |-> msg]
             c == IF to = "same" THEN sess[session_].ctl ELSE to
  <1>1. /\ queue' = Append(queue, x) /\ sess' = [sess EXCEPT ![session_].ctl = c]
        /\ UNCHANGED <<machine, owner, closer>> /\ owner # "new" /\ session_ # NoSession
    BY Zenon DEF Receive, Become, Enqueue, Current, Alive, machine
  <1>2. x.ev = "EvSandeshMessageRecv" /\ x.session = session_
    BY Zenon
  <1>3. x \in Events /\ c \in {"none", "sent", "answered"}
    <2>1. session_ \in Nat \ {0} /\ sess[session_] \in Sessions
      <3>1. session_ \in 1 .. Len(sess) /\ sess \in Seq(Sessions)
        BY <1>1, OutsideIs, Zenon DEF Typed
      <3> QED BY <3>1
    <2> QED BY <2>1, Zenon DEF Events, Sessions
  <1> HIDE DEF x, c
  <1>4. SessionStep(x)
    BY <1>1, <1>3, Zenon DEF SessionStep
  <1>5. SameSessions /\ sess'[session_].tcp = sess[session_].tcp
    BY <1>1, <1>4, SessionStepIs, Zenon
  <1>6. QueueInv'
    BY <1>1, <1>2, <1>3, <1>5, OutsideIs, ReportQueue, Zenon
       DEF machine, Reports, Handshake, SameSessions
  <1> QED BY <1>2, <1>3, <1>4, <1>6, SessionStepInv, Zenon

LEMMA NetworkInv ==
  ASSUME IInv, Network PROVE IInv'
  <1>1. CASE ConnectComplete
    BY <1>1, ObservedInv, Zenon DEF ConnectComplete, Handshake
  <1>2. CASE ConnectFailed
    BY <1>2, ObservedInv, Zenon DEF ConnectFailed, Handshake
  <1>3. CASE PeerClose
    BY <1>3, ObservedInv, Zenon DEF PeerClose, Handshake
  <1>4. CASE ReaderError
    BY <1>4, ObservedInv, Zenon DEF ReaderError, Handshake
  <1>5. CASE Answer
    BY <1>5, ReceiveInv, Zenon DEF Answer
  <1>6. CASE OtherMessage
    BY <1>6, ReceiveInv, Zenon DEF OtherMessage
  <1> QED BY <1>1, <1>2, <1>3, <1>4, <1>5, <1>6, SilenceInv, Zenon DEF Network

-----------------------------------------------------------------------------
(* The owner.                                                              *)

LEMMA InitiateInv ==
  ASSUME IInv, NEW list \in CollectorLists \union {<<>>}, Initiate(list) PROVE IInv'
  <1> DEFINE a == Event("EvStart")
             b == [ev |-> "EvCollectorUpdate", list |-> list]
             es == <<a>> \o IF list = <<>> THEN <<>> ELSE <<b>>
  <1>1. /\ owner = "new" /\ owner' = "started" /\ hold' = FALSE /\ queue' = queue \o es
        /\ UNCHANGED <<state, session_, server_, collectors_, collector_index_,
                       connect_timer_, idle_hold_timer_, sess, closer>>
    BY Zenon DEF Initiate, Post
  <1>2. queue = <<>> /\ state = Idle /\ Typed /\ Current \in Machines
    BY <1>1, CurrentTyped, Zenon DEF IInv, QueueState, TypeOK
  <1>3. a \in Events /\ a.ev = "EvStart" /\ (list # <<>> => b \in Events /\ b.ev = "EvCollectorUpdate")
    BY EventTypes, Zenon DEF Event, Events
  <1> HIDE DEF a, b
  <1>4. /\ es \in Seq(Events) /\ 1 \in DOMAIN es
        /\ \A i \in DOMAIN es : \/ i = 1 /\ es[i] = a
                                \/ i = 2 /\ es[i] = b /\ list # <<>>
    <2>1. CASE list = <<>>
      BY <1>3, <2>1
    <2>2. CASE list # <<>>
      BY <1>3, <2>2
    <2> QED BY <2>1, <2>2, Zenon
  <1> HIDE DEF es
  <1>5. queue' = es
    BY <1>1, <1>2, <1>4
  <1>6. TypeOK'
    <2>1. (Current \in Machines)'
      BY <1>1, <1>2, <1>4, <1>5, Zenon DEF Current, Machines
    <2> QED BY <1>1, <2>1, Zenon DEF IInv, TypeOK
  <1>7. QueueInv'
    BY <1>1, <1>3, <1>4, <1>5, InitiateQueue DEF IInv, QueueInv
  <1>8. GivenUpDeletedOnce'
    <2>1. Accounted(queue, sess, session_)
      BY AccountedIs, Zenon DEF IInv, SessionsAccounted
    <2>2. \A s : None(queue, Del(s)) /\ None(queue', Del(s)) /\ ~Once(queue, Del(s))
      BY <1>2, <1>3, <1>4, <1>5 DEF None, Once, Del, Of
    <2>3. Accounted(queue', sess', session_')
      BY <1>1, <2>1, <2>2, Zenon DEF Accounted
    <2> QED BY <2>3, AccountedNext, Zenon
  <1>9. MachineState' /\ SessionToServer'
    BY <1>1, Zenon
       DEF MachineState, SessionToServer, IInv, SessionsAccounted, GetCollector, Current
  <1>10. TimerCovers'
    <2>1. Has(queue', "EvStart")
      BY <1>3, <1>4, <1>5 DEF Has
    <2>2. Covers(queue)'
      BY <1>1, <1>2, <2>1, Zenon DEF Covers, IInv, TimerCovers, Idle
    <2> QED BY <2>2, CoversNext, Zenon
  <1> QED BY <1>6, <1>7, <1>8, <1>9, <1>10, Zenon DEF IInv, QueueInv, SessionsAccounted

\* A step of the owner that leaves the machine and its sessions alone.
LEMMA OwnerStep ==
  ASSUME IInv, OwnerOK', NEW x \in Events, x.ev \in Plain, queue' = queue \/ queue' = Append(queue, x),
         UNCHANGED <<machine, sess>>, owner' = "started" => owner = "started", owner' # "new"
  PROVE  IInv'
  <1>1. SameSessions
    BY Unchanged, Zenon
  <1>2. QueueInv'
    BY OutsideIs, KeepQueue, Zenon DEF machine
  <1> QED BY <1>1, <1>2, OutsideStep, Zenon DEF machine, Plain

LEMMA OwnerInv ==
  ASSUME IInv, Owner PROVE IInv'
  <1>1. OwnerOK /\ queue \in Seq(Events) /\ Event("EvSandeshSend") \in Events
        /\ Event("EvSandeshSend").ev \in Plain
    BY OutsideIs, EventTypes, Zenon DEF IInv, TypeOK, OwnerOK, Event, Plain
  <1>2. ASSUME NEW list \in CollectorLists, ReConfigCollectors(list) PROVE IInv'
    <2> DEFINE x == [ev |-> "EvCollectorUpdate", list |-> list]
    <2>1. x \in Events /\ x.ev \in Plain
      BY Zenon DEF Events, Plain
    <2>2. queue' = Append(queue, x) /\ UNCHANGED <<machine, sess, owner, closer>> /\ owner = "started"
      BY <1>1, <1>2 DEF ReConfigCollectors, Post
    <2> HIDE DEF x
    <2>3. OwnerOK'
      BY <1>1, <2>2, Zenon DEF OwnerOK
    <2> QED BY <2>1, <2>2, <2>3, OwnerStep, Zenon
  <1>3. CASE CloseSMSession
    <2>1. OwnerOK'
      BY <1>1, <1>3, OutsideIs, Zenon DEF CloseSMSession, OwnerOK, Typed
    <2> QED BY <1>1, <1>3, <2>1, OwnerStep, Zenon DEF CloseSMSession
  <1>4. CASE EnqueueClose
    <2>1. OwnerOK' /\ owner # "new"
      BY <1>1, <1>4 DEF EnqueueClose, OwnerOK, NoSession
    <2> QED BY <1>1, <1>4, <2>1, OwnerStep, Zenon DEF EnqueueClose
  <1>5. CASE CallObserver
    <2> DEFINE x == Of("EvTcpClose", closer.session)
    <2>1. x \in Events /\ x.ev \in Plain
      BY <1>1, <1>5, EventTypes, Zenon DEF CallObserver, OwnerOK, NoSession, Of, Plain
    <2>2. OwnerOK' /\ owner' = owner /\ owner # "new" /\ queue' = Append(queue, x) /\ UNCHANGED <<machine, sess>>
      BY <1>1, <1>5 DEF CallObserver, OwnerOK, NoSession, Post
    <2> HIDE DEF x
    <2> QED BY <2>1, <2>2, OwnerStep, Zenon
  <1>6. CASE Shutdown
    <2> DEFINE x == Event("EvStop")
    <2>1. x \in Events /\ x.ev = "EvStop"
      BY EventTypes, Zenon DEF Event
    <2>2. /\ OwnerOK' /\ owner' = "stopping" /\ queue' = Append(queue, x)
          /\ UNCHANGED <<machine, sess>> /\ SameSessions
      BY <1>1, <1>6, Unchanged DEF Shutdown, OwnerOK, Post
    <2> HIDE DEF x
    <2>3. QueueInv'
      BY <2>1, <2>2, OutsideIs, StopQueue, Zenon DEF machine
    <2> QED BY <2>1, <2>2, <2>3, OutsideStep, Zenon DEF machine
  <1>7. CASE SessionGone
    <2>1. OwnerOK'
      BY <1>1, <1>7, Zenon DEF SessionGone, OwnerOK
    <2> QED BY <1>1, <1>7, <2>1, OwnerStep, Zenon DEF SessionGone
  <1>8. CASE Destroy
    <2>1. OwnerOK'
      BY <1>1, <1>8, Zenon DEF Destroy, OwnerOK
    <2> QED BY <1>1, <1>8, <2>1, OwnerStep, Zenon DEF Destroy
  <1> QED BY <1>2, <1>3, <1>4, <1>5, <1>6, <1>7, <1>8, InitiateInv, Zenon DEF Owner

-----------------------------------------------------------------------------
(* The invariant, and what follows from it.                                *)

LEMMA InitInv == Init => IInv
  <1> SUFFICES ASSUME Init PROVE IInv
    BY Zenon
  <1>1. TypeOK
    <2>1. <<>> \in Seq(Events) /\ <<>> \in Seq(Sessions) /\ NoCollector \in Endpoints
      BY DEF Endpoints
    <2>2. Current \in Machines
      BY <2>1, Zenon DEF Init, Current, Machines, States, Timers, NoSession
    <2> QED BY <2>2 DEF Init, TypeOK, NoSession
  <1>2. QueueState /\ HandshakeOnce /\ StaleFirst /\ MachineState
    BY DEF Init, QueueState, HandshakeOnce, StaleFirst, MachineState, GetCollector, Current, Idle
  <1>3. SessionsAccounted /\ TimerCovers
    BY DEF Init, SessionsAccounted, SessionToServer, GivenUpDeletedOnce, TimerCovers,
           NoSession, Idle, Connected
  <1> QED BY <1>1, <1>2, <1>3, Zenon DEF IInv

LEMMA NextInv == IInv /\ [Next]_vars => IInv'
  <1> SUFFICES ASSUME IInv, [Next]_vars PROVE IInv'
    BY Zenon
  <1>1. CollectorLists \subseteq Seq(Endpoints)
    BY Bounds, Zenon
  <1>2. CASE Dequeue
    BY <1>1, <1>2, EvStartInv, EvStopInv, EvCollectorUpdateInv, EvIdleHoldTimerExpiredInv,
       EvConnectTimerExpiredInv, EvTcpConnectedInv, EvTcpConnectFailInv, EvTcpCloseInv,
       EvTcpDeleteSessionInv, EvSandeshSendInv, EvSandeshMessageRecvInv, Zenon DEF Dequeue
  <1> QED BY <1>2, StutterInv, ConnectTimerExpiredInv, IdleHoldTimerExpiredInv, NetworkInv,
             OwnerInv, Zenon DEF Next

\* The inductive invariant: the state machine, its timers, its queue and its
\* sessions as every event leaves them.
THEOREM Invariance == Spec => []IInv
  BY InitInv, NextInv, PTL DEF Spec

\* However connects, closes, collector updates and stops interleave, no session
\* is leaked or deleted twice: all but the machine's are deleted or have one
\* deletion queued.
THEOREM Accounting == Spec => []SessionsAccounted
  <1>1. IInv => SessionsAccounted
    BY Zenon DEF IInv
  <1> QED BY <1>1, Invariance, PTL

\* A machine that waits, for a peer or for the end of its idle hold, has the
\* timer that ends the wait running or its expiry queued.
THEOREM Covering == Spec => []TimerCovers
  <1>1. IInv => TimerCovers
    BY Zenon DEF IInv
  <1> QED BY <1>1, Invariance, PTL

\* The reactions to connects and messages, which do not look at the session an
\* event names, act on events of the machine's current session only.
THEOREM OwnSession == Spec => ActsOnOwnSession
  <1> DEFINE Acts == \/ EvTcpConnected /\ state = "Connect"
                     \/ EvTcpConnectFail /\ state = "Connect"
                     \/ EvSandeshMessageRecv /\ state \in {"ClientInit", "Established"}
  <1>1. ASSUME IInv, Acts PROVE Head(queue).session = session_
    <2>1. queue # <<>> /\ queue \in Seq(Events)
      BY <1>1, OutsideIs, Zenon
         DEF EvTcpConnected, EvTcpConnectFail, EvSandeshMessageRecv, React, Ready
    <2>2. Head(queue) = queue[1] /\ 1 \in DOMAIN queue
      BY <2>1
    <2>3. ~Stale(1)
      BY <1>1, <2>2, Zenon
         DEF IInv, StaleFirst, EvTcpConnected, EvTcpConnectFail, EvSandeshMessageRecv, React,
             Ready, Handshake, Idle
    <2> QED BY <1>1, <2>2, <2>3, Zenon
               DEF Stale, EvTcpConnected, EvTcpConnectFail, EvSandeshMessageRecv, React, Ready,
                   Handshake, Reports
  <1>2. IInv => [Acts => Head(queue).session = session_]_vars
    BY <1>1, Zenon
  <1> QED BY <1>2, Invariance, PTL DEF ActsOnOwnSession
=============================================================================
