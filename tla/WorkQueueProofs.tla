--------------------------- MODULE WorkQueueProofs ---------------------------
(***************************************************************************)
(* The queue of base/queue_task.h, for every set of producers, every size  *)
(* and all water marks: one runner at a time, known to the queue, an exact *)
(* count, no stranded entry, entries handled in order and at most once, a  *)
(* quiet shutdown, and every crossing of a water mark reported.            *)
(***************************************************************************)
EXTENDS WorkQueue, WellFoundedInduction, FiniteSetTheorems, TLAPS

-----------------------------------------------------------------------------
(* Numbers and sets of numbers.                                            *)

\* A size_t stays one, and is one more or one less unless it wraps around.
LEMMA SizeT ==
  ASSUME NEW n \in 0 .. SIZE_MAX
  PROVE  /\ Inc(n) \in 0 .. SIZE_MAX /\ Dec(n) \in 0 .. SIZE_MAX
         /\ n < SIZE_MAX => Inc(n) = n + 1
         /\ n > 0 => Dec(n) = n - 1
  <1>0. SIZE_MAX \in Nat
    BY ConfigAssumption, Zenon
  <1>1. CASE n = SIZE_MAX
    BY <1>0, <1>1 DEF Inc, Dec
  <1>2. CASE n < SIZE_MAX
    BY <1>0, <1>2 DEF Inc, Dec
  <1> QED BY <1>0, <1>1, <1>2

\* A set of naturals has a least element.
LEMMA LeastNat ==
  ASSUME NEW S, S \subseteq Nat, S # {}
  PROVE  \E m \in S : \A n \in S : m <= n
  <1>1. PICK m \in S : \A n \in S : ~ (<<n, m>> \in OpToRel(<, Nat))
    BY NatLessThanWellFounded, WFMin, Zenon
  <1>2. \A n \in S : ~ (n < m)
    BY <1>1, Zenon DEF OpToRel
  <1> QED BY <1>2

\* A set of naturals that is bounded has a greatest element.
LEMMA GreatestNat ==
  ASSUME NEW S, S \subseteq Nat, S # {}, NEW b \in Nat, \A n \in S : n <= b
  PROVE  \E m \in S : \A n \in S : n <= m
  <1> DEFINE D == {b - n : n \in S}
  <1>1. D \subseteq Nat /\ D # {}
    <2>1. \A n \in S : b - n \in Nat
      OBVIOUS
    <2>2. PICK n \in S : TRUE
      BY Zenon
    <2>3. b - n \in D
      BY <2>2, Zenon
    <2> QED BY <2>1, <2>3, Zenon
  <1>2. PICK d \in D : \A e \in D : d <= e
    BY <1>1, LeastNat, Zenon
  <1>3. PICK m \in S : d = b - m
    BY <1>2, Zenon
  <1>4. \A n \in S : b - m <= b - n
    BY <1>2, <1>3, Zenon
  <1> QED BY <1>3, <1>4

-----------------------------------------------------------------------------
(* Threads at a place.                                                     *)

Places == {"idle", "lock", "count", "drop", "push", "start", "entry", "abort", "loop",
           "popped", "callback", "done", "shutdown", "exit"}

-----------------------------------------------------------------------------
(* Each step preserves the types.                                          *)

LEMMA Disjoint ==
  /\ \A p \in Producers : p \in Threads /\ p # ctl /\ p \notin Runners /\ p # NULL
  /\ \A r \in Runners : r \in Threads /\ r # ctl /\ r \notin Producers /\ r # NULL
  /\ ctl \in Threads /\ ctl \notin Producers /\ ctl \notin Runners /\ ctl # NULL
  /\ Producers \subseteq Threads /\ Runners \subseteq Threads
  BY ThreadAssumption, Zenon DEF Threads

LEMMA NullNoThread == NULL \notin Threads
  BY ThreadAssumption, Zenon DEF Threads

FlowType == [kind : {"none", "high", "low"}, mark : Nat]

LEMMA FlowTyped ==
  /\ [kind |-> "none", mark |-> 0] \in FlowType
  /\ \A k \in {"high", "low"}, m \in Nat : Call(k, m) => flow' \in FlowType
  BY DEF FlowType, Call

LEMMA HighTyped ==
  ASSUME TypeOK, NEW n \in Nat, ProcessHighWaterMarks(n)
  PROVE  flow' \in FlowType
  <1> DEFINE below == {h \in high_water_ : h <= n}
             mark == CHOOSE h \in below : \A k \in below : k <= h
  <1>1. high_water_ \subseteq Nat /\ flow \in FlowType
    BY ConfigAssumption, Zenon DEF TypeOK, FlowType
  <1>2. (below # {} /\ Call("high", mark)) \/ flow' = flow
    BY Zenon DEF ProcessHighWaterMarks
  <1>3. ASSUME below # {} PROVE mark \in Nat
    <2>1. below \subseteq Nat /\ \A k \in below : k <= n
      BY <1>1, Zenon
    <2>2. \E m \in below : \A k \in below : k <= m
      BY <1>3, <2>1, GreatestNat, Zenon
    <2> QED BY <2>1, <2>2, Zenon
  <1> HIDE DEF mark, below
  <1> QED BY <1>1, <1>2, <1>3, FlowTyped, Zenon

LEMMA LowTyped ==
  ASSUME TypeOK, NEW n \in Nat, ProcessLowWaterMarks(n)
  PROVE  flow' \in FlowType
  <1> DEFINE above == {l \in low_water_ : l >= n}
             mark == CHOOSE l \in above : \A k \in above : l <= k
  <1>1. low_water_ \subseteq Nat /\ flow \in FlowType
    BY ConfigAssumption, Zenon DEF TypeOK, FlowType
  <1>2. (above # {} /\ Call("low", mark)) \/ flow' = flow
    BY Zenon DEF ProcessLowWaterMarks
  <1>3. ASSUME above # {} PROVE mark \in Nat
    <2>1. above \subseteq Nat
      BY <1>1, Zenon
    <2>2. \E m \in above : \A k \in above : m <= k
      BY <1>3, <2>1, LeastNat, Zenon
    <2> QED BY <2>1, <2>2, Zenon
  <1> HIDE DEF mark, above
  <1> QED BY <1>1, <1>2, <1>3, FlowTyped, Zenon

LEMMA TypesKept == QueueState /\ [Next]_vars => TypeOK'
  <1> SUFFICES ASSUME QueueState, [Next]_vars PROVE TypeOK'
    BY Zenon
  <1> USE Disjoint, ConfigAssumption
  <1> TypeOK /\ ThreadsPlaced /\ RunnerKnown
    BY Zenon DEF QueueState
  <1>1. ASSUME NEW p \in Producers, Enqueue(p) PROVE TypeOK'
    <2>1. sent' \in [Producers -> 0 .. MaxEnqueues]
      <3>1. sent[p] < MaxEnqueues /\ sent' = [sent EXCEPT ![p] = @ + 1]
        BY <1>1, Zenon DEF Enqueue
      <3> QED BY <3>1 DEF TypeOK
    <2> QED BY <1>1, <2>1, Zenon
               DEF Enqueue, TypeOK, Goto, queueVars, runnerVars, waterVars, taskVars, ctlVars
  <1>2. ASSUME NEW p \in Producers, LockWaterMutex(p) PROVE TypeOK'
    BY <1>2, Zenon
       DEF LockWaterMutex, TypeOK, Goto, queueVars, runnerVars, waterVars, taskVars, ctlVars
  <1>3. ASSUME NEW p \in Producers, AtomicIncrementQueueCount(p) PROVE TypeOK'
    BY <1>3, SizeT, ZenonT(30)
       DEF AtomicIncrementQueueCount, TypeOK, Goto, queueVars, runnerVars, waterVars, taskVars,
           ctlVars
  <1>4. ASSUME NEW p \in Producers, Drop(p) PROVE TypeOK'
    BY <1>4, SizeT, Zenon
       DEF Drop, TypeOK, Goto, Return, queueVars, runnerVars, waterVars, taskVars, ctlVars
  <1>5. ASSUME NEW p \in Producers, Push(p) PROVE TypeOK'
    <2>1. <<p, sent[p]>> \in Entry
      BY <1>5 DEF Push, TypeOK, ThreadsPlaced, Entry
    <2>2. queue_' \in Seq(Entry)
      BY <1>5, <2>1 DEF Push, TypeOK
    <2>3. flow' \in FlowType /\ last_count_' \in 0 .. SIZE_MAX
      <3>1. ncount[p] \in 0 .. SIZE_MAX /\ ncount[p] \in Nat
        BY DEF TypeOK
      <3> QED BY <1>5, <3>1, HighTyped, Zenon DEF Push, ProcessHighWaterMarks
    <2> QED BY <1>5, <2>2, <2>3, Zenon
               DEF Push, TypeOK, FlowType, Goto, ProcessHighWaterMarks, queueVars, runnerVars, waterVars,
                   taskVars, ctlVars
  <1>6. ASSUME NEW t \in Producers \cup {ctl}, MayBeStartRunner(t) PROVE TypeOK'
    BY <1>6, ZenonT(30)
       DEF MayBeStartRunner, TypeOK, Goto, Return, StartRunner, queueVars, runnerVars,
           waterVars, taskVars, ctlVars
  <1>7. ASSUME NEW r \in Runners, Schedule(r) PROVE TypeOK'
    BY <1>7, Zenon
       DEF Schedule, TypeOK, Goto, queueVars, runnerVars, waterVars, taskVars, ctlVars
  <1>8. ASSUME NEW r \in Runners, OnEntry(r) PROVE TypeOK'
    BY <1>8 DEF OnEntry, TypeOK, Goto, queueVars, runnerVars, waterVars, taskVars, ctlVars
  <1>9. ASSUME NEW r \in Runners, RunnerAbort(r) PROVE TypeOK'
    BY <1>9 DEF RunnerAbort, TypeOK, Goto, queueVars, runnerVars, waterVars, taskVars, ctlVars
  <1>10. ASSUME NEW r \in Runners, TryPop(r) PROVE TypeOK'
    <2>1. CASE queue_ = <<>>
      <3>1. pc' = [pc EXCEPT ![r] = "done"] /\ UNCHANGED <<queue_, entry, water_mutex_>>
        BY <1>10, <2>1, Zenon DEF TryPop, Goto
      <3>2. UNCHANGED <<count_, runnerVars, waterVars, ctlVars, taskVars, mutex_, ncount,
                        count, sent, processed>>
        BY <1>10, Zenon DEF TryPop
      <3> QED BY <3>1, <3>2, Zenon DEF TypeOK, runnerVars, waterVars, taskVars, ctlVars
    <2>2. CASE queue_ # <<>>
      <3>1. Head(queue_) \in Entry /\ Tail(queue_) \in Seq(Entry)
        BY <2>2 DEF TypeOK
      <3>2. entry' \in [Runners -> Entry \cup {NULL}]
        <4>1. PICK e \in Entry : e = Head(queue_)
          BY <3>1, Zenon
        <4>2. entry' = [entry EXCEPT ![r] = e]
          BY <1>10, <2>2, <4>1, Zenon DEF TryPop
        <4> QED BY <4>2, Zenon DEF TypeOK
      <3>3. queue_' \in Seq(Entry) /\ water_mutex_' \in Threads \cup {NULL}
        <4>1. /\ queue_' = Tail(queue_)
              /\ water_mutex_' = r \/ water_mutex_' = water_mutex_
          BY <1>10, <2>2, Zenon DEF TryPop
        <4>2. water_mutex_ \in Threads \cup {NULL}
          BY Zenon DEF TypeOK
        <4> QED BY <3>1, <4>1, <4>2, Zenon
      <3>4. pc' \in [Threads -> Places]
        BY <1>10, <2>2, ZenonT(60) DEF TryPop, TypeOK, Goto, Places
      <3> QED BY <1>10, <2>2, <3>2, <3>3, <3>4, Zenon
                 DEF TryPop, TypeOK, Places, queueVars, runnerVars, waterVars, taskVars,
                     ctlVars
    <2> QED BY <2>1, <2>2, Zenon
  <1>11. ASSUME NEW r \in Runners, AtomicDecrementQueueCount(r) PROVE TypeOK'
    <2>1. Dec(count_) \in 0 .. SIZE_MAX /\ Dec(count_) \in Nat
      <3>1. Dec(count_) \in 0 .. SIZE_MAX
        BY SizeT, Zenon DEF TypeOK
      <3> QED BY <3>1
    <2>2. flow' \in FlowType
      BY <1>11, <2>1, LowTyped, Zenon DEF AtomicDecrementQueueCount
    <2> QED BY <1>11, <2>1, <2>2, Zenon
               DEF AtomicDecrementQueueCount, TypeOK, FlowType, Goto, ProcessLowWaterMarks,
                   queueVars, runnerVars, waterVars, taskVars, ctlVars
  <1>12. ASSUME NEW r \in Runners, Callback(r) PROVE TypeOK'
    <2>1. entry[r] \in Entry /\ count[r] + 1 \in 0 .. max_iterations_
      BY <1>12 DEF Callback, TypeOK, ThreadsPlaced
    <2>2. processed' \in Seq(Entry)
      BY <1>12, <2>1 DEF Callback, TypeOK
    <2>3. count' \in [Runners -> 0 .. max_iterations_]
      BY <1>12, <2>1, Zenon DEF Callback, TypeOK
    <2>4. entry' \in [Runners -> Entry \cup {NULL}]
      BY <1>12, Zenon DEF Callback, TypeOK
    <2>5. pc' \in [Threads -> Places]
      <3>1. \/ pc' = [pc EXCEPT ![r] = "done"]
            \/ pc' = [pc EXCEPT ![r] = "loop"]
        BY <1>12, Zenon DEF Callback, Goto
      <3> QED BY <3>1, Zenon DEF TypeOK, Places
    <2> QED BY <1>12, <2>2, <2>3, <2>4, <2>5, Zenon
               DEF Callback, TypeOK, Places, queueVars, runnerVars, waterVars, taskVars,
                   ctlVars
  <1>13. ASSUME NEW r \in Runners, RunnerDone(r) PROVE TypeOK'
    <2>1. running_' \in BOOLEAN /\ current_runner_' \in Runners \cup {NULL}
      BY <1>13, Zenon DEF RunnerDone, TypeOK
    <2>2. complete' \in [Runners -> BOOLEAN]
      <3>1. (queue_ = <<>> \/ RunnerAbortLocked) \in BOOLEAN
        BY Zenon
      <3> QED BY <1>13, <3>1, Zenon DEF RunnerDone, TypeOK
    <2>3. pc' \in [Threads -> Places] /\ mutex_' \in Threads \cup {NULL}
      <3>1. \/ mutex_' = r /\ Goto(r, "shutdown")
            \/ mutex_' = mutex_ /\ Goto(r, "exit")
        BY <1>13, Zenon DEF RunnerDone
      <3>2. pc \in [Threads -> Places] /\ mutex_ \in Threads \cup {NULL}
        BY Zenon DEF TypeOK, Places
      <3>3. {"shutdown", "exit"} \subseteq Places
        BY Zenon DEF Places
      <3> QED BY <3>1, <3>2, <3>3, Zenon DEF Goto
    <2> QED BY <1>13, <2>1, <2>2, <2>3, Zenon
               DEF RunnerDone, TypeOK, Places, queueVars, runnerVars, waterVars, taskVars,
                   ctlVars
  <1>14. ASSUME NEW t \in Runners \cup {ctl}, ShutdownLocked(t) PROVE TypeOK'
    BY <1>14
       DEF ShutdownLocked, TypeOK, Goto, queueVars, runnerVars, waterVars, taskVars, ctlVars
  <1>15. ASSUME NEW r \in Runners, OnTaskExit(r) PROVE TypeOK'
    BY <1>15, Zenon
       DEF OnTaskExit, TypeOK, Goto, queueVars, runnerVars, waterVars, taskVars, ctlVars
  <1>16. ASSUME Shutdown PROVE TypeOK'
    BY <1>16, Zenon
       DEF Shutdown, TypeOK, Goto, CancelRunner, queueVars, runnerVars, waterVars, taskVars,
           ctlVars
  <1>17. ASSUME ScheduleShutdown PROVE TypeOK'
    <2>1. CASE CancelRunner
      BY <1>17, <2>1, Zenon
         DEF ScheduleShutdown, TypeOK, Goto, CancelRunner, queueVars, runnerVars, waterVars,
             taskVars, ctlVars
    <2>2. CASE ~CancelRunner
      BY <1>17, <2>2, Zenon
         DEF ScheduleShutdown, TypeOK, queueVars, runnerVars, waterVars, taskVars, ctlVars
    <2> QED BY <2>1, <2>2, Zenon
  <1>18. ASSUME NEW d \in BOOLEAN, set_disable(d) PROVE TypeOK'
    BY <1>18 DEF set_disable, TypeOK, Goto, queueVars, runnerVars, waterVars, taskVars, ctlVars
  <1>19. CASE UNCHANGED vars
    BY <1>19, Zenon DEF vars, TypeOK, queueVars, runnerVars, waterVars, taskVars, ctlVars
  <1> QED BY <1>1, <1>2, <1>3, <1>4, <1>5, <1>6, <1>7, <1>8, <1>9, <1>10, <1>11, <1>12, <1>13,
             <1>14, <1>15, <1>16, <1>17, <1>18, <1>19, Zenon
             DEF Next, ProducerStep, RunnerStep, CtlStep

-----------------------------------------------------------------------------
(* The runner and the shutdown.                                            *)

RunnerAndShutdown == RunnerKnown /\ ShutdownQuiet

LEMMA RunnerKept == QueueState /\ ShutdownQuiet /\ [Next]_vars => RunnerAndShutdown'
  <1> SUFFICES ASSUME QueueState, ShutdownQuiet, [Next]_vars PROVE RunnerAndShutdown'
    BY Zenon
  <1> USE Disjoint DEF RunnerAndShutdown
  <1> /\ pc \in [Threads -> Places] /\ task \in [Runners -> {"none", "WAIT", "RUN"}]
        /\ entry \in [Runners -> Entry \cup {NULL}] /\ current_runner_ \in Runners \cup {NULL}
        /\ task_cancel_ \in [Runners -> BOOLEAN] /\ complete \in [Runners -> BOOLEAN]
        /\ running_ \in BOOLEAN /\ deleted_ \in BOOLEAN /\ shutdown_scheduled_ \in BOOLEAN
        /\ ThreadsPlaced /\ RunnerKnown /\ ShutdownQuiet
    BY Zenon DEF QueueState, TypeOK, Places
  <1>1. ASSUME NEW p \in Producers, Enqueue(p) PROVE RunnerAndShutdown'
    BY <1>1, Zenon
       DEF Enqueue, Goto, ThreadsPlaced, RunnerKnown, ShutdownQuiet, Active, AreWaterMarksSet,
           queueVars, runnerVars, waterVars, taskVars, ctlVars
  <1>2. ASSUME NEW p \in Producers, LockWaterMutex(p) PROVE RunnerAndShutdown'
    BY <1>2, Zenon
       DEF LockWaterMutex, Goto, ThreadsPlaced, RunnerKnown, ShutdownQuiet, Active,
           AreWaterMarksSet, queueVars, runnerVars, waterVars, taskVars, ctlVars
  <1>3. ASSUME NEW p \in Producers, AtomicIncrementQueueCount(p) PROVE RunnerAndShutdown'
    BY <1>3, Zenon
       DEF AtomicIncrementQueueCount, Goto, ThreadsPlaced, RunnerKnown, ShutdownQuiet, Active,
           AreWaterMarksSet, queueVars, runnerVars, waterVars, taskVars, ctlVars
  <1>4. ASSUME NEW p \in Producers, Drop(p) PROVE RunnerAndShutdown'
    BY <1>4, Zenon
       DEF Drop, Goto, ThreadsPlaced, RunnerKnown, ShutdownQuiet, Active, AreWaterMarksSet,
           Return, queueVars, runnerVars, waterVars, taskVars, ctlVars
  <1>5. ASSUME NEW p \in Producers, Push(p) PROVE RunnerAndShutdown'
    BY <1>5, Zenon
       DEF Push, Goto, ThreadsPlaced, RunnerKnown, ShutdownQuiet, Active, AreWaterMarksSet,
           ProcessHighWaterMarks, queueVars, runnerVars, waterVars, taskVars, ctlVars
  <1>6. ASSUME NEW t \in Producers \cup {ctl}, MayBeStartRunner(t) PROVE RunnerAndShutdown'
    BY <1>6
       DEF MayBeStartRunner, Goto, ThreadsPlaced, RunnerKnown, ShutdownQuiet, Active,
           AreWaterMarksSet, Return, StartRunner, queueVars, runnerVars, waterVars, taskVars,
           ctlVars
  <1>7. ASSUME NEW r \in Runners, Schedule(r) PROVE RunnerAndShutdown'
    BY <1>7, Zenon
       DEF Schedule, Goto, ThreadsPlaced, RunnerKnown, ShutdownQuiet, Active, AreWaterMarksSet,
           queueVars, runnerVars, waterVars, taskVars, ctlVars
  <1>8. ASSUME NEW r \in Runners, OnEntry(r) PROVE RunnerAndShutdown'
    BY <1>8
       DEF OnEntry, Goto, ThreadsPlaced, RunnerKnown, ShutdownQuiet, Active, AreWaterMarksSet,
           queueVars, runnerVars, waterVars, taskVars, ctlVars
  <1>9. ASSUME NEW r \in Runners, RunnerAbort(r) PROVE RunnerAndShutdown'
    BY <1>9, Zenon
       DEF RunnerAbort, Goto, ThreadsPlaced, RunnerKnown, ShutdownQuiet, Active,
           AreWaterMarksSet, queueVars, runnerVars, waterVars, taskVars, ctlVars
  <1>10. ASSUME NEW r \in Runners, TryPop(r) PROVE RunnerAndShutdown'
    BY <1>10
       DEF TryPop, Goto, ThreadsPlaced, RunnerKnown, ShutdownQuiet, Active, AreWaterMarksSet,
           queueVars, runnerVars, waterVars, taskVars, ctlVars
  <1>11. ASSUME NEW r \in Runners, AtomicDecrementQueueCount(r) PROVE RunnerAndShutdown'
    BY <1>11, Zenon
       DEF AtomicDecrementQueueCount, Goto, ThreadsPlaced, RunnerKnown, ShutdownQuiet, Active,
           AreWaterMarksSet, ProcessLowWaterMarks, queueVars, runnerVars, waterVars, taskVars,
           ctlVars
  <1>12. ASSUME NEW r \in Runners, Callback(r) PROVE RunnerAndShutdown'
    BY <1>12
       DEF Callback, Goto, ThreadsPlaced, RunnerKnown, ShutdownQuiet, Active, AreWaterMarksSet,
           queueVars, runnerVars, waterVars, taskVars, ctlVars
  <1>13. ASSUME NEW r \in Runners, RunnerDone(r) PROVE RunnerAndShutdown'
    BY <1>13
       DEF RunnerDone, Goto, ThreadsPlaced, RunnerKnown, ShutdownQuiet, Active,
           AreWaterMarksSet, RunnerAbortLocked, queueVars, runnerVars, waterVars, taskVars,
           ctlVars
  <1>14. ASSUME NEW t \in Runners \cup {ctl}, ShutdownLocked(t) PROVE RunnerAndShutdown'
    BY <1>14
       DEF ShutdownLocked, Goto, ThreadsPlaced, RunnerKnown, ShutdownQuiet, Active,
           AreWaterMarksSet, queueVars, runnerVars, waterVars, taskVars, ctlVars
  <1>15. ASSUME NEW r \in Runners, OnTaskExit(r) PROVE RunnerAndShutdown'
    BY <1>15
       DEF OnTaskExit, Goto, ThreadsPlaced, RunnerKnown, ShutdownQuiet, Active,
           AreWaterMarksSet, queueVars, runnerVars, waterVars, taskVars, ctlVars
  <1>16. ASSUME Shutdown PROVE RunnerAndShutdown'
    BY <1>16, Zenon
       DEF Shutdown, MayShutdown, Goto, ThreadsPlaced, RunnerKnown, ShutdownQuiet, Active, AreWaterMarksSet,
           CancelRunner, queueVars, runnerVars, waterVars, taskVars, ctlVars
  <1>17. ASSUME ScheduleShutdown PROVE RunnerAndShutdown'
    BY <1>17
       DEF ScheduleShutdown, MayShutdown, Goto, ThreadsPlaced, RunnerKnown, ShutdownQuiet,
           Active, AreWaterMarksSet, CancelRunner, queueVars, runnerVars, waterVars, taskVars,
           ctlVars
  <1>18. ASSUME NEW d \in BOOLEAN, set_disable(d) PROVE RunnerAndShutdown'
    BY <1>18, Zenon
       DEF set_disable, Goto, ThreadsPlaced, RunnerKnown, ShutdownQuiet, Active,
           AreWaterMarksSet, queueVars, runnerVars, waterVars, taskVars, ctlVars
  <1>19. CASE UNCHANGED vars
    BY <1>19, Zenon
       DEF vars, RunnerKnown, ShutdownQuiet, Active, AreWaterMarksSet, queueVars, runnerVars,
           waterVars, taskVars, ctlVars
  <1> QED BY <1>1, <1>2, <1>3, <1>4, <1>5, <1>6, <1>7, <1>8, <1>9, <1>10, <1>11, <1>12, <1>13,
             <1>14, <1>15, <1>16, <1>17, <1>18, <1>19, Zenon
             DEF Next, ProducerStep, RunnerStep, CtlStep

-----------------------------------------------------------------------------
(* The order of the entries.                                                *)

\* Sequences of entries: the last of a sequence may be moved to the next one.
LEMMA MoveLast ==
  ASSUME NEW s \in Seq(Entry), NEW q \in Seq(Entry), q # <<>>
  PROVE  Append(s, Head(q)) \o Tail(q) = s \o q
  <1> DEFINE a == Append(s, Head(q)) \o Tail(q)
             b == s \o q
  <1>1. Head(q) \in Entry /\ Tail(q) \in Seq(Entry) /\ Len(Tail(q)) = Len(q) - 1
    OBVIOUS
  <1>2. a \in Seq(Entry) /\ b \in Seq(Entry) /\ Len(a) = Len(s) + Len(q) /\ Len(b) = Len(a)
    BY <1>1
  <1>3. ASSUME NEW i \in 1 .. (Len(s) + Len(q)) PROVE a[i] = b[i]
    <2>1. CASE i <= Len(s)
      BY <1>1, <2>1
    <2>2. CASE i = Len(s) + 1
      BY <1>1, <2>2
    <2>3. CASE i > Len(s) + 1
      BY <1>1, <2>3
    <2> QED BY <2>1, <2>2, <2>3
  <1> QED BY <1>2, <1>3

LEMMA AppendLast ==
  ASSUME NEW s \in Seq(Entry), NEW q \in Seq(Entry), NEW e \in Entry
  PROVE  s \o Append(q, e) = Append(s \o q, e)
  <1> DEFINE a == s \o Append(q, e)
             b == Append(s \o q, e)
  <1>1. a \in Seq(Entry) /\ b \in Seq(Entry) /\ Len(a) = Len(s) + Len(q) + 1 /\ Len(b) = Len(a)
    OBVIOUS
  <1>2. ASSUME NEW i \in 1 .. (Len(s) + Len(q) + 1) PROVE a[i] = b[i]
    <2>1. CASE i <= Len(s)
      BY <2>1
    <2>2. CASE i > Len(s) /\ i <= Len(s) + Len(q)
      BY <2>2
    <2>3. CASE i = Len(s) + Len(q) + 1
      BY <2>3
    <2> QED BY <2>1, <2>2, <2>3
  <1> QED BY <1>1, <1>2

LEMMA ConcatRange ==
  ASSUME NEW s \in Seq(Entry), NEW q \in Seq(Entry), NEW i \in DOMAIN (s \o q)
  PROVE  (s \o q)[i] \in Range(s) \cup Range(q)
  <1>1. CASE i <= Len(s)
    BY <1>1 DEF Range
  <1>2. CASE i > Len(s)
    BY <1>2 DEF Range
  <1> QED BY <1>1, <1>2

\* The first part of a sequence in order is in order.
LEMMA OrderedPrefix ==
  ASSUME NEW s \in Seq(Entry), NEW q \in Seq(Entry), Ordered(s \o q)
  PROVE  Ordered(s)
  <1>1. \A i \in DOMAIN s : i \in DOMAIN (s \o q) /\ (s \o q)[i] = s[i]
    OBVIOUS
  <1> QED BY <1>1, Zenon DEF Ordered

\* An entry later than those of its producer may be appended.
LEMMA OrderedAppend ==
  ASSUME NEW s \in Seq(Entry), NEW e \in Entry, Ordered(s),
         \A i \in DOMAIN s : s[i][1] = e[1] => s[i][2] < e[2]
  PROVE  Ordered(Append(s, e))
  <1> DEFINE a == Append(s, e)
             n == Len(s)
  <1>1. n \in Nat /\ DOMAIN a = 1 .. (n + 1) /\ DOMAIN s = 1 .. n /\ a[n + 1] = e
    OBVIOUS
  <1>2. \A i \in 1 .. n : a[i] = s[i]
    OBVIOUS
  <1> HIDE DEF a, n
  <1>3. ASSUME NEW i \in 1 .. (n + 1), NEW j \in 1 .. (n + 1), i < j, a[i][1] = a[j][1]
        PROVE  a[i][2] < a[j][2]
    <2>1. CASE j = n + 1
      BY <1>1, <1>2, <1>3, <2>1
    <2>2. CASE j # n + 1
      BY <1>1, <1>2, <1>3, <2>2 DEF Ordered
    <2> QED BY <2>1, <2>2, Zenon
  <1> QED BY <1>1, <1>3, Zenon DEF Ordered, a

\* Only the current runner holds an entry.
LEMMA HeldByCurrent ==
  ASSUME QueueState
  PROVE  \A r \in Runners : pc[r] = "loop" \/ r \in Held => current_runner_ = r
  BY Zenon DEF QueueState, ThreadsPlaced, RunnerKnown, Active, Held

\* A step that moves no entry, and hides none that was enqueued.
EnqueuedKept == \A e \in Entry : Enqueued(e) => Enqueued(e)'

LEMMA FifoSame ==
  ASSUME TypeOK, FifoOnce, EnqueuedKept, UNCHANGED <<queue_, entry, processed>>
  PROVE  FifoOnce'
  <1>1. Held' = Held
    BY Zenon DEF Held
  <1>2. Range(processed) \cup {entry[r] : r \in Held} \cup Range(queue_) \subseteq Entry
    BY DEF TypeOK, Held, Range
  <1>3. \A e \in Range(processed) \cup {entry[r] : r \in Held} \cup Range(queue_) : Enqueued(e)'
    BY <1>2, Zenon DEF FifoOnce, EnqueuedKept
  <1>4. \A r \in Held' : Ordered(Append(processed', entry'[r]) \o queue_')
    BY <1>1, Zenon DEF FifoOnce
  <1>5. Held' = {} => Ordered(processed' \o queue_')
    BY <1>1, Zenon DEF FifoOnce
  <1>6. \A r, q \in Held' : r = q
    BY <1>1, Zenon DEF FifoOnce
  <1>7. \A e \in Range(processed') \cup {entry'[r] : r \in Held'} \cup Range(queue_') :
           Enqueued(e)'
    BY <1>1, <1>3, Zenon
  <1> QED BY <1>4, <1>5, <1>6, <1>7, Zenon DEF FifoOnce, Ordered

\* The types that the order needs.
EntriesTyped ==
    /\ pc \in [Threads -> Places] /\ sent \in [Producers -> 0 .. MaxEnqueues]
    /\ queue_ \in Seq(Entry) /\ processed \in Seq(Entry)
    /\ entry \in [Runners -> Entry \cup {NULL}] /\ NULL \notin Entry /\ MaxEnqueues \in Nat
    /\ \A e \in Entry : e[1] \in Producers /\ e[2] \in Nat
    /\ Producers \subseteq Threads /\ Runners \subseteq Threads
    /\ ctl \in Threads /\ ctl \notin Producers

LEMMA EntryTypes == TypeOK => EntriesTyped
  <1> SUFFICES ASSUME TypeOK PROVE EntriesTyped
    BY Zenon
  <1>1. \A e \in Entry : e[1] \in Producers /\ e[2] \in Nat /\ e # NULL
    BY ConfigAssumption, ThreadAssumption DEF Entry
  <1> QED BY <1>1, ConfigAssumption, Disjoint, Zenon DEF EntriesTyped, TypeOK, Places

\* Push puts an entry behind all the producer enqueued before.
LEMMA PushFifo ==
  ASSUME TypeOK, ThreadsPlaced, FifoOnce, NEW p \in Producers, Push(p)
  PROVE  FifoOnce'
  <1> EntriesTyped
    BY EntryTypes, Zenon
  <1> USE DEF EntriesTyped
  <1>0. <<p, sent[p]>> \in Entry
    BY DEF Push, Entry, ThreadsPlaced
  <1>1. PICK e \in Entry : e = <<p, sent[p]>>
    BY <1>0, Zenon
  <1>2. /\ queue_' = Append(queue_, e) /\ entry' = entry /\ processed' = processed
        /\ Held' = Held
    BY <1>1, Zenon DEF Push, Held
  <1>3. EnqueuedKept /\ Enqueued(e)'
    BY <1>1 DEF Push, Goto, EnqueuedKept, Enqueued
  <1>4. \A f \in Entry : Enqueued(f) /\ f[1] = e[1] => f[2] < e[2]
    BY <1>1, Zenon DEF Push, Enqueued
  <1>5. Range(queue_') = Range(queue_) \cup {e}
    <2>1. /\ DOMAIN queue_' = DOMAIN queue_ \cup {Len(queue_) + 1}
          /\ queue_'[Len(queue_) + 1] = e /\ \A i \in DOMAIN queue_ : queue_'[i] = queue_[i]
      BY <1>1, <1>2
    <2> QED BY <2>1 DEF Range
  <1>6. Range(processed) \cup {entry[r] : r \in Held} \cup Range(queue_) \subseteq Entry
    BY DEF Held, Range
  <1>7. \A f \in Range(processed) \cup {entry[r] : r \in Held} \cup Range(queue_) :
           Enqueued(f)
    BY Zenon DEF FifoOnce
  <1>8. ASSUME NEW s \in Seq(Entry), Ordered(s \o queue_),
               \A f \in Range(s) : Enqueued(f)
        PROVE  Ordered(s \o queue_')
    <2>1. s \o queue_' = Append(s \o queue_, e) /\ s \o queue_ \in Seq(Entry)
      BY <1>1, <1>2, AppendLast
    <2>2. ASSUME NEW i \in DOMAIN (s \o queue_), (s \o queue_)[i][1] = e[1]
          PROVE  (s \o queue_)[i][2] < e[2]
      <3>1. (s \o queue_)[i] \in Range(s) \cup Range(queue_)
        BY ConcatRange, Zenon
      <3>2. (s \o queue_)[i] \in Entry
        BY <2>1
      <3>3. Enqueued((s \o queue_)[i])
        BY <1>7, <1>8, <3>1, Zenon
      <3> QED BY <1>4, <2>2, <3>2, <3>3, Zenon
    <2> QED BY <1>1, <1>8, <2>1, <2>2, OrderedAppend, Zenon
  <1>9. Held = {} => Ordered(processed \o queue_')
    BY <1>7, <1>8, Zenon DEF FifoOnce
  <1>10. ASSUME NEW r \in Held PROVE Ordered(Append(processed, entry[r]) \o queue_')
    <2>1. entry[r] \in Entry /\ Enqueued(entry[r])
      BY <1>6, <1>7, Zenon
    <2>2. Append(processed, entry[r]) \in Seq(Entry)
      BY <2>1
    <2>3. \A f \in Range(Append(processed, entry[r])) : Enqueued(f)
      <3>1. Range(Append(processed, entry[r])) \subseteq Range(processed) \cup {entry[r]}
        BY <2>1 DEF Range
      <3> QED BY <1>7, <2>1, <3>1, Zenon
    <2> QED BY <1>8, <2>2, <2>3, Zenon DEF FifoOnce
  <1>11. \A f \in Range(processed) \cup {entry[r] : r \in Held} \cup Range(queue_') :
            Enqueued(f)'
    <2>1. \A f \in Range(processed) \cup {entry[r] : r \in Held} \cup Range(queue_) :
             Enqueued(f)'
      BY <1>3, <1>6, <1>7, Zenon DEF EnqueuedKept
    <2> QED BY <1>3, <1>5, <2>1, Zenon
  <1>12. \A r, q \in Held' : r = q
    BY <1>2, Zenon DEF FifoOnce
  <1>13. \A r \in Held' : Ordered(Append(processed', entry'[r]) \o queue_')
    BY <1>2, <1>10, Zenon
  <1>14. Held' = {} => Ordered(processed' \o queue_')
    BY <1>2, <1>9, Zenon
  <1>15. \A f \in Range(processed') \cup {entry'[r] : r \in Held'} \cup Range(queue_') :
            Enqueued(f)'
    BY <1>2, <1>11, Zenon
  <1> QED BY <1>12, <1>13, <1>14, <1>15, Zenon DEF FifoOnce, Ordered

\* TryPop takes the first entry, and the runner holds no other.
LEMMA TryPopFifo ==
  ASSUME QueueState, FifoOnce, NEW r \in Runners, TryPop(r)
  PROVE  FifoOnce'
  <1> TypeOK /\ ThreadsPlaced
    BY Zenon DEF QueueState
  <1> EntriesTyped
    BY EntryTypes, Zenon
  <1> USE DEF EntriesTyped
  <1>1. EnqueuedKept
    BY Zenon DEF TryPop, Goto, EnqueuedKept, Enqueued
  <1>2. CASE queue_ = <<>>
    <2>1. UNCHANGED <<queue_, entry, processed>>
      BY <1>2, Zenon DEF TryPop
    <2> QED BY <1>1, <2>1, FifoSame, Zenon
  <1>3. CASE queue_ # <<>>
    <2>1. PICK e \in Entry : e = Head(queue_)
      BY <1>3
    <2>2. entry' = [entry EXCEPT ![r] = e] /\ queue_' = Tail(queue_) /\ processed' = processed
      BY <1>3, <2>1, Zenon DEF TryPop
    <2>3. current_runner_ = r /\ entry[r] = NULL
      BY HeldByCurrent, Zenon DEF TryPop, ThreadsPlaced
    <2>4. Held = {} /\ Held' = {r} /\ entry'[r] = e
      <3>1. \A q \in Runners : entry[q] = NULL
        BY <2>3, HeldByCurrent, Zenon DEF Held
      <3> QED BY <2>2, <3>1, Zenon DEF Held
    <2>5. Append(processed, e) \o queue_' = processed \o queue_
      BY <1>3, <2>1, <2>2, MoveLast, Zenon
    <2>6. Ordered(Append(processed', entry'[r]) \o queue_')
      BY <2>2, <2>4, <2>5, Zenon DEF FifoOnce
    <2>7. Range(queue_') \cup {e} \subseteq Range(queue_)
      BY <1>3, <2>1, <2>2 DEF Range
    <2>8. Range(processed) \cup Range(queue_) \subseteq Entry
      BY DEF Range
    <2>9. \A f \in Range(processed) \cup Range(queue_) : Enqueued(f)'
      BY <1>1, <2>8, Zenon DEF FifoOnce, EnqueuedKept
    <2>10. \A f \in Range(processed') \cup {entry'[q] : q \in Held'} \cup Range(queue_') :
              Enqueued(f)'
      BY <2>2, <2>4, <2>7, <2>9, Zenon
    <2> QED BY <2>4, <2>6, <2>10, Zenon DEF FifoOnce, Ordered
  <1> QED BY <1>2, <1>3, Zenon

\* Callback handles the entry that the runner holds.
LEMMA CallbackFifo ==
  ASSUME TypeOK, ThreadsPlaced, FifoOnce, NEW r \in Runners, Callback(r)
  PROVE  FifoOnce'
  <1> EntriesTyped
    BY EntryTypes, Zenon
  <1> USE DEF EntriesTyped
  <1>1. EnqueuedKept
    BY Zenon DEF Callback, Goto, EnqueuedKept, Enqueued
  <1>2. r \in Held /\ entry[r] \in Entry
    BY DEF Callback, ThreadsPlaced, Held
  <1>3. /\ processed' = Append(processed, entry[r]) /\ queue_' = queue_
        /\ entry' = [entry EXCEPT ![r] = NULL]
    BY Zenon DEF Callback, queueVars
  <1>4. Held' = {}
    BY <1>2, <1>3, Zenon DEF Held, FifoOnce
  <1>5. Ordered(processed' \o queue_')
    BY <1>2, <1>3, Zenon DEF FifoOnce
  <1>6. Range(processed') \subseteq Range(processed) \cup {entry[r]}
    BY <1>2, <1>3 DEF Range
  <1>7. \A f \in Range(processed) \cup {entry[r]} \cup Range(queue_) :
           f \in Entry /\ Enqueued(f)
    <2>1. Range(processed) \cup {entry[r]} \cup Range(queue_) \subseteq Entry
      BY <1>2 DEF Range
    <2> QED BY <1>2, <2>1, Zenon DEF FifoOnce
  <1>8. \A f \in Range(processed') \cup Range(queue_') : Enqueued(f)'
    BY <1>1, <1>3, <1>6, <1>7, Zenon DEF EnqueuedKept
  <1> QED BY <1>4, <1>5, <1>8, Zenon DEF FifoOnce, Ordered

\* ShutdownLocked deletes what is queued while no runner holds an entry.
LEMMA ShutdownFifo ==
  ASSUME TypeOK, ThreadsPlaced, Held = {}, FifoOnce, NEW t \in Runners \cup {ctl}, ShutdownLocked(t)
  PROVE  FifoOnce'
  <1> EntriesTyped
    BY EntryTypes, Zenon
  <1> USE DEF EntriesTyped
  <1>1. EnqueuedKept
    BY Zenon DEF ShutdownLocked, Goto, EnqueuedKept, Enqueued
  <1>3. queue_' = <<>> /\ processed' = processed /\ Held' = Held
    BY Zenon DEF ShutdownLocked, Held
  <1>4. Ordered(processed)
    BY OrderedPrefix, Zenon DEF FifoOnce
  <1>5. processed \o <<>> = processed /\ Range(<<>>) = {}
    BY DEF Range
  <1>6. \A f \in Range(processed) : f \in Entry /\ Enqueued(f)
    BY DEF FifoOnce, Range
  <1>7. \A f \in Range(processed) : Enqueued(f)'
    BY <1>1, <1>6, Zenon DEF EnqueuedKept
  <1> QED BY <1>3, <1>4, <1>5, <1>7 DEF FifoOnce, Ordered

LEMMA FifoKept == QueueState /\ ShutdownQuiet /\ FifoOnce /\ [Next]_vars => FifoOnce'
  <1> SUFFICES ASSUME QueueState, ShutdownQuiet, FifoOnce, [Next]_vars PROVE FifoOnce'
    BY Zenon
  <1> TypeOK /\ ThreadsPlaced
    BY Zenon DEF QueueState
  <1> EntriesTyped
    BY EntryTypes, Zenon
  <1> USE DEF EntriesTyped
  <1>1. ASSUME NEW p \in Producers, Enqueue(p) PROVE FifoOnce'
    <2>1. EnqueuedKept
      BY <1>1 DEF Enqueue, Goto, EnqueuedKept, Enqueued
    <2>2. UNCHANGED <<queue_, entry, processed>>
      BY <1>1, Zenon DEF Enqueue, queueVars
    <2> QED BY <2>1, <2>2, FifoSame, Zenon
  <1>2. ASSUME NEW p \in Producers, LockWaterMutex(p) PROVE FifoOnce'
    <2>1. EnqueuedKept
      BY <1>2, Zenon DEF LockWaterMutex, Goto, EnqueuedKept, Enqueued
    <2>2. UNCHANGED <<queue_, entry, processed>>
      BY <1>2, Zenon DEF LockWaterMutex, queueVars
    <2> QED BY <2>1, <2>2, FifoSame, Zenon
  <1>3. ASSUME NEW p \in Producers, AtomicIncrementQueueCount(p) PROVE FifoOnce'
    <2>1. EnqueuedKept
      BY <1>3, Zenon DEF AtomicIncrementQueueCount, Goto, EnqueuedKept, Enqueued
    <2>2. UNCHANGED <<queue_, entry, processed>>
      BY <1>3, Zenon DEF AtomicIncrementQueueCount, queueVars
    <2> QED BY <2>1, <2>2, FifoSame, Zenon
  <1>4. ASSUME NEW p \in Producers, Drop(p) PROVE FifoOnce'
    <2>1. EnqueuedKept
      BY <1>4, Zenon DEF Drop, Return, Goto, EnqueuedKept, Enqueued
    <2>2. UNCHANGED <<queue_, entry, processed>>
      BY <1>4, Zenon DEF Drop, queueVars
    <2> QED BY <2>1, <2>2, FifoSame, Zenon
  <1>5. ASSUME NEW p \in Producers, Push(p) PROVE FifoOnce'
    BY <1>5, PushFifo, Zenon
  <1>6. ASSUME NEW t \in Producers \cup {ctl}, MayBeStartRunner(t) PROVE FifoOnce'
    <2>1. EnqueuedKept
      BY <1>6, Zenon DEF MayBeStartRunner, Return, Goto, EnqueuedKept, Enqueued
    <2>2. UNCHANGED <<queue_, entry, processed>>
      BY <1>6, Zenon DEF MayBeStartRunner, queueVars
    <2> QED BY <2>1, <2>2, FifoSame, Zenon
  <1>7. ASSUME NEW r \in Runners, Schedule(r) PROVE FifoOnce'
    <2>1. EnqueuedKept
      BY <1>7, Zenon DEF Schedule, Goto, ThreadsPlaced, EnqueuedKept, Enqueued
    <2>2. UNCHANGED <<queue_, entry, processed>>
      BY <1>7, Zenon DEF Schedule, queueVars
    <2> QED BY <2>1, <2>2, FifoSame, Zenon
  <1>8. ASSUME NEW r \in Runners, OnEntry(r) PROVE FifoOnce'
    <2>1. EnqueuedKept
      BY <1>8, Zenon DEF OnEntry, Goto, EnqueuedKept, Enqueued
    <2>2. UNCHANGED <<queue_, entry, processed>>
      BY <1>8, Zenon DEF OnEntry, queueVars
    <2> QED BY <2>1, <2>2, FifoSame, Zenon
  <1>9. ASSUME NEW r \in Runners, RunnerAbort(r) PROVE FifoOnce'
    <2>1. EnqueuedKept
      BY <1>9, Zenon DEF RunnerAbort, Goto, EnqueuedKept, Enqueued
    <2>2. UNCHANGED <<queue_, entry, processed>>
      BY <1>9, Zenon DEF RunnerAbort, queueVars
    <2> QED BY <2>1, <2>2, FifoSame, Zenon
  <1>10. ASSUME NEW r \in Runners, TryPop(r) PROVE FifoOnce'
    BY <1>10, TryPopFifo, Zenon
  <1>11. ASSUME NEW r \in Runners, AtomicDecrementQueueCount(r) PROVE FifoOnce'
    <2>1. EnqueuedKept
      BY <1>11, Zenon DEF AtomicDecrementQueueCount, Goto, EnqueuedKept, Enqueued
    <2>2. UNCHANGED <<queue_, entry, processed>>
      BY <1>11, Zenon DEF AtomicDecrementQueueCount, queueVars
    <2> QED BY <2>1, <2>2, FifoSame, Zenon
  <1>12. ASSUME NEW r \in Runners, Callback(r) PROVE FifoOnce'
    BY <1>12, CallbackFifo, Zenon
  <1>13. ASSUME NEW r \in Runners, RunnerDone(r) PROVE FifoOnce'
    <2>1. EnqueuedKept
      BY <1>13, Zenon DEF RunnerDone, Goto, EnqueuedKept, Enqueued
    <2>2. UNCHANGED <<queue_, entry, processed>>
      BY <1>13, Zenon DEF RunnerDone, queueVars
    <2> QED BY <2>1, <2>2, FifoSame, Zenon
  <1>14. ASSUME NEW t \in Runners \cup {ctl}, ShutdownLocked(t) PROVE FifoOnce'
    <2>1. Held = {}
      <3>1. RunnerAndShutdown'
        BY RunnerKept, Zenon
      <3> QED BY <3>1, <1>14, Zenon DEF ShutdownLocked, RunnerAndShutdown, ShutdownQuiet, Held
    <2> QED BY <1>14, <2>1, ShutdownFifo, Zenon
  <1>15. ASSUME NEW r \in Runners, OnTaskExit(r) PROVE FifoOnce'
    <2>1. EnqueuedKept
      BY <1>15, Zenon DEF OnTaskExit, Goto, EnqueuedKept, Enqueued
    <2>2. UNCHANGED <<queue_, entry, processed>>
      BY <1>15, Zenon DEF OnTaskExit, queueVars
    <2> QED BY <2>1, <2>2, FifoSame, Zenon
  <1>16. ASSUME Shutdown PROVE FifoOnce'
    <2>1. EnqueuedKept
      BY <1>16, Zenon DEF Shutdown, CancelRunner, Goto, EnqueuedKept, Enqueued
    <2>2. UNCHANGED <<queue_, entry, processed>>
      BY <1>16, Zenon DEF Shutdown, queueVars
    <2> QED BY <2>1, <2>2, FifoSame, Zenon
  <1>17. ASSUME ScheduleShutdown PROVE FifoOnce'
    <2>1. EnqueuedKept
      BY <1>17, Zenon DEF ScheduleShutdown, CancelRunner, Goto, EnqueuedKept, Enqueued
    <2>2. UNCHANGED <<queue_, entry, processed>>
      BY <1>17, Zenon DEF ScheduleShutdown, queueVars
    <2> QED BY <2>1, <2>2, FifoSame, Zenon
  <1>18. ASSUME NEW d \in BOOLEAN, set_disable(d) PROVE FifoOnce'
    <2>1. EnqueuedKept
      BY <1>18, Zenon DEF set_disable, Goto, EnqueuedKept, Enqueued
    <2>2. UNCHANGED <<queue_, entry, processed>>
      BY <1>18, Zenon DEF set_disable, queueVars
    <2> QED BY <2>1, <2>2, FifoSame, Zenon
  <1>19. CASE UNCHANGED vars
    <2>1. EnqueuedKept
      BY <1>19, Zenon DEF vars, Goto, EnqueuedKept, Enqueued
    <2>2. UNCHANGED <<queue_, entry, processed>>
      BY <1>19, Zenon DEF vars, queueVars
    <2> QED BY <2>1, <2>2, FifoSame, Zenon
  <1> QED BY <1>1, <1>2, <1>3, <1>4, <1>5, <1>6, <1>7, <1>8, <1>9, <1>10, <1>11, <1>12, <1>13,
             <1>14, <1>15, <1>16, <1>17, <1>18, <1>19, Zenon
             DEF Next, ProducerStep, RunnerStep, CtlStep

-----------------------------------------------------------------------------
(* Where threads are.                                                      *)

LEMMA PlacesKept == QueueState /\ [Next]_vars => ThreadsPlaced'
  <1> SUFFICES ASSUME QueueState, [Next]_vars PROVE ThreadsPlaced'
    BY Zenon
  <1> USE Disjoint
  <1> /\ pc \in [Threads -> Places] /\ task \in [Runners -> {"none", "WAIT", "RUN"}]
        /\ entry \in [Runners -> Entry \cup {NULL}] /\ sent \in [Producers -> 0 .. MaxEnqueues]
        /\ count \in [Runners -> 0 .. max_iterations_] /\ max_iterations_ > 0
        /\ task_cancel_ \in [Runners -> BOOLEAN] /\ complete \in [Runners -> BOOLEAN]
        /\ ThreadsPlaced
    BY ConfigAssumption DEF QueueState, TypeOK, Places
  <1>1. ASSUME NEW p \in Producers, Enqueue(p) PROVE ThreadsPlaced'
    BY <1>1
       DEF Enqueue, Goto, ThreadsPlaced, queueVars, runnerVars, waterVars, taskVars, ctlVars
  <1>2. ASSUME NEW p \in Producers, LockWaterMutex(p) PROVE ThreadsPlaced'
    BY <1>2, Zenon
       DEF LockWaterMutex, Goto, ThreadsPlaced, queueVars, runnerVars, waterVars, taskVars,
           ctlVars
  <1>3. ASSUME NEW p \in Producers, AtomicIncrementQueueCount(p) PROVE ThreadsPlaced'
    BY <1>3, Zenon
       DEF AtomicIncrementQueueCount, Goto, ThreadsPlaced, queueVars, runnerVars, waterVars,
           taskVars, ctlVars
  <1>4. ASSUME NEW p \in Producers, Drop(p) PROVE ThreadsPlaced'
    BY <1>4, Zenon
       DEF Drop, Goto, ThreadsPlaced, Return, queueVars, runnerVars, waterVars, taskVars,
           ctlVars
  <1>5. ASSUME NEW p \in Producers, Push(p) PROVE ThreadsPlaced'
    BY <1>5, Zenon
       DEF Push, Goto, ThreadsPlaced, queueVars, runnerVars, waterVars, taskVars, ctlVars
  <1>6. ASSUME NEW t \in Producers \cup {ctl}, MayBeStartRunner(t) PROVE ThreadsPlaced'
    <2>1. /\ pc[t] = "start" /\ pc' = [pc EXCEPT ![t] = "idle"]
          /\ UNCHANGED <<mutex_, entry, count, sent, shutdown_scheduled_>>
      BY <1>6, Zenon DEF MayBeStartRunner, Return, Goto, ctlVars
    <2>2. CASE UNCHANGED <<runnerVars, taskVars>>
      BY <2>1, <2>2, Zenon DEF ThreadsPlaced, taskVars
    <2>3. CASE \E r \in Runners :
                 /\ task[r] = "none"
                 /\ task' = [task EXCEPT ![r] = "WAIT"]
                 /\ task_cancel_' = [task_cancel_ EXCEPT ![r] = FALSE]
                 /\ UNCHANGED complete
      BY <2>1, <2>3 DEF ThreadsPlaced
    <2> QED BY <1>6, <2>2, <2>3, Zenon DEF MayBeStartRunner, StartRunner
  <1>7. ASSUME NEW r \in Runners, Schedule(r) PROVE ThreadsPlaced'
    BY <1>7
       DEF Schedule, Goto, ThreadsPlaced, queueVars, runnerVars, waterVars, taskVars, ctlVars
  <1>8. ASSUME NEW r \in Runners, OnEntry(r) PROVE ThreadsPlaced'
    BY <1>8
       DEF OnEntry, Goto, ThreadsPlaced, queueVars, runnerVars, waterVars, taskVars, ctlVars
  <1>9. ASSUME NEW r \in Runners, RunnerAbort(r) PROVE ThreadsPlaced'
    BY <1>9, Zenon
       DEF RunnerAbort, Goto, ThreadsPlaced, queueVars, runnerVars, waterVars, taskVars,
           ctlVars
  <1>10. ASSUME NEW r \in Runners, TryPop(r) PROVE ThreadsPlaced'
    <2>1. queue_ # <<>> => Head(queue_) # NULL
      BY ThreadAssumption DEF QueueState, TypeOK, Entry
    <2>2. /\ pc[r] = "loop" /\ UNCHANGED <<mutex_, task, task_cancel_, complete>>
          /\ UNCHANGED <<count, sent, shutdown_scheduled_>>
      BY <1>10, Zenon DEF TryPop, taskVars, ctlVars
    <2>3. CASE queue_ = <<>>
      <3>1. pc' = [pc EXCEPT ![r] = "done"] /\ entry' = entry
        BY <1>10, <2>3, Zenon DEF TryPop, Goto
      <3> QED BY <2>2, <3>1, Zenon DEF ThreadsPlaced
    <2>4. CASE queue_ # <<>>
      <3>1. /\ pc' = [pc EXCEPT ![r] = "popped"]
            /\ entry' = [entry EXCEPT ![r] = Head(queue_)]
        BY <1>10, <2>4, Zenon DEF TryPop, Goto
      <3> QED BY <2>1, <2>2, <2>4, <3>1, Zenon DEF ThreadsPlaced
    <2> QED BY <2>3, <2>4, Zenon
  <1>11. ASSUME NEW r \in Runners, AtomicDecrementQueueCount(r) PROVE ThreadsPlaced'
    BY <1>11, Zenon
       DEF AtomicDecrementQueueCount, Goto, ThreadsPlaced, queueVars, runnerVars, waterVars,
           taskVars, ctlVars
  <1>12. ASSUME NEW r \in Runners, Callback(r) PROVE ThreadsPlaced'
    BY <1>12
       DEF Callback, Goto, ThreadsPlaced, queueVars, runnerVars, waterVars, taskVars, ctlVars
  <1>13. ASSUME NEW r \in Runners, RunnerDone(r) PROVE ThreadsPlaced'
    <2>1. /\ pc[r] = "done" /\ mutex_ = NULL
          /\ UNCHANGED <<task, task_cancel_, entry, count, sent, shutdown_scheduled_>>
          /\ \A q \in Runners \ {r} : complete'[q] = complete[q]
      BY <1>13, Zenon DEF RunnerDone, ctlVars
    <2>2. CASE shutdown_scheduled_
      <3>1. mutex_' = r /\ Goto(r, "shutdown") /\ complete'[r] = TRUE
        BY <1>13, <2>2, Zenon DEF RunnerDone, RunnerAbortLocked
      <3> QED BY <2>1, <3>1, NullNoThread, Zenon DEF ThreadsPlaced, Goto
    <2>3. CASE ~shutdown_scheduled_
      <3>1. mutex_' = mutex_ /\ Goto(r, "exit")
        BY <1>13, <2>3, Zenon DEF RunnerDone
      <3> QED BY <2>1, <3>1, NullNoThread, Zenon DEF ThreadsPlaced, Goto
    <2> QED BY <2>2, <2>3, Zenon
  <1>14. ASSUME NEW t \in Runners \cup {ctl}, ShutdownLocked(t) PROVE ThreadsPlaced'
    <2>1. pc[t] = "shutdown" /\ mutex_ = t /\ mutex_' = NULL
      BY <1>14, Zenon DEF ShutdownLocked, ThreadsPlaced
    <2>2. UNCHANGED <<task, task_cancel_, complete, entry, count, sent, shutdown_scheduled_>>
      BY <1>14, Zenon DEF ShutdownLocked, taskVars
    <2>3. CASE t \in Runners
      <3>1. Goto(t, "exit")
        BY <1>14, <2>3, Zenon DEF ShutdownLocked
      <3> QED BY <2>1, <2>2, <2>3, <3>1, NullNoThread, Zenon DEF ThreadsPlaced, Goto
    <2>4. CASE t = ctl
      <3>1. Goto(ctl, "idle")
        BY <1>14, <2>4, Zenon DEF ShutdownLocked
      <3> QED BY <2>1, <2>2, <2>4, <3>1, NullNoThread, Zenon DEF ThreadsPlaced, Goto
    <2> QED BY <2>3, <2>4, Zenon
  <1>15. ASSUME NEW r \in Runners, OnTaskExit(r) PROVE ThreadsPlaced'
    BY <1>15, Zenon
       DEF OnTaskExit, Goto, ThreadsPlaced, queueVars, runnerVars, waterVars, taskVars, ctlVars
  <1>16. ASSUME Shutdown PROVE ThreadsPlaced'
    <2>1. /\ pc[ctl] = "idle" /\ mutex_ = NULL
          /\ UNCHANGED <<complete, entry, count, sent>>
          /\ shutdown_scheduled_ => shutdown_scheduled_'
      BY <1>16, Zenon DEF Shutdown, MayShutdown, ctlVars
    <2>2. CancelRunner
      BY <1>16, Zenon DEF Shutdown
    <2>3. /\ mutex_' = ctl /\ Goto(ctl, "shutdown") /\ task_cancel_' = task_cancel_
          /\ \A r \in Runners : task'[r] = task[r] \/ (task[r] # "RUN" /\ task'[r] = "none")
      BY <1>16, <2>2, Zenon DEF Shutdown, CancelRunner
    <2> QED BY <2>1, <2>3, NullNoThread, Zenon DEF ThreadsPlaced, Goto
  <1>17. ASSUME ScheduleShutdown PROVE ThreadsPlaced'
    <2>1. /\ pc[ctl] = "idle" /\ mutex_ = NULL
          /\ UNCHANGED <<complete, entry, count, sent>>
          /\ shutdown_scheduled_ => shutdown_scheduled_'
      BY <1>17, Zenon DEF ScheduleShutdown, MayShutdown, ctlVars
    <2>2. CASE CancelRunner /\ (running_ => task[current_runner_] = "WAIT")
      <3>1. /\ mutex_' = ctl /\ Goto(ctl, "shutdown") /\ task_cancel_' = task_cancel_
            /\ \A r \in Runners : task'[r] = task[r] \/ (task[r] # "RUN" /\ task'[r] = "none")
        BY <1>17, <2>2, Zenon DEF ScheduleShutdown, CancelRunner
      <3> QED BY <2>1, <3>1, NullNoThread, Zenon DEF ThreadsPlaced, Goto
    <2>3. CASE running_ /\ task_cancel_' = [task_cancel_ EXCEPT ![current_runner_] = TRUE]
               /\ UNCHANGED <<task, mutex_, pc>>
      <3>1. shutdown_scheduled_' = TRUE
        BY <1>17, Zenon DEF ScheduleShutdown
      <3> QED BY <2>1, <2>3, <3>1, Zenon DEF ThreadsPlaced
    <2> QED BY <1>17, <2>2, <2>3, Zenon DEF ScheduleShutdown
  <1>18. ASSUME NEW d \in BOOLEAN, set_disable(d) PROVE ThreadsPlaced'
    BY <1>18, Zenon
       DEF set_disable, Goto, ThreadsPlaced, queueVars, runnerVars, waterVars, taskVars,
           ctlVars
  <1>19. CASE UNCHANGED vars
    BY <1>19, Zenon DEF vars, ThreadsPlaced, queueVars, runnerVars, waterVars, taskVars, ctlVars
  <1> QED BY <1>1, <1>2, <1>3, <1>4, <1>5, <1>6, <1>7, <1>8, <1>9, <1>10, <1>11, <1>12, <1>13,
             <1>14, <1>15, <1>16, <1>17, <1>18, <1>19, Zenon
             DEF Next, ProducerStep, RunnerStep, CtlStep

-----------------------------------------------------------------------------
(* No stranded entry.                                                      *)

LEMMA StartKept == QueueState /\ NoStrandedEntry /\ [Next]_vars => NoStrandedEntry'
  <1> SUFFICES ASSUME QueueState, NoStrandedEntry, [Next]_vars PROVE NoStrandedEntry'
    BY Zenon
  <1> USE Disjoint DEF NoStrandedEntry, RunnerAbortLocked
  <1> /\ pc \in [Threads -> Places] /\ running_ \in BOOLEAN
        /\ disabled_ \in BOOLEAN /\ deleted_ \in BOOLEAN /\ shutdown_scheduled_ \in BOOLEAN
        /\ ThreadsPlaced
    BY Zenon DEF QueueState, TypeOK, Places
  <1>1. ASSUME NEW p \in Producers, Enqueue(p) PROVE NoStrandedEntry'
    BY <1>1, Zenon DEF Enqueue, Goto, queueVars, runnerVars, taskVars, ctlVars
  <1>2. ASSUME NEW p \in Producers, LockWaterMutex(p) PROVE NoStrandedEntry'
    BY <1>2, Zenon DEF LockWaterMutex, Goto, queueVars, runnerVars, taskVars, ctlVars
  <1>3. ASSUME NEW p \in Producers, AtomicIncrementQueueCount(p) PROVE NoStrandedEntry'
    BY <1>3, Zenon DEF AtomicIncrementQueueCount, Goto, queueVars, runnerVars, taskVars, ctlVars
  <1>4. ASSUME NEW p \in Producers, Drop(p) PROVE NoStrandedEntry'
    BY <1>4, Zenon DEF Drop, Goto, Return, queueVars, runnerVars, taskVars, ctlVars
  <1>5. ASSUME NEW p \in Producers, Push(p) PROVE NoStrandedEntry'
    BY <1>5, Zenon DEF Push, Goto, queueVars, runnerVars, taskVars, ctlVars
  <1>6. ASSUME NEW t \in Producers \cup {ctl}, MayBeStartRunner(t) PROVE NoStrandedEntry'
    BY <1>6, Zenon
       DEF MayBeStartRunner, Goto, Return, StartRunner, queueVars, runnerVars, taskVars,
           ctlVars
  <1>7. ASSUME NEW r \in Runners, Schedule(r) PROVE NoStrandedEntry'
    BY <1>7, Zenon DEF Schedule, Goto, ThreadsPlaced, queueVars, runnerVars, taskVars, ctlVars
  <1>8. ASSUME NEW r \in Runners, OnEntry(r) PROVE NoStrandedEntry'
    BY <1>8, Zenon DEF OnEntry, Goto, ThreadsPlaced, queueVars, runnerVars, taskVars, ctlVars
  <1>9. ASSUME NEW r \in Runners, RunnerAbort(r) PROVE NoStrandedEntry'
    BY <1>9, Zenon DEF RunnerAbort, Goto, ThreadsPlaced, queueVars, runnerVars, taskVars, ctlVars
  <1>10. ASSUME NEW r \in Runners, TryPop(r) PROVE NoStrandedEntry'
    BY <1>10, Zenon DEF TryPop, Goto, ThreadsPlaced, queueVars, runnerVars, taskVars, ctlVars
  <1>11. ASSUME NEW r \in Runners, AtomicDecrementQueueCount(r) PROVE NoStrandedEntry'
    BY <1>11, Zenon
       DEF AtomicDecrementQueueCount, Goto, ThreadsPlaced, queueVars, runnerVars, taskVars,
           ctlVars
  <1>12. ASSUME NEW r \in Runners, Callback(r) PROVE NoStrandedEntry'
    BY <1>12, Zenon DEF Callback, Goto, ThreadsPlaced, queueVars, runnerVars, taskVars, ctlVars
  <1>13. ASSUME NEW r \in Runners, RunnerDone(r) PROVE NoStrandedEntry'
    BY <1>13, Zenon DEF RunnerDone, Goto, ThreadsPlaced, queueVars, runnerVars, taskVars, ctlVars
  <1>14. ASSUME NEW t \in Runners \cup {ctl}, ShutdownLocked(t) PROVE NoStrandedEntry'
    BY <1>14, Zenon DEF ShutdownLocked, Goto, queueVars, runnerVars, taskVars, ctlVars
  <1>15. ASSUME NEW r \in Runners, OnTaskExit(r) PROVE NoStrandedEntry'
    BY <1>15, Zenon DEF OnTaskExit, Goto, ThreadsPlaced, queueVars, runnerVars, taskVars, ctlVars
  <1>16. ASSUME Shutdown PROVE NoStrandedEntry'
    BY <1>16, Zenon DEF Shutdown, Goto, CancelRunner, queueVars, runnerVars, taskVars, ctlVars
  <1>17. ASSUME ScheduleShutdown PROVE NoStrandedEntry'
    BY <1>17, Zenon
       DEF ScheduleShutdown, Goto, CancelRunner, queueVars, runnerVars, taskVars, ctlVars
  <1>18. ASSUME NEW d \in BOOLEAN, set_disable(d) PROVE NoStrandedEntry'
    BY <1>18, Zenon DEF set_disable, Goto, queueVars, runnerVars, taskVars, ctlVars
  <1>19. CASE UNCHANGED vars
    BY <1>19, Zenon DEF vars, queueVars, runnerVars, taskVars, ctlVars
  <1> QED BY <1>1, <1>2, <1>3, <1>4, <1>5, <1>6, <1>7, <1>8, <1>9, <1>10, <1>11, <1>12, <1>13,
             <1>14, <1>15, <1>16, <1>17, <1>18, <1>19, Zenon
             DEF Next, ProducerStep, RunnerStep, CtlStep

-----------------------------------------------------------------------------
(* The water marks.                                                         *)

\* A change upwards by one calls the callback of the high mark it reaches, if any.
LEMMA HighCalled ==
  ASSUME TypeOK, ProcessHighWaterMarks(last_count_ + 1)
  PROVE  IF last_count_ + 1 \in high_water_ THEN Call("high", last_count_ + 1) ELSE UNCHANGED flow
  <1> DEFINE n == last_count_ + 1
             below == {h \in high_water_ : h <= n}
             mark == CHOOSE h \in below : \A k \in below : k <= h
  <1>1. last_count_ \in Nat /\ n \in Nat /\ high_water_ \subseteq Nat
    BY ConfigAssumption DEF TypeOK
  <1>2. IF below # {} /\ last_count_ < mark THEN Call("high", mark) ELSE UNCHANGED flow
    BY Zenon DEF ProcessHighWaterMarks
  <1>3. CASE below = {}
    <2>1. n \notin high_water_
      BY <1>1, <1>3
    <2> QED BY <1>2, <1>3, <2>1, Zenon
  <1>4. CASE below # {}
    <2>1. below \subseteq Nat /\ \A k \in below : k <= n
      BY <1>1, Zenon
    <2>2. \E m \in below : \A k \in below : k <= m
      BY <1>1, <1>4, <2>1, GreatestNat, Zenon
    <2>3. mark \in below /\ \A k \in below : k <= mark
      BY <2>2, Zenon
    <2>4. mark \in high_water_ /\ mark \in Nat /\ mark <= n
      BY <2>1, <2>3, Zenon
    <2> HIDE DEF mark
    <2>5. n \in high_water_ => mark = n
      BY <1>1, <2>3, <2>4
    <2>6. mark = n <=> last_count_ < mark
      BY <1>1, <2>4
    <2> QED BY <1>2, <1>4, <2>4, <2>5, <2>6, Zenon
  <1> QED BY <1>3, <1>4, Zenon

\* A change downwards by one calls the callback of the low mark it reaches, if any.
LEMMA LowCalled ==
  ASSUME TypeOK, last_count_ > 0, ProcessLowWaterMarks(last_count_ - 1)
  PROVE  IF last_count_ - 1 \in low_water_ THEN Call("low", last_count_ - 1) ELSE UNCHANGED flow
  <1> DEFINE n == last_count_ - 1
             above == {l \in low_water_ : l >= n}
             mark == CHOOSE l \in above : \A k \in above : l <= k
  <1>1. last_count_ \in Nat /\ n \in Nat /\ low_water_ \subseteq Nat
    BY ConfigAssumption DEF TypeOK
  <1>2. IF above # {} /\ last_count_ > mark THEN Call("low", mark) ELSE UNCHANGED flow
    BY Zenon DEF ProcessLowWaterMarks
  <1>3. CASE above = {}
    <2>1. n \notin low_water_
      BY <1>1, <1>3
    <2> QED BY <1>2, <1>3, <2>1, Zenon
  <1>4. CASE above # {}
    <2>1. above \subseteq Nat /\ \A k \in above : k >= n
      BY <1>1, Zenon
    <2>2. \E m \in above : \A k \in above : m <= k
      BY <1>4, <2>1, LeastNat, Zenon
    <2>3. mark \in above /\ \A k \in above : mark <= k
      BY <2>2, Zenon
    <2>4. mark \in low_water_ /\ mark \in Nat /\ mark >= n
      BY <2>1, <2>3, Zenon
    <2> HIDE DEF mark
    <2>5. n \in low_water_ => mark = n
      BY <1>1, <2>3, <2>4
    <2>6. mark = n <=> last_count_ > mark
      BY <1>1, <2>4
    <2> QED BY <1>2, <1>4, <2>4, <2>5, <2>6, Zenon
  <1> QED BY <1>3, <1>4, Zenon

\* A change upwards by one keeps Told.
LEMMA HighTold ==
  ASSUME TypeOK, Told(last_count_), ProcessHighWaterMarks(last_count_ + 1)
  PROVE  Told(last_count_)'
  <1> DEFINE n == last_count_ + 1
  <1>1. /\ last_count_ \in Nat /\ flow.mark \in Nat
        /\ high_water_ \subseteq Nat /\ low_water_ \subseteq Nat
    BY ConfigAssumption DEF TypeOK
  <1>2. last_count_' = n /\ high_water_' = high_water_ /\ low_water_' = low_water_
    BY Zenon DEF ProcessHighWaterMarks
  <1>3. CASE n \in high_water_
    <2>1. flow'.mark = n
      BY <1>3, HighCalled DEF Call
    <2> QED BY <1>1, <1>2, <2>1 DEF Told
  <1>4. CASE n \notin high_water_
    <2>1. flow' = flow
      BY <1>4, HighCalled, Zenon
    <2> QED BY <1>1, <1>2, <1>4, <2>1 DEF Told
  <1> QED BY <1>3, <1>4, Zenon

\* A change downwards by one keeps Told.
LEMMA LowTold ==
  ASSUME TypeOK, Told(last_count_), last_count_ > 0, ProcessLowWaterMarks(last_count_ - 1)
  PROVE  Told(last_count_)'
  <1> DEFINE n == last_count_ - 1
  <1>1. /\ last_count_ \in Nat /\ flow.mark \in Nat
        /\ high_water_ \subseteq Nat /\ low_water_ \subseteq Nat
    BY ConfigAssumption DEF TypeOK
  <1>2. last_count_' = n /\ high_water_' = high_water_ /\ low_water_' = low_water_
    BY Zenon DEF ProcessLowWaterMarks
  <1>3. CASE n \in low_water_
    <2>1. flow'.mark = n
      BY <1>3, LowCalled DEF Call
    <2> QED BY <1>1, <1>2, <2>1 DEF Told
  <1>4. CASE n \notin low_water_
    <2>1. flow' = flow
      BY <1>4, LowCalled, Zenon
    <2> QED BY <1>1, <1>2, <1>4, <2>1 DEF Told
  <1> QED BY <1>3, <1>4, Zenon

\* WaterHeld while the marks are set.
WaterMarks ==
    /\ \A p \in Producers :
          pc[p] \in {"count", "drop", "push", "start"} => water_mutex_ = p
    /\ \A r \in Runners : pc[r] = "popped" => water_mutex_ = r
    /\ \A p \in Producers :
          pc[p] \in {"drop", "push"} => ncount[p] = count_ /\ count_ = last_count_ + 1
    /\ (\A p \in Producers : pc[p] \notin {"drop", "push"}) => count_ = last_count_

\* The count neither wraps around nor goes below zero in this step.
CountInRange ==
    /\ \A p \in Producers :
          AtomicIncrementQueueCount(p) /\ ~deleted_ => Inc(count_) = count_ + 1
    /\ \A r \in Runners : AtomicDecrementQueueCount(r) /\ ~deleted_ => count_ > 0

LEMMA WaterKept ==
  QueueState /\ ShutdownQuiet /\ CountInRange /\ [Next]_vars => WaterHeld'
  <1> SUFFICES ASSUME QueueState, ShutdownQuiet, CountInRange, [Next]_vars, AreWaterMarksSet'
               PROVE  WaterMarks' /\ Told(last_count_)'
    BY Zenon DEF WaterHeld, WaterMarks
  <1> USE Disjoint, NullNoThread
  <1> /\ pc \in [Threads -> Places] /\ count_ \in 0 .. SIZE_MAX
        /\ ncount \in [Producers -> 0 .. SIZE_MAX] /\ last_count_ \in 0 .. SIZE_MAX
        /\ TypeOK /\ ThreadsPlaced /\ SIZE_MAX \in Nat
    BY ConfigAssumption, Zenon DEF QueueState, TypeOK, Places
  <1> AreWaterMarksSet => WaterMarks /\ Told(last_count_) /\ ~deleted_
    BY Zenon DEF QueueState, WaterHeld, WaterMarks, ShutdownQuiet
  <1>1. ASSUME NEW p \in Producers, Enqueue(p) PROVE WaterMarks' /\ Told(last_count_)'
    <2>1. AreWaterMarksSet /\ Told(last_count_)'
      BY <1>1, Zenon DEF Enqueue, AreWaterMarksSet, Told, waterVars
    <2>2. WaterMarks'
      BY <2>1, <1>1, Zenon DEF Enqueue, Goto, WaterMarks, queueVars, waterVars
    <2> QED BY <2>1, <2>2, Zenon
  <1>2. ASSUME NEW p \in Producers, LockWaterMutex(p) PROVE WaterMarks' /\ Told(last_count_)'
    <2>1. AreWaterMarksSet /\ Told(last_count_)'
      BY <1>2, Zenon DEF LockWaterMutex, AreWaterMarksSet, Told, waterVars
    <2>2. WaterMarks'
      BY <2>1, <1>2, Zenon DEF LockWaterMutex, Goto, WaterMarks, queueVars, waterVars
    <2> QED BY <2>1, <2>2, Zenon
  <1>3. ASSUME NEW p \in Producers, AtomicIncrementQueueCount(p)
        PROVE  WaterMarks' /\ Told(last_count_)'
    <2>1. AreWaterMarksSet /\ Told(last_count_)'
      BY <1>3, Zenon DEF AtomicIncrementQueueCount, AreWaterMarksSet, Told, waterVars
    <2>2. Inc(count_) = count_ + 1
      BY <1>3, <2>1, Zenon DEF CountInRange
    <2>3. WaterMarks'
      BY <2>1, <2>2, <1>3, Zenon
         DEF AtomicIncrementQueueCount, Goto, WaterMarks, queueVars, waterVars
    <2> QED BY <2>1, <2>3, Zenon
  <1>4. ASSUME NEW p \in Producers, Drop(p) PROVE WaterMarks' /\ Told(last_count_)'
    <2>1. AreWaterMarksSet /\ Told(last_count_)'
      BY <1>4, Zenon DEF Drop, AreWaterMarksSet, Told, waterVars
    <2>2. count_ = last_count_ + 1
      BY <2>1, <1>4, Zenon DEF Drop, WaterMarks
    <2>3. Dec(count_) = last_count_
      BY <2>2, SizeT
    <2>4. WaterMarks'
      BY <2>1, <2>3, <1>4, Zenon DEF Drop, Return, Goto, WaterMarks, waterVars
    <2> QED BY <2>1, <2>4, Zenon
  <1>5. ASSUME NEW p \in Producers, Push(p) PROVE WaterMarks' /\ Told(last_count_)'
    <2>1. AreWaterMarksSet
      BY <1>5, Zenon DEF Push, ProcessHighWaterMarks, AreWaterMarksSet
    <2>2. ncount[p] = count_ /\ count_ = last_count_ + 1 /\ water_mutex_ = p
      BY <2>1, <1>5, Zenon DEF Push, WaterMarks
    <2>3. ProcessHighWaterMarks(last_count_ + 1)
      BY <2>2, <1>5, Zenon DEF Push
    <2>4. Told(last_count_)'
      BY <2>1, <2>3, HighTold, Zenon
    <2>5. last_count_' = count_
      BY <2>2, <2>3, Zenon DEF ProcessHighWaterMarks
    <2>6. WaterMarks'
      BY <2>1, <2>2, <2>5, <1>5, Zenon DEF Push, Goto, WaterMarks
    <2> QED BY <2>4, <2>6, Zenon
  <1>6. ASSUME NEW t \in Producers \cup {ctl}, MayBeStartRunner(t)
        PROVE  WaterMarks' /\ Told(last_count_)'
    <2>1. AreWaterMarksSet /\ Told(last_count_)'
      BY <1>6, Zenon DEF MayBeStartRunner, AreWaterMarksSet, Told, waterVars
    <2>2. WaterMarks'
      BY <2>1, <1>6, Zenon DEF MayBeStartRunner, Return, Goto, WaterMarks, queueVars, waterVars
    <2> QED BY <2>1, <2>2, Zenon
  <1>7. ASSUME NEW r \in Runners, Schedule(r) PROVE WaterMarks' /\ Told(last_count_)'
    <2>1. AreWaterMarksSet /\ Told(last_count_)'
      BY <1>7, Zenon DEF Schedule, AreWaterMarksSet, Told, waterVars
    <2>2. WaterMarks'
      BY <2>1, <1>7, Zenon DEF Schedule, Goto, ThreadsPlaced, WaterMarks, queueVars, waterVars
    <2> QED BY <2>1, <2>2, Zenon
  <1>8. ASSUME NEW r \in Runners, OnEntry(r) PROVE WaterMarks' /\ Told(last_count_)'
    <2>1. AreWaterMarksSet /\ Told(last_count_)'
      BY <1>8, Zenon DEF OnEntry, AreWaterMarksSet, Told, waterVars
    <2>2. WaterMarks'
      BY <2>1, <1>8, Zenon DEF OnEntry, Goto, WaterMarks, queueVars, waterVars
    <2> QED BY <2>1, <2>2, Zenon
  <1>9. ASSUME NEW r \in Runners, RunnerAbort(r) PROVE WaterMarks' /\ Told(last_count_)'
    <2>1. AreWaterMarksSet /\ Told(last_count_)'
      BY <1>9, Zenon DEF RunnerAbort, AreWaterMarksSet, Told, waterVars
    <2>2. WaterMarks'
      BY <2>1, <1>9, Zenon DEF RunnerAbort, Goto, WaterMarks, queueVars, waterVars
    <2> QED BY <2>1, <2>2, Zenon
  <1>10. ASSUME NEW r \in Runners, TryPop(r) PROVE WaterMarks' /\ Told(last_count_)'
    <2>1. AreWaterMarksSet /\ Told(last_count_)'
      BY <1>10, Zenon DEF TryPop, AreWaterMarksSet, Told, waterVars
    <2>2. WaterMarks'
      BY <2>1, <1>10, Zenon DEF TryPop, Goto, WaterMarks, queueVars, waterVars
    <2> QED BY <2>1, <2>2, Zenon
  <1>11. ASSUME NEW r \in Runners, AtomicDecrementQueueCount(r)
         PROVE  WaterMarks' /\ Told(last_count_)'
    <2>1. AreWaterMarksSet
      BY <1>11, Zenon DEF AtomicDecrementQueueCount, ProcessLowWaterMarks, AreWaterMarksSet
    <2>2. water_mutex_ = r /\ count_ = last_count_
      BY <2>1, <1>11, Zenon DEF AtomicDecrementQueueCount, WaterMarks
    <2>3. count_ > 0
      BY <1>11, <2>1, Zenon DEF CountInRange
    <2>4. Dec(count_) = last_count_ - 1
      BY <2>2, <2>3, SizeT, Zenon
    <2>5. ProcessLowWaterMarks(last_count_ - 1) /\ last_count_ > 0
      BY <2>2, <2>3, <2>4, <1>11, Zenon DEF AtomicDecrementQueueCount
    <2>6. Told(last_count_)'
      BY <2>1, <2>5, LowTold, Zenon
    <2>7. last_count_' = count_'
      BY <2>4, <2>5, <1>11, Zenon DEF AtomicDecrementQueueCount, ProcessLowWaterMarks
    <2>8. WaterMarks'
      BY <2>1, <2>2, <2>7, <1>11, Zenon DEF AtomicDecrementQueueCount, Goto, WaterMarks
    <2> QED BY <2>6, <2>8, Zenon
  <1>12. ASSUME NEW r \in Runners, Callback(r) PROVE WaterMarks' /\ Told(last_count_)'
    <2>1. AreWaterMarksSet /\ Told(last_count_)'
      BY <1>12, Zenon DEF Callback, AreWaterMarksSet, Told, waterVars
    <2>2. WaterMarks'
      BY <2>1, <1>12, Zenon DEF Callback, Goto, WaterMarks, queueVars, waterVars
    <2> QED BY <2>1, <2>2, Zenon
  <1>13. ASSUME NEW r \in Runners, RunnerDone(r) PROVE WaterMarks' /\ Told(last_count_)'
    <2>1. AreWaterMarksSet /\ Told(last_count_)'
      BY <1>13, Zenon DEF RunnerDone, AreWaterMarksSet, Told, waterVars
    <2>2. WaterMarks'
      BY <2>1, <1>13, Zenon DEF RunnerDone, Goto, WaterMarks, queueVars, waterVars
    <2> QED BY <2>1, <2>2, Zenon
  <1>14. ASSUME NEW t \in Runners \cup {ctl}, ShutdownLocked(t)
         PROVE  WaterMarks' /\ Told(last_count_)'
    BY <1>14, Zenon DEF ShutdownLocked, AreWaterMarksSet
  <1>15. ASSUME NEW r \in Runners, OnTaskExit(r) PROVE WaterMarks' /\ Told(last_count_)'
    <2>1. AreWaterMarksSet /\ Told(last_count_)'
      BY <1>15, Zenon DEF OnTaskExit, AreWaterMarksSet, Told, waterVars
    <2>2. WaterMarks'
      BY <2>1, <1>15, Zenon DEF OnTaskExit, Goto, WaterMarks, queueVars, waterVars
    <2> QED BY <2>1, <2>2, Zenon
  <1>16. ASSUME Shutdown PROVE WaterMarks' /\ Told(last_count_)'
    <2>1. AreWaterMarksSet /\ Told(last_count_)'
      BY <1>16, Zenon DEF Shutdown, AreWaterMarksSet, Told, waterVars
    <2>2. WaterMarks'
      BY <2>1, <1>16, Zenon DEF Shutdown, CancelRunner, Goto, WaterMarks, queueVars, waterVars
    <2> QED BY <2>1, <2>2, Zenon
  <1>17. ASSUME ScheduleShutdown PROVE WaterMarks' /\ Told(last_count_)'
    <2>1. AreWaterMarksSet /\ Told(last_count_)'
      BY <1>17, Zenon DEF ScheduleShutdown, AreWaterMarksSet, Told, waterVars
    <2>2. WaterMarks'
      BY <2>1, <1>17, Zenon
         DEF ScheduleShutdown, CancelRunner, Goto, WaterMarks, queueVars, waterVars
    <2> QED BY <2>1, <2>2, Zenon
  <1>18. ASSUME NEW d \in BOOLEAN, set_disable(d) PROVE WaterMarks' /\ Told(last_count_)'
    <2>1. AreWaterMarksSet /\ Told(last_count_)'
      BY <1>18, Zenon DEF set_disable, AreWaterMarksSet, Told, waterVars
    <2>2. WaterMarks'
      BY <2>1, <1>18, Zenon DEF set_disable, Goto, WaterMarks, queueVars, waterVars
    <2> QED BY <2>1, <2>2, Zenon
  <1>19. CASE UNCHANGED vars
    <2>1. AreWaterMarksSet /\ Told(last_count_)'
      BY <1>19, Zenon DEF vars, AreWaterMarksSet, Told, waterVars
    <2>2. WaterMarks'
      BY <2>1, <1>19, Zenon DEF vars, Goto, WaterMarks, queueVars, waterVars
    <2> QED BY <2>1, <2>2, Zenon
  <1> QED BY <1>1, <1>2, <1>3, <1>4, <1>5, <1>6, <1>7, <1>8, <1>9, <1>10, <1>11, <1>12, <1>13,
             <1>14, <1>15, <1>16, <1>17, <1>18, <1>19, Zenon
             DEF Next, ProducerStep, RunnerStep, CtlStep

-----------------------------------------------------------------------------
(* The invariant, and the counting of the entries.                         *)

\* The inductive invariant.
IInv == QueueState /\ NoStrandedEntry /\ FifoOnce /\ ShutdownQuiet

-----------------------------------------------------------------------------
(* How many threads are at a place.                                        *)

\* The number of threads at a place of S is a natural number, and is zero only
\* if there is none.
LEMMA NumAtType ==
  ASSUME NEW T, IsFiniteSet(T), NEW S
  PROVE  /\ NumAt(T, S) \in Nat
         /\ NumAt(T, S) = 0 => \A t \in T : pc[t] \notin S
         /\ (\A t \in T : pc[t] \notin S) => NumAt(T, S) = 0
  <1> DEFINE A == {t \in T : pc[t] \in S}
  <1>1. IsFiniteSet(A)
    <2>1. A \in SUBSET T
      BY Zenon
    <2> QED BY <2>1, FS_Subset, Zenon
  <1>2. Cardinality(A) \in Nat /\ (Cardinality(A) = 0 <=> A = {})
    BY <1>1, FS_CardinalityType, FS_EmptySet, Zenon
  <1> QED BY <1>2, Zenon DEF NumAt

Bit(b) == IF b THEN 1 ELSE 0
NumMoves(T, S, t, l) ==
    NumAt(T, S)' = NumAt(T, S) + Bit(t \in T /\ l \in S) - Bit(t \in T /\ pc[t] \in S)

\* A thread that goes from one place to another changes the number by one if
\* one of them is in S and the other is not, and by nothing otherwise.
LEMMA NumAtMoves ==
  ASSUME NEW T, IsFiniteSet(T), T \subseteq Threads, NEW S, NEW t \in Threads, NEW l,
         pc \in [Threads -> Places], Goto(t, l)
  PROVE  NumMoves(T, S, t, l)
  <1> DEFINE A == {u \in T : pc[u] \in S}
             B == {u \in T : pc'[u] \in S}
  <1>0. NumAt(T, S) = Cardinality(A) /\ NumAt(T, S)' = Cardinality(B)
    BY Zenon DEF NumAt
  <1>1. \A u \in Threads : pc'[u] = IF u = t THEN l ELSE pc[u]
    BY Zenon DEF Goto
  <1>2. IsFiniteSet(A) /\ Cardinality(A) \in Nat
    <2>1. A \in SUBSET T
      BY Zenon
    <2> QED BY <2>1, FS_Subset, FS_CardinalityType, Zenon
  <1>3. CASE t \notin T \/ (pc[t] \in S <=> l \in S)
    <2>1. A = B
      BY <1>1, <1>3, Zenon
    <2>2. NumAt(T, S)' = NumAt(T, S) /\ NumAt(T, S) \in Nat
      BY <1>0, <1>2, <2>1, Zenon
    <2>3. CASE t \in T /\ pc[t] \in S /\ l \in S
      BY <2>2, <2>3 DEF NumMoves, Bit
    <2>4. CASE ~(t \in T /\ pc[t] \in S) /\ ~(t \in T /\ l \in S)
      BY <2>2, <2>4 DEF NumMoves, Bit
    <2> QED BY <1>3, <2>3, <2>4, Zenon
  <1>4. CASE t \in T /\ pc[t] \notin S /\ l \in S
    <2>1. B = A \cup {t} /\ t \notin A
      BY <1>1, <1>4, Zenon
    <2>2. Cardinality(B) = Cardinality(A) + 1
      BY <2>1, <1>2, FS_AddElement, Zenon
    <2> QED BY <2>2, <1>0, <1>2, <1>4 DEF NumMoves, Bit
  <1>5. CASE t \in T /\ pc[t] \in S /\ l \notin S
    <2>1. B = A \ {t} /\ t \in A
      BY <1>1, <1>5, Zenon
    <2>2. Cardinality(B) = Cardinality(A) - 1
      BY <2>1, <1>2, FS_RemoveElement, Zenon
    <2>3. Bit(t \in T /\ l \in S) = 0 /\ Bit(t \in T /\ pc[t] \in S) = 1
      BY <1>5, Zenon DEF Bit
    <2> QED BY <2>2, <2>3, <1>0, <1>2 DEF NumMoves
  <1> QED BY <1>3, <1>4, <1>5, Zenon

-----------------------------------------------------------------------------
(* The count.                                                              *)

Counted == NumAt(Producers, {"drop", "push"})
Pushing == NumAt(Producers, {"push"})
Uncounted == NumAt(Producers, {"lock", "count"})
Popped == NumAt(Runners, {"popped"})

\* CountExact and CountBounded, in these terms.
CountInv ==
    ~deleted_ =>
        /\ count_ = Len(queue_) + Counted + Popped
        /\ bounded_ => Len(queue_) + Pushing < size_
        /\ count_ + Uncounted <= Cardinality(SentEntries)

LEMMA CountTypes ==
  /\ Counted \in Nat /\ Pushing \in Nat /\ Uncounted \in Nat /\ Popped \in Nat
  /\ Counted = 0 => \A p \in Producers : pc[p] \notin {"drop", "push"}
  /\ Uncounted = 0 => \A p \in Producers : pc[p] \notin {"lock", "count"}
  /\ Popped = 0 => \A r \in Runners : pc[r] # "popped"
  <1>1. /\ Counted \in Nat
        /\ Counted = 0 => \A p \in Producers : pc[p] \notin {"drop", "push"}
    BY NumAtType, ThreadAssumption, ZenonT(60) DEF Counted
  <1>2. Pushing \in Nat
    BY NumAtType, ThreadAssumption, Zenon DEF Pushing
  <1>3. /\ Uncounted \in Nat
        /\ Uncounted = 0 => \A p \in Producers : pc[p] \notin {"lock", "count"}
    BY NumAtType, ThreadAssumption, ZenonT(60) DEF Uncounted
  <1>4. /\ Popped \in Nat
        /\ Popped = 0 => \A r \in Runners : pc[r] \notin {"popped"}
    BY NumAtType, ThreadAssumption, Zenon DEF Popped
  <1> QED BY <1>1, <1>2, <1>3, <1>4, Zenon

\* How a thread that goes to l changes the counts.
CountMoves(t, l) ==
    /\ Counted' = Counted + Bit(t \in Producers /\ l \in {"drop", "push"})
                          - Bit(t \in Producers /\ pc[t] \in {"drop", "push"})
    /\ Pushing' = Pushing + Bit(t \in Producers /\ l \in {"push"})
                          - Bit(t \in Producers /\ pc[t] \in {"push"})
    /\ Uncounted' = Uncounted + Bit(t \in Producers /\ l \in {"lock", "count"})
                              - Bit(t \in Producers /\ pc[t] \in {"lock", "count"})
    /\ Popped' = Popped + Bit(t \in Runners /\ l \in {"popped"})
                        - Bit(t \in Runners /\ pc[t] \in {"popped"})

LEMMA CountMove ==
  ASSUME NEW t \in Threads, NEW l, pc \in [Threads -> Places], Goto(t, l)
  PROVE  CountMoves(t, l)
  <1>1. /\ NumMoves(Producers, {"drop", "push"}, t, l)
        /\ NumMoves(Producers, {"push"}, t, l)
        /\ NumMoves(Producers, {"lock", "count"}, t, l)
        /\ NumMoves(Runners, {"popped"}, t, l)
    BY NumAtMoves, Disjoint, ThreadAssumption, Zenon
  <1> QED BY <1>1, Zenon DEF NumMoves, CountMoves, Counted, Pushing, Uncounted, Popped

\* No more entries are sent than a size_t counts.
LEMMA SentBound ==
  /\ IsFiniteSet(SentEntries)
  /\ Cardinality(SentEntries) \in Nat /\ Cardinality(SentEntries) <= SIZE_MAX
  <1>1. IsFiniteSet(Entry)
    <2>1. IsFiniteSet(1 .. MaxEnqueues)
      BY FS_Interval, ConfigAssumption
    <2> QED BY <2>1, FS_Product, ThreadAssumption, Zenon DEF Entry
  <1>2. SentEntries \in SUBSET Entry
    BY Zenon DEF SentEntries
  <1>3. IsFiniteSet(SentEntries) /\ Cardinality(SentEntries) <= Cardinality(Entry)
    BY <1>1, <1>2, FS_Subset, Zenon
  <1>4. Cardinality(SentEntries) \in Nat /\ Cardinality(Entry) \in Nat
    BY <1>1, <1>3, FS_CardinalityType, Zenon
  <1> QED BY <1>3, <1>4, ThreadAssumption, ConfigAssumption DEF Entry

\* An Enqueue sends one more entry.
LEMMA SentGrows ==
  ASSUME sent \in [Producers -> 0 .. MaxEnqueues], NEW p \in Producers,
         sent[p] < MaxEnqueues, sent' = [sent EXCEPT ![p] = @ + 1]
  PROVE  Cardinality(SentEntries)' = Cardinality(SentEntries) + 1
  <1> DEFINE e == <<p, sent[p] + 1>>
  <1>1. e \in Entry /\ e \notin SentEntries
    BY ConfigAssumption DEF Entry, SentEntries
  <1>2. SentEntries' = SentEntries \cup {e}
    <2>1. ASSUME NEW f \in Entry
          PROVE  f[2] <= sent'[f[1]] <=> (f[2] <= sent[f[1]] \/ f = e)
      BY ConfigAssumption DEF Entry
    <2> QED BY <1>1, <2>1, Zenon DEF SentEntries
  <1> QED BY <1>1, <1>2, SentBound, FS_AddElement, Zenon

CountAgrees == CountInv <=> CountExact /\ CountBounded

LEMMA CountSame == CountAgrees
  BY Zenon
     DEF CountAgrees, CountInv, CountExact, CountBounded, Counted, Pushing, Uncounted, Popped,
         SentEntries

\* While the queue is there, counting one more entry does not wrap around.
LEMMA NoWrap ==
  ASSUME QueueState, ~deleted_, NEW p \in Producers, pc[p] = "count"
  PROVE  Inc(count_) = count_ + 1
  <1>1. count_ \in 0 .. SIZE_MAX /\ SIZE_MAX \in Nat
    BY ConfigAssumption, Zenon DEF QueueState, TypeOK
  <1>2. count_ + Uncounted <= Cardinality(SentEntries)
    BY CountSame, Zenon DEF QueueState, CountAgrees, CountInv
  <1>3. Uncounted > 0
    BY CountTypes
  <1> QED BY <1>1, <1>2, <1>3, CountTypes, SentBound, SizeT

\* No thread comes to or leaves a place that counts.
QuietMoves ==
    /\ \A p \in Producers :
          pc'[p] = pc[p] \/ {pc[p], pc'[p]} \cap {"lock", "count", "drop", "push"} = {}
    /\ \A r \in Runners : pc'[r] = pc[r] \/ (pc[r] # "popped" /\ pc'[r] # "popped")

LEMMA QuietMove ==
  ASSUME QuietMoves
  PROVE  Counted' = Counted /\ Pushing' = Pushing /\ Uncounted' = Uncounted /\ Popped' = Popped
  <1>1. {p \in Producers : pc'[p] \in {"drop", "push"}}
        = {p \in Producers : pc[p] \in {"drop", "push"}}
    BY Zenon DEF QuietMoves
  <1>2. {p \in Producers : pc'[p] \in {"push"}} = {p \in Producers : pc[p] \in {"push"}}
    BY Zenon DEF QuietMoves
  <1>3. {p \in Producers : pc'[p] \in {"lock", "count"}}
        = {p \in Producers : pc[p] \in {"lock", "count"}}
    BY Zenon DEF QuietMoves
  <1>4. {r \in Runners : pc'[r] \in {"popped"}} = {r \in Runners : pc[r] \in {"popped"}}
    BY Zenon DEF QuietMoves
  <1> QED BY <1>1, <1>2, <1>3, <1>4, Zenon DEF Counted, Pushing, Uncounted, Popped, NumAt

\* A thread that pushes is counted.
LEMMA PushingCounted == Pushing <= Counted
  <1> DEFINE A == {p \in Producers : pc[p] \in {"push"}}
             B == {p \in Producers : pc[p] \in {"drop", "push"}}
  <1>1. B \in SUBSET Producers /\ A \in SUBSET B
    BY Zenon
  <1>2. IsFiniteSet(B)
    BY <1>1, FS_Subset, ThreadAssumption, Zenon
  <1>3. Cardinality(A) <= Cardinality(B)
    BY <1>1, <1>2, FS_Subset, Zenon
  <1> QED BY <1>3, Zenon DEF Pushing, Counted, NumAt

LEMMA CountKept == QueueState /\ ShutdownQuiet /\ [Next]_vars => CountInv'
  <1> SUFFICES ASSUME QueueState, ShutdownQuiet, [Next]_vars PROVE CountInv'
    BY Zenon
  <1> USE Disjoint
  <1> /\ pc \in [Threads -> Places] /\ count_ \in 0 .. SIZE_MAX /\ queue_ \in Seq(Entry)
        /\ sent \in [Producers -> 0 .. MaxEnqueues] /\ deleted_ \in BOOLEAN
        /\ Len(queue_) \in Nat
    BY DEF QueueState, TypeOK, Places
  <1> ThreadsPlaced
    BY Zenon DEF QueueState
  <1> /\ CountInv
         /\ Counted \in Nat /\ Pushing \in Nat /\ Uncounted \in Nat /\ Popped \in Nat
         /\ Cardinality(SentEntries) \in Nat /\ size_ \in Nat /\ SIZE_MAX \in Nat
         /\ bounded_ \in BOOLEAN
    BY CountSame, CountTypes, SentBound, ConfigAssumption, Zenon DEF QueueState, CountAgrees
  <1>1. ASSUME NEW p \in Producers, Enqueue(p) PROVE CountInv'
    <2>1. /\ Counted' = Counted /\ Pushing' = Pushing /\ Popped' = Popped
          /\ Uncounted' = Uncounted + 1
      <3>1. PICK l \in {"lock", "count"} : Goto(p, l)
        BY <1>1, Zenon DEF Enqueue
      <3>2. CountMoves(p, l)
        BY <3>1, CountMove, Zenon
      <3> QED BY <1>1, <3>2 DEF Enqueue, CountMoves, Bit
    <2>2. Cardinality(SentEntries)' = Cardinality(SentEntries) + 1
      BY <1>1, SentGrows, Zenon DEF Enqueue
    <2> QED BY <2>1, <2>2, <1>1 DEF Enqueue, CountInv, queueVars, ctlVars
  <1>2. ASSUME NEW p \in Producers, LockWaterMutex(p) PROVE CountInv'
    <2>1. Counted' = Counted /\ Pushing' = Pushing /\ Uncounted' = Uncounted /\ Popped' = Popped
      <3>1. CountMoves(p, "count")
        BY <1>2, CountMove, Zenon DEF LockWaterMutex
      <3> QED BY <1>2, <3>1 DEF LockWaterMutex, CountMoves, Bit
    <2>2. Cardinality(SentEntries)' = Cardinality(SentEntries)
      BY <1>2, Zenon DEF LockWaterMutex, SentEntries
    <2> QED BY <2>1, <2>2, <1>2, Zenon DEF LockWaterMutex, CountInv, queueVars, ctlVars
  <1>3. ASSUME NEW p \in Producers, AtomicIncrementQueueCount(p) PROVE CountInv'
    <2> SUFFICES ASSUME ~deleted_ PROVE CountInv'
      BY <1>3, Zenon DEF AtomicIncrementQueueCount, CountInv, ctlVars
    <2>1. Inc(count_) = count_ + 1
      BY <1>3, NoWrap, Zenon DEF AtomicIncrementQueueCount
    <2>2. /\ Counted' = Counted + 1 /\ Popped' = Popped /\ Uncounted' = Uncounted - 1
          /\ Pushing' = Pushing + Bit(~(bounded_ /\ Inc(count_) >= size_))
      <3>1. CountMoves(p, IF bounded_ /\ Inc(count_) >= size_ THEN "drop" ELSE "push")
        BY <1>3, CountMove, Zenon DEF AtomicIncrementQueueCount
      <3> QED BY <1>3, <3>1 DEF AtomicIncrementQueueCount, CountMoves, Bit
    <2>3. Cardinality(SentEntries)' = Cardinality(SentEntries)
      BY <1>3, Zenon DEF AtomicIncrementQueueCount, SentEntries
    <2>4. queue_' = queue_ /\ count_' = count_ + 1
      BY <1>3, <2>1, Zenon DEF AtomicIncrementQueueCount
    <2>5. Pushing <= Counted
      BY PushingCounted, Zenon
    <2> QED BY <2>1, <2>2, <2>3, <2>4, <2>5 DEF CountInv, Bit
  <1>4. ASSUME NEW p \in Producers, Drop(p) PROVE CountInv'
    <2>1. /\ Counted' = Counted - 1 /\ Popped' = Popped /\ Uncounted' = Uncounted
          /\ Pushing' = Pushing
      <3>1. CountMoves(p, "idle")
        BY <1>4, CountMove, Zenon DEF Drop, Return
      <3> QED BY <1>4, <3>1 DEF Drop, CountMoves, Bit
    <2>2. Cardinality(SentEntries)' = Cardinality(SentEntries)
      BY <1>4, Zenon DEF Drop, SentEntries
    <2>3. Counted > 0
      BY <1>4, CountTypes DEF Drop
    <2>4. ~deleted_ => count_' = count_ - 1
      BY <2>3, <1>4, SizeT DEF Drop, CountInv
    <2> QED BY <2>1, <2>2, <2>4, <1>4 DEF Drop, CountInv, queueVars, ctlVars
  <1>5. ASSUME NEW p \in Producers, Push(p) PROVE CountInv'
    <2>1. /\ Counted' = Counted - 1 /\ Popped' = Popped /\ Uncounted' = Uncounted
          /\ Pushing' = Pushing - 1
      <3>1. CountMoves(p, "start")
        BY <1>5, CountMove, Zenon DEF Push
      <3> QED BY <1>5, <3>1 DEF Push, CountMoves, Bit
    <2>2. Cardinality(SentEntries)' = Cardinality(SentEntries)
      BY <1>5, Zenon DEF Push, SentEntries
    <2>3. Len(queue_') = Len(queue_) + 1
      BY <1>5 DEF Push
    <2> QED BY <2>1, <2>2, <2>3, <1>5 DEF Push, CountInv, queueVars, ctlVars
  <1>6. ASSUME NEW t \in Producers \cup {ctl}, MayBeStartRunner(t) PROVE CountInv'
    <2>1. Counted' = Counted /\ Pushing' = Pushing /\ Uncounted' = Uncounted /\ Popped' = Popped
      <3>1. QuietMoves
        BY <1>6, Zenon DEF QuietMoves, MayBeStartRunner, Goto, Return
      <3> QED BY <3>1, QuietMove, Zenon
    <2>2. Cardinality(SentEntries)' = Cardinality(SentEntries)
      BY <1>6, Zenon DEF MayBeStartRunner, SentEntries
    <2> QED BY <2>1, <2>2, <1>6, Zenon DEF MayBeStartRunner, CountInv, queueVars, ctlVars
  <1>7. ASSUME NEW r \in Runners, Schedule(r) PROVE CountInv'
    <2>1. Counted' = Counted /\ Pushing' = Pushing /\ Uncounted' = Uncounted /\ Popped' = Popped
      <3>1. QuietMoves
        BY <1>7, Zenon DEF QuietMoves, Schedule, Goto, ThreadsPlaced
      <3> QED BY <3>1, QuietMove, Zenon
    <2>2. Cardinality(SentEntries)' = Cardinality(SentEntries)
      BY <1>7, Zenon DEF Schedule, SentEntries
    <2> QED BY <2>1, <2>2, <1>7, Zenon DEF Schedule, CountInv, queueVars, ctlVars
  <1>8. ASSUME NEW r \in Runners, OnEntry(r) PROVE CountInv'
    <2>1. Counted' = Counted /\ Pushing' = Pushing /\ Uncounted' = Uncounted /\ Popped' = Popped
      <3>1. QuietMoves
        BY <1>8, Zenon DEF QuietMoves, OnEntry, Goto
      <3> QED BY <3>1, QuietMove, Zenon
    <2>2. Cardinality(SentEntries)' = Cardinality(SentEntries)
      BY <1>8, Zenon DEF OnEntry, SentEntries
    <2> QED BY <2>1, <2>2, <1>8, Zenon DEF OnEntry, CountInv, queueVars, ctlVars
  <1>9. ASSUME NEW r \in Runners, RunnerAbort(r) PROVE CountInv'
    <2>1. Counted' = Counted /\ Pushing' = Pushing /\ Uncounted' = Uncounted /\ Popped' = Popped
      <3>1. QuietMoves
        BY <1>9, Zenon DEF QuietMoves, RunnerAbort, Goto
      <3> QED BY <3>1, QuietMove, Zenon
    <2>2. Cardinality(SentEntries)' = Cardinality(SentEntries)
      BY <1>9, Zenon DEF RunnerAbort, SentEntries
    <2> QED BY <2>1, <2>2, <1>9, Zenon DEF RunnerAbort, CountInv, queueVars, ctlVars
  <1>10. ASSUME NEW r \in Runners, TryPop(r) PROVE CountInv'
    <2>1. Cardinality(SentEntries)' = Cardinality(SentEntries)
      BY <1>10, Zenon DEF TryPop, SentEntries
    <2>2. CASE queue_ = <<>>
      <3>1. QuietMoves
        BY <2>2, <1>10, Zenon DEF TryPop, Goto, QuietMoves
      <3> QED BY <2>1, <2>2, <3>1, <1>10, QuietMove, Zenon DEF TryPop, CountInv, ctlVars
    <2>3. CASE queue_ # <<>>
      <3>1. CountMoves(r, "popped")
        BY <2>3, <1>10, CountMove, Zenon DEF TryPop
      <3>2. /\ Counted' = Counted /\ Pushing' = Pushing /\ Uncounted' = Uncounted
            /\ Popped' = Popped + 1
        BY <3>1, <1>10 DEF TryPop, CountMoves, Bit
      <3>3. Len(queue_') = Len(queue_) - 1
        BY <2>3, <1>10 DEF TryPop
      <3> QED BY <2>1, <3>2, <3>3, <1>10 DEF TryPop, CountInv, ctlVars
    <2> QED BY <2>2, <2>3, Zenon
  <1>11. ASSUME NEW r \in Runners, AtomicDecrementQueueCount(r) PROVE CountInv'
    <2>1. /\ Counted' = Counted /\ Pushing' = Pushing /\ Uncounted' = Uncounted
          /\ Popped' = Popped - 1
      <3>1. CountMoves(r, "callback")
        BY <1>11, CountMove, Zenon DEF AtomicDecrementQueueCount
      <3> QED BY <1>11, <3>1 DEF AtomicDecrementQueueCount, CountMoves, Bit
    <2>2. Cardinality(SentEntries)' = Cardinality(SentEntries)
      BY <1>11, Zenon DEF AtomicDecrementQueueCount, SentEntries
    <2>3. Popped > 0
      BY <1>11, CountTypes DEF AtomicDecrementQueueCount
    <2>4. ~deleted_ => count_' = count_ - 1
      BY <2>3, <1>11, SizeT DEF AtomicDecrementQueueCount, CountInv
    <2> QED BY <2>1, <2>2, <2>4, <1>11
               DEF AtomicDecrementQueueCount, CountInv, queueVars, ctlVars
  <1>12. ASSUME NEW r \in Runners, Callback(r) PROVE CountInv'
    <2>1. Counted' = Counted /\ Pushing' = Pushing /\ Uncounted' = Uncounted /\ Popped' = Popped
      <3>1. QuietMoves
        BY <1>12, Zenon DEF QuietMoves, Callback, Goto
      <3> QED BY <3>1, QuietMove, Zenon
    <2>2. Cardinality(SentEntries)' = Cardinality(SentEntries)
      BY <1>12, Zenon DEF Callback, SentEntries
    <2> QED BY <2>1, <2>2, <1>12, Zenon DEF Callback, CountInv, queueVars, ctlVars
  <1>13. ASSUME NEW r \in Runners, RunnerDone(r) PROVE CountInv'
    <2>1. Counted' = Counted /\ Pushing' = Pushing /\ Uncounted' = Uncounted /\ Popped' = Popped
      <3>1. QuietMoves
        BY <1>13, Zenon DEF QuietMoves, RunnerDone, Goto
      <3> QED BY <3>1, QuietMove, Zenon
    <2>2. Cardinality(SentEntries)' = Cardinality(SentEntries)
      BY <1>13, Zenon DEF RunnerDone, SentEntries
    <2> QED BY <2>1, <2>2, <1>13, Zenon DEF RunnerDone, CountInv, queueVars, ctlVars
  <1>14. ASSUME NEW t \in Runners \cup {ctl}, ShutdownLocked(t) PROVE CountInv'
    BY <1>14, Zenon DEF ShutdownLocked, CountInv
  <1>15. ASSUME NEW r \in Runners, OnTaskExit(r) PROVE CountInv'
    <2>1. Counted' = Counted /\ Pushing' = Pushing /\ Uncounted' = Uncounted /\ Popped' = Popped
      <3>1. QuietMoves
        BY <1>15, Zenon DEF QuietMoves, OnTaskExit, Goto
      <3> QED BY <3>1, QuietMove, Zenon
    <2>2. Cardinality(SentEntries)' = Cardinality(SentEntries)
      BY <1>15, Zenon DEF OnTaskExit, SentEntries
    <2> QED BY <2>1, <2>2, <1>15, Zenon DEF OnTaskExit, CountInv, queueVars, ctlVars
  <1>16. ASSUME Shutdown PROVE CountInv'
    <2>1. Counted' = Counted /\ Pushing' = Pushing /\ Uncounted' = Uncounted /\ Popped' = Popped
      <3>1. QuietMoves
        BY <1>16, Zenon DEF QuietMoves, Shutdown, Goto, CancelRunner
      <3> QED BY <3>1, QuietMove, Zenon
    <2>2. Cardinality(SentEntries)' = Cardinality(SentEntries)
      BY <1>16, Zenon DEF Shutdown, SentEntries
    <2> QED BY <2>1, <2>2, <1>16, Zenon DEF Shutdown, CountInv, queueVars, ctlVars
  <1>17. ASSUME ScheduleShutdown PROVE CountInv'
    <2>1. Counted' = Counted /\ Pushing' = Pushing /\ Uncounted' = Uncounted /\ Popped' = Popped
      <3>1. CASE Goto(ctl, "shutdown")
        <4>1. QuietMoves
          BY <3>1, <1>17, Zenon DEF ScheduleShutdown, QuietMoves, Goto
        <4> QED BY <4>1, QuietMove, Zenon
      <3>2. CASE pc' = pc
        BY <3>2, Zenon DEF Counted, Pushing, Uncounted, Popped, NumAt
      <3> QED BY <3>1, <3>2, <1>17, Zenon DEF ScheduleShutdown, CancelRunner
    <2>2. Cardinality(SentEntries)' = Cardinality(SentEntries)
      BY <1>17, Zenon DEF ScheduleShutdown, SentEntries
    <2> QED BY <2>1, <2>2, <1>17, Zenon DEF ScheduleShutdown, CountInv, queueVars, ctlVars
  <1>18. ASSUME NEW d \in BOOLEAN, set_disable(d) PROVE CountInv'
    <2>1. Counted' = Counted /\ Pushing' = Pushing /\ Uncounted' = Uncounted /\ Popped' = Popped
      <3>1. QuietMoves
        BY <1>18, Zenon DEF QuietMoves, set_disable, Goto
      <3> QED BY <3>1, QuietMove, Zenon
    <2>2. Cardinality(SentEntries)' = Cardinality(SentEntries)
      BY <1>18, Zenon DEF set_disable, SentEntries
    <2> QED BY <2>1, <2>2, <1>18, Zenon DEF set_disable, CountInv, queueVars, ctlVars
  <1>19. CASE UNCHANGED vars
    <2>1. Counted' = Counted /\ Pushing' = Pushing /\ Uncounted' = Uncounted /\ Popped' = Popped
      BY <1>19, Zenon DEF vars, Counted, Pushing, Uncounted, Popped, NumAt
    <2>2. Cardinality(SentEntries)' = Cardinality(SentEntries)
      BY <1>19, Zenon DEF vars, SentEntries
    <2> QED BY <2>1, <2>2, <1>19, Zenon DEF vars, CountInv, queueVars, ctlVars
  <1> QED BY <1>1, <1>2, <1>3, <1>4, <1>5, <1>6, <1>7, <1>8, <1>9, <1>10, <1>11, <1>12, <1>13,
             <1>14, <1>15, <1>16, <1>17, <1>18, <1>19, Zenon
             DEF Next, ProducerStep, RunnerStep, CtlStep

-----------------------------------------------------------------------------
(* The theorems.                                                            *)

LEMMA InitInv == Init => IInv
  <1> SUFFICES ASSUME Init PROVE IInv
    BY Zenon
  <1> USE Disjoint
  <1>1. TypeOK
    <2>1. queue_ \in Seq(Entry) /\ processed \in Seq(Entry)
      BY DEF Init
    <2>2. high_water_ \subseteq HighWater /\ low_water_ \subseteq LowWater
      BY Zenon DEF Init
    <2>3. entry \in [Runners -> Entry \cup {NULL}]
      BY Zenon DEF Init
    <2>4. /\ task \in [Runners -> {"none", "WAIT", "RUN"}]
          /\ task_cancel_ \in [Runners -> BOOLEAN] /\ complete \in [Runners -> BOOLEAN]
      BY Zenon DEF Init
    <2>5. /\ ncount \in [Producers -> 0 .. SIZE_MAX]
          /\ count \in [Runners -> 0 .. max_iterations_]
          /\ sent \in [Producers -> 0 .. MaxEnqueues]
      BY ConfigAssumption DEF Init
    <2>6. /\ count_ \in 0 .. SIZE_MAX /\ last_count_ \in 0 .. SIZE_MAX
          /\ disables \in 0 .. MaxDisables
      BY ConfigAssumption DEF Init
    <2>7. /\ pc = [t \in Threads |-> "idle"] /\ mutex_ = NULL
          /\ water_mutex_ = NULL /\ flow \in FlowType
      BY FlowTyped, Zenon DEF Init
    <2>8. /\ running_ = FALSE /\ current_runner_ = NULL /\ disabled_ = FALSE
          /\ deleted_ = FALSE /\ shutdown_scheduled_ = FALSE
      BY Zenon DEF Init
    <2> QED BY <2>1, <2>2, <2>3, <2>4, <2>5, <2>6, <2>7, <2>8, Zenon DEF TypeOK, FlowType
  <1>2. ThreadsPlaced
    BY NullNoThread, ConfigAssumption, Zenon DEF Init, ThreadsPlaced
  <1>3. RunnerKnown /\ ShutdownQuiet /\ NoStrandedEntry
    BY Zenon DEF Init, RunnerKnown, ShutdownQuiet, NoStrandedEntry, Active
  <1>4. CountExact /\ CountBounded
    <2>1. Counted = 0 /\ Pushing = 0 /\ Uncounted = 0 /\ Popped = 0
      <3>1. \A t \in Threads : pc[t] = "idle"
        BY Zenon DEF Init
      <3>2. /\ \A p \in Producers : pc[p] \notin {"drop", "push"}
            /\ \A p \in Producers : pc[p] \notin {"push"}
            /\ \A p \in Producers : pc[p] \notin {"lock", "count"}
            /\ \A r \in Runners : pc[r] \notin {"popped"}
        BY <3>1, Zenon
      <3> QED BY <3>2, NumAtType, ThreadAssumption, Zenon
                 DEF Counted, Pushing, Uncounted, Popped
    <2>2. CountInv
      BY <2>1, SentBound, ConfigAssumption DEF Init, CountInv
    <2> QED BY <2>2, CountSame, Zenon DEF CountAgrees
  <1>5. WaterHeld
    <2>1. \A h \in high_water_ : h \in Nat \ {0}
      BY <1>1, ConfigAssumption, Zenon DEF TypeOK
    <2> QED BY <2>1 DEF Init, WaterHeld, Told
  <1>6. FifoOnce
    <2>1. Held = {} /\ Range(processed) = {} /\ Range(queue_) = {} /\ processed \o queue_ = <<>>
      BY DEF Init, Held, Range
    <2>2. Ordered(processed \o queue_)
      BY <2>1 DEF Ordered
    <2> QED BY <2>1, <2>2, Zenon DEF FifoOnce
  <1> QED BY <1>1, <1>2, <1>3, <1>4, <1>5, <1>6, Zenon DEF IInv, QueueState

\* CountExact and CountBounded keep the count in range until the shutdown.
LEMMA CountRange == QueueState => CountInRange
  <1> SUFFICES ASSUME QueueState PROVE CountInRange
    BY Zenon
  <1>1. ASSUME NEW p \in Producers, AtomicIncrementQueueCount(p), ~deleted_
        PROVE  Inc(count_) = count_ + 1
    BY <1>1, NoWrap, Zenon DEF AtomicIncrementQueueCount
  <1>2. ASSUME NEW r \in Runners, AtomicDecrementQueueCount(r), ~deleted_ PROVE count_ > 0
    <2>1. count_ = Len(queue_) + Counted + Popped /\ Len(queue_) \in Nat
      BY <1>2, CountSame DEF QueueState, CountAgrees, CountInv, TypeOK
    <2>2. Popped > 0
      BY <1>2, CountTypes DEF AtomicDecrementQueueCount
    <2> QED BY <2>1, <2>2, CountTypes
  <1> QED BY <1>1, <1>2, Zenon DEF CountInRange

LEMMA CountSameAfter == CountAgrees'
  BY CountSame, PTL

LEMMA NextInv == IInv /\ [Next]_vars => IInv'
  <1> SUFFICES ASSUME IInv, [Next]_vars PROVE IInv'
    BY Zenon
  <1>1. QueueState /\ NoStrandedEntry /\ FifoOnce /\ ShutdownQuiet
    BY Zenon DEF IInv
  <1>2. TypeOK' /\ ThreadsPlaced' /\ RunnerAndShutdown'
    BY <1>1, TypesKept, PlacesKept, RunnerKept, Zenon
  <1>3. CountExact' /\ CountBounded'
    BY <1>1, CountKept, CountSameAfter, Zenon DEF CountAgrees
  <1>4. WaterHeld' /\ NoStrandedEntry' /\ FifoOnce'
    BY <1>1, CountRange, WaterKept, StartKept, FifoKept, Zenon
  <1> QED BY <1>2, <1>3, <1>4, Zenon DEF IInv, QueueState, RunnerAndShutdown

\* The inductive invariant holds in every state of the queue.
THEOREM Invariance == Spec => []IInv
  <1> QED BY InitInv, NextInv, PTL DEF Spec

\* The members of the queue agree with each other and with its threads,
\* whatever the producers, the marks and the bound: at most one runner is at
\* work and current_runner_ is that one, count_ is the number of entries and
\* never wraps around, a bounded queue holds less than size_ entries, and
\* water_mutex_ protects the marks.
THEOREM QueueConsistent == Spec => []QueueState
  <1>1. IInv => QueueState
    BY Zenon DEF IInv
  <1> QED BY Invariance, <1>1, PTL

\* No entry is left in the queue without a runner: between a push and the
\* MayBeStartRunner after it RunnerDone may resign, and never later.
THEOREM NoEntryStranded == Spec => []NoStrandedEntry
  <1>1. IInv => NoStrandedEntry
    BY Zenon DEF IInv
  <1> QED BY Invariance, <1>1, PTL

\* The entries of each producer are handled in order and at most once, across
\* runs of any number of runners.
THEOREM InOrderOnce == Spec => []FifoOnce
  <1>1. IInv => FifoOnce
    BY Zenon DEF IInv
  <1> QED BY Invariance, <1>1, PTL

\* ShutdownLocked finds what it asserts, and no entry is handled after it.
THEOREM QuietAfterShutdown == Spec => []ShutdownQuiet
  <1>1. IInv => ShutdownQuiet
    BY Zenon DEF IInv
  <1> QED BY Invariance, <1>1, PTL

\* Only Push takes a producer from "push" to "start".
LEMMA OnlyPush ==
  ASSUME QueueState, [Next]_vars, NEW p \in Producers, pc[p] = "push", pc'[p] = "start"
  PROVE  Push(p)
  <1> USE Disjoint
  <1> pc \in [Threads -> Places]
    BY Zenon DEF QueueState, TypeOK, Places
  <1>1. ASSUME NEW q \in Producers, Enqueue(q) \/ ProducerStep(q) PROVE Push(p)
    <2>1. ~Enqueue(q) /\ ~LockWaterMutex(q)
      BY Zenon DEF Enqueue, LockWaterMutex, Goto
    <2>2. ~AtomicIncrementQueueCount(q)
      BY Zenon DEF AtomicIncrementQueueCount, Goto
    <2>3. ~Drop(q) /\ ~MayBeStartRunner(q)
      BY Zenon DEF Drop, MayBeStartRunner, Return, Goto
    <2>4. Push(q) => q = p
      BY Zenon DEF Push, Goto
    <2> QED BY <1>1, <2>1, <2>2, <2>3, <2>4, Zenon DEF ProducerStep
  <1>2. ASSUME NEW r \in Runners, RunnerStep(r) PROVE FALSE
    BY <1>2, Zenon
       DEF RunnerStep, Schedule, OnEntry, RunnerAbort, TryPop, AtomicDecrementQueueCount,
           Callback, RunnerDone, ShutdownLocked, OnTaskExit, Goto
  <1>3. ~CtlStep
    BY Zenon DEF CtlStep, MayBeStartRunner, ShutdownLocked, Return, Goto
  <1>4. ~Shutdown /\ ~ScheduleShutdown
    BY Zenon DEF Shutdown, ScheduleShutdown, CancelRunner, Goto
  <1>5. ASSUME NEW d \in BOOLEAN PROVE ~set_disable(d)
    BY Zenon DEF set_disable, Goto
  <1>6. UNCHANGED vars => FALSE
    BY Zenon DEF vars
  <1> QED BY <1>1, <1>2, <1>3, <1>4, <1>5, <1>6, Zenon DEF Next

\* Only AtomicDecrementQueueCount takes a runner from "popped" to "callback".
LEMMA OnlyDecrement ==
  ASSUME QueueState, [Next]_vars, NEW r \in Runners, pc[r] = "popped", pc'[r] = "callback"
  PROVE  AtomicDecrementQueueCount(r)
  <1> USE Disjoint
  <1> pc \in [Threads -> Places]
    BY Zenon DEF QueueState, TypeOK, Places
  <1>1. ASSUME NEW q \in Runners, RunnerStep(q) PROVE AtomicDecrementQueueCount(r)
    <2>1. ~Schedule(q) /\ ~OnEntry(q) /\ ~RunnerAbort(q)
      BY Zenon DEF Schedule, OnEntry, RunnerAbort, Goto
    <2>2. ~TryPop(q) /\ ~Callback(q)
      BY Zenon DEF TryPop, Callback, Goto
    <2>3. ~RunnerDone(q) /\ ~ShutdownLocked(q) /\ ~OnTaskExit(q)
      BY Zenon DEF RunnerDone, ShutdownLocked, OnTaskExit, Goto
    <2>4. AtomicDecrementQueueCount(q) => q = r
      BY Zenon DEF AtomicDecrementQueueCount, Goto
    <2> QED BY <1>1, <2>1, <2>2, <2>3, <2>4, Zenon DEF RunnerStep
  <1>2. ASSUME NEW p \in Producers, Enqueue(p) \/ ProducerStep(p) PROVE FALSE
    BY <1>2, Zenon
       DEF Enqueue, ProducerStep, LockWaterMutex, AtomicIncrementQueueCount, Drop, Push,
           MayBeStartRunner, Return, Goto
  <1>3. ~CtlStep
    BY Zenon DEF CtlStep, MayBeStartRunner, ShutdownLocked, Return, Goto
  <1>4. ~Shutdown /\ ~ScheduleShutdown
    BY Zenon DEF Shutdown, ScheduleShutdown, CancelRunner, Goto
  <1>5. ASSUME NEW d \in BOOLEAN PROVE ~set_disable(d)
    BY Zenon DEF set_disable, Goto
  <1>6. UNCHANGED vars => FALSE
    BY Zenon DEF vars
  <1> QED BY <1>1, <1>2, <1>3, <1>4, <1>5, <1>6, Zenon DEF Next

\* Every crossing of a water mark is reported, once and as it happens: the push
\* that takes count_ to a high mark calls its callback, the pop that takes it to
\* a low mark calls its, and no other push or pop calls one.
THEOREM CrossingsReported == Spec => FlowControl
  <1>1. ASSUME IInv, [Next]_vars, NEW p \in Producers, pc[p] = "push", pc'[p] = "start"
        PROVE  IF count_ \in high_water_ THEN Call("high", count_) ELSE UNCHANGED flow
    <2>1. Push(p) /\ TypeOK
      BY <1>1, OnlyPush, Zenon DEF IInv, QueueState
    <2>2. CASE AreWaterMarksSet
      <3>1. ncount[p] = count_ /\ count_ = last_count_ + 1
        BY <1>1, <2>2, Zenon DEF IInv, QueueState, WaterHeld
      <3>2. ProcessHighWaterMarks(last_count_ + 1)
        BY <2>1, <3>1, Zenon DEF Push
      <3> QED BY <2>1, <3>1, <3>2, HighCalled, Zenon
    <2>3. CASE ~AreWaterMarksSet
      BY <2>1, <2>3, Zenon DEF Push, ProcessHighWaterMarks, AreWaterMarksSet
    <2> QED BY <2>2, <2>3, Zenon
  <1>2. ASSUME IInv, [Next]_vars, NEW r \in Runners, pc[r] = "popped", pc'[r] = "callback"
        PROVE  IF count_' \in low_water_ THEN Call("low", count_') ELSE UNCHANGED flow
    <2>1. AtomicDecrementQueueCount(r) /\ TypeOK /\ count_' = Dec(count_)
      BY <1>2, OnlyDecrement, Zenon DEF IInv, QueueState, AtomicDecrementQueueCount
    <2>2. CASE AreWaterMarksSet
      <3>1. water_mutex_ = r /\ ~deleted_
        BY <1>2, <2>2, Zenon DEF IInv, QueueState, WaterHeld, ShutdownQuiet
      <3>2. \A p \in Producers : pc[p] \notin {"drop", "push"}
        BY <1>2, <2>2, <3>1, Disjoint, Zenon DEF IInv, QueueState, WaterHeld
      <3>3. count_ = last_count_
        BY <1>2, <2>2, <3>2, Zenon DEF IInv, QueueState, WaterHeld
      <3>4. count_ > 0
        BY <1>2, <2>1, <3>1, CountRange, Zenon DEF IInv, CountInRange
      <3>5. count_' = last_count_ - 1
        BY <2>1, <3>3, <3>4, SizeT, Zenon DEF TypeOK
      <3>6. ProcessLowWaterMarks(last_count_ - 1)
        BY <2>1, <3>5, Zenon DEF AtomicDecrementQueueCount
      <3> QED BY <2>1, <3>3, <3>4, <3>5, <3>6, LowCalled, Zenon
    <2>3. CASE ~AreWaterMarksSet
      BY <2>1, <2>3, Zenon DEF AtomicDecrementQueueCount, ProcessLowWaterMarks, AreWaterMarksSet
    <2> QED BY <2>2, <2>3, Zenon
  <1> DEFINE Reported ==
        /\ \A p \in Producers :
              pc[p] = "push" /\ pc'[p] = "start" =>
                  IF count_ \in high_water_ THEN Call("high", count_) ELSE UNCHANGED flow
        /\ \A r \in Runners :
              pc[r] = "popped" /\ pc'[r] = "callback" =>
                  IF count_' \in low_water_ THEN Call("low", count_') ELSE UNCHANGED flow
  <1>3. IInv /\ [Next]_vars => [Reported]_vars
    BY <1>1, <1>2, Zenon
  <1> QED BY <1>3, Invariance, PTL DEF Spec, FlowControl
=============================================================================
