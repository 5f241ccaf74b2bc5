--------------------------- MODULE ComponentProofs ---------------------------
(***************************************************************************)
(* The components with short proofs, each for every value of its           *)
(* constants: the timer of base/timer.cc, the lock of zookeeper_client.cc, *)
(* the object lifetimes of base/lifetime.cc and the trigger of             *)
(* base/task_trigger.cc.  They have no variable in common.                 *)
(***************************************************************************)
EXTENDS Timer, ZookeeperLock, Lifetime, TaskTrigger, TLAPS

-----------------------------------------------------------------------------
(* The lemmas start from the facts about finite sets that Counting states; *)
(* CountingHolds at the end takes them from the library, whose theorems    *)
(* are so no part of the context of the proofs before it.                  *)

Counting ==
  /\ IsFiniteSet({}) /\ \A n \in Nat : IsFiniteSet(1 .. n)
  /\ \A S : IsFiniteSet(S) =>
        /\ Cardinality(S) \in Nat
        /\ Cardinality(S) = 0 <=> S = {}
        /\ Cardinality(S) = 1 => \E x : S = {x}
        /\ \A T \in SUBSET S : IsFiniteSet(T)
        /\ \A x \in S : Cardinality(S \ {x}) = Cardinality(S) - 1
        /\ \A x : IsFiniteSet(S \cup {x})
        /\ \A x : x \notin S => Cardinality(S \cup {x}) = Cardinality(S) + 1

LEMMA EmptyCount ==
  ASSUME Counting
  PROVE  IsFiniteSet({}) /\ Cardinality({}) = 0
  BY Zenon DEF Counting

LEMMA SubsetFinite ==
  ASSUME Counting, NEW S, IsFiniteSet(S), NEW T, T \subseteq S
  PROVE  IsFiniteSet(T)
  BY Zenon DEF Counting

LEMMA Count ==
  ASSUME Counting, NEW S, IsFiniteSet(S)
  PROVE  /\ Cardinality(S) \in Nat
         /\ Cardinality(S) = 0 <=> S = {}
         /\ Cardinality(S) = 1 => \E x : S = {x}
         /\ \A x \in S : Cardinality(S \ {x}) = Cardinality(S) - 1
         /\ \A x : IsFiniteSet(S \cup {x})
         /\ \A x : x \notin S => Cardinality(S \cup {x}) = Cardinality(S) + 1
  BY Zenon DEF Counting

-----------------------------------------------------------------------------
(* The timer: TimerState is inductive, for every number of clients, of     *)
(* tasks and of Starts.                                                    *)

\* The invariant under a name that the proofs unfold once, at their start.
State == TimerState

-----------------------------------------------------------------------------
(* Counting the references.                                                *)

CountsFinite ==
  /\ IsFiniteSet(Waits) /\ Cardinality(Waits) \in Nat
  /\ IsFiniteSet(Holders) /\ Cardinality(Holders) \in Nat
  /\ IsFiniteSet(Restarting) /\ Cardinality(Restarting) \in Nat

LEMMA Finite == ASSUME Counting PROVE CountsFinite
  <1>1. IsFiniteSet(SeqNo)
    BY ConfigAssumption, Zenon DEF SeqNo, Counting
  <1>2. IsFiniteSet(Waits) /\ IsFiniteSet(Holders) /\ IsFiniteSet(Restarting)
    BY <1>1, ConfigAssumption, SubsetFinite, Zenon DEF Waits, Holders, Restarting
  <1> QED BY <1>2, Count, Zenon DEF CountsFinite

RefTotal == (IF timer_ref_ THEN 1 ELSE 0) + Cardinality(Waits) + Cardinality(Holders)

\* A wait or a task that holds a reference is counted.
LEMMA RefTotalPositive ==
  ASSUME Counting
  PROVE  RefTotal \in Nat /\ (timer_ref_ \/ Waits # {} \/ Holders # {} => RefTotal > 0)
  <1>1. Waits # {} => Cardinality(Waits) > 0
    BY Finite, Count DEF CountsFinite
  <1>2. Holders # {} => Cardinality(Holders) > 0
    BY Finite, Count DEF CountsFinite
  <1> QED BY <1>1, <1>2, Finite DEF RefTotal, CountsFinite

\* A timer that runs or has fired is held by its wait or by its task.
BusyHeld ==
  TypeOK /\ OneTask /\ ThreadsConsistent /\ StartsConsistent
  /\ UsersHold
  /\ state_ \in {"Running", "Fired"} => RefTotal > 0

LEMMA BusyIsHeld == ASSUME Counting PROVE BusyHeld
  <1> SUFFICES ASSUME TypeOK, OneTask, ThreadsConsistent, StartsConsistent,
                      UsersHold,
                      state_ \in {"Running", "Fired"}
               PROVE  RefTotal > 0
    BY Zenon DEF BusyHeld
  <1>1. timer_task_ # NULL => Holders # {}
    <2> SUFFICES ASSUME timer_task_ # NULL PROVE Holders # {}
      BY Zenon
    <2>1. timer_task_ \in Tasks /\ Pending(timer_task_)
      BY Zenon DEF TypeOK, OneTask
    <2>2. timer_[timer_task_]
      BY <2>1, Zenon DEF Pending, ThreadsConsistent, UsersHold
    <2> QED BY <2>1, <2>2, Zenon DEF Holders
  <1>2. state_ = "Fired" => timer_task_ # NULL
    <2> SUFFICES ASSUME state_ = "Fired" PROVE timer_task_ # NULL
      BY Zenon
    <2>1. PICK k \in Tasks : pc[k] = "handler"
      BY Zenon DEF OneTask
    <2>2. Pending(k)
      BY <2>1, Zenon DEF Pending, ThreadsConsistent
    <2> QED BY <2>2, ConfigAssumption, Zenon DEF OneTask
  <1>3. state_ = "Running" /\ timer_task_ = NULL => Waits # {}
    <2> SUFFICES ASSUME state_ = "Running", timer_task_ = NULL PROVE Waits # {}
      BY Zenon
    <2>1. seq_no_ \in SeqNo
      BY ConfigAssumption DEF StartsConsistent, TypeOK, SeqNo
    <2>2. wait[seq_no_] # "none"
      BY Zenon DEF StartsConsistent
    <2> QED BY <2>1, <2>2, Zenon DEF Waits
  <1> QED BY <1>1, <1>2, <1>3, RefTotalPositive, Zenon

\* A step that takes or drops d references keeps the count, and frees the timer
\* exactly when none is left.
LEMMA RefInv ==
  ASSUME Counting, RefcountExact, TypeOK', OneTask', ThreadsConsistent', StartsConsistent',
         NEW d \in Int, Ref(d),
         RefTotal' = RefTotal + d,
         RefTotal = 0 => d = 0,
         UsersHold'
  PROVE  RefcountExact'
  <1>1. refcount_ = RefTotal /\ (freed <=> refcount_ = 0)
    BY Zenon DEF RefcountExact, RefTotal
  <1>2. refcount_' = RefTotal'
    BY <1>1, Zenon DEF Ref
  <1>3. freed' <=> refcount_' = 0
    <2>1. RefTotal \in Nat
      BY RefTotalPositive, Zenon
    <2>2. freed' <=> freed \/ refcount_' = 0
      BY Zenon DEF Ref
    <2>3. freed => refcount_' = 0
      BY <1>1, <2>1 DEF Ref
    <2> QED BY <2>2, <2>3, Zenon
  <1>4. freed' => state_' \notin {"Running", "Fired"}
    <2>1. BusyHeld'
      BY BusyIsHeld, PTL
    <2> QED BY <1>2, <1>3, <2>1 DEF BusyHeld
  <1> QED BY <1>2, <1>3, <1>4, Zenon DEF RefcountExact, RefTotal

-----------------------------------------------------------------------------
(* Start and Cancel, the two methods that clients and tasks both call.     *)

\* Start, by a client or by a task that is about to exit.
LEMMA StartInv ==
  ASSUME Counting, State, Start, UNCHANGED <<timer_ref_, taskVars, otherVars>>,
         state_ \in {"Running", "Fired"} \/ seq_no_ < MaxStarts,
         timer_ref_ \/ Holders # {},
         pc' \in [Threads -> {"idle", "run", "handler", "restart", "exit", "delete",
                              "cancel", "erase"}],
         \A t \in Threads : pc'[t] = pc[t] \/ (pc[t] = "restart" /\ pc'[t] = "exit"),
         seq_no_' + Cardinality(Restarting') <= MaxStarts
  PROVE  State'
  <1> SUFFICES ASSUME TimerState PROVE TimerState'
    BY Zenon DEF State
  <1> USE DEF TimerState
  <1>1. CASE state_ \in {"Running", "Fired"}
    <2>1. UNCHANGED <<timerVars, refcount_, freed, wait>>
      BY <1>1, Zenon DEF Start
    <2>2. TypeOK'
      BY <2>1, Zenon DEF TypeOK, timerVars, taskVars, otherVars
    <2>3. OneTask'
      BY <2>1, Zenon DEF OneTask, Pending, Expected, timerVars, taskVars, Threads
    <2>4. ThreadsConsistent'
      BY <2>1, Zenon DEF ThreadsConsistent, timerVars, taskVars, Threads
    <2>5. StartsConsistent'
      BY <2>1, Zenon DEF StartsConsistent, timerVars, otherVars
    <2>6. NoCallUnderSchedulerMutex'
      BY Zenon DEF NoCallUnderSchedulerMutex, ThreadsConsistent, taskVars, Threads
    <2>7. RefcountExact'
      BY <2>1, Zenon DEF RefcountExact, UsersHold, Waits, Holders, timerVars, taskVars, Threads
    <2> QED BY <2>2, <2>3, <2>4, <2>5, <2>6, <2>7, Zenon
  <1>2. CASE state_ \notin {"Running", "Fired"}
    <2> DEFINE n == seq_no_ + 1
    <2>0. timer_task_ = NULL /\ timer_task_' = NULL /\ seq_no_' = n /\ n \in SeqNo
      BY <1>2, ConfigAssumption DEF Start, StartsConsistent, TypeOK, SeqNo
    <2>1. /\ state_' \in {"Init", "Running", "Cancelled"}
          /\ wait' \in [SeqNo -> {"none", "wait", "expired", "aborted"}]
          /\ \A s \in SeqNo : /\ wait'[s] # "none" => s <= n
                              /\ wait'[s] = "aborted" => s < n
                              /\ wait'[s] # "none" <=> wait[s] # "none" \/ (s = n /\ state_' = "Running")
          /\ state_' = "Running" => wait'[n] = "wait"
          /\ wait[n] = "none"
      <3>1. /\ wait[n] = "none"
            /\ \A s \in SeqNo : /\ s \in Nat
                                /\ wait[s] # "none" => s <= n /\ s # n
                                /\ wait[s] = "aborted" => s < n
        BY <2>0 DEF StartsConsistent, TypeOK, SeqNo
      <3>2. CASE /\ state_' = "Running"
                 /\ wait' = [s \in SeqNo |-> IF s = n THEN "wait"
                                             ELSE IF wait[s] = "wait" THEN "aborted" ELSE wait[s]]
        BY <2>0, <3>1, <3>2 DEF TypeOK, SeqNo
      <3>3. CASE state_' = state_ /\ wait' = wait
        BY <1>2, <2>0, <3>1, <3>3, Zenon DEF TypeOK
      <3> QED BY <1>2, <3>2, <3>3, Zenon DEF Start
    <2>2. TypeOK'
      <3>1. refcount_' \in Nat /\ freed' \in BOOLEAN
        BY <1>2 DEF Start, Ref, TypeOK
      <3>2. seq_no_' \in 0 .. MaxStarts
        BY <2>0 DEF SeqNo
      <3> QED BY <2>0, <2>1, <3>1, <3>2, Zenon DEF TypeOK, taskVars, otherVars
    <2>3. OneTask'
      <3>1. \A k \in Tasks : ~Pending(k) /\ ~Pending(k)' /\ pc[k] # "handler" /\ pc'[k] # "handler"
        BY <1>2, <2>0, ConfigAssumption, Zenon DEF OneTask, Pending, taskVars, Threads
      <3> QED BY <2>0, <2>1, <3>1, ConfigAssumption, Zenon DEF OneTask
    <2>4. ThreadsConsistent'
      BY <2>0, Zenon DEF ThreadsConsistent, taskVars, Threads
    <2>5. StartsConsistent'
      <3>1. cancelled' \subseteq 1 .. n /\ n \notin cancelled'
        BY <2>0 DEF StartsConsistent, TypeOK, otherVars
      <3>2. state_' # "Running" => \A s \in SeqNo : s = n => wait'[s] = "none"
        BY <2>1, Zenon
      <3> QED BY <2>0, <2>1, <3>1, <3>2 DEF StartsConsistent, SeqNo
    <2>6. NoCallUnderSchedulerMutex'
      BY Zenon DEF NoCallUnderSchedulerMutex, ThreadsConsistent, taskVars, Threads
    <2>7. RefcountExact'
      <3>1. Holders' = Holders /\ UsersHold'
        BY Zenon DEF RefcountExact, UsersHold, Holders, taskVars, Threads
      <3>2. CASE state_' = "Running"
        <4>1. Waits' = Waits \cup {n} /\ n \notin Waits
          BY <2>0, <2>1, <3>2, Zenon DEF Waits
        <4>2. Cardinality(Waits') = Cardinality(Waits) + 1
          BY <4>1, Finite, Count, Zenon DEF CountsFinite
        <4>3. Ref(1)
          BY <1>2, <3>2, Zenon DEF Start
        <4>4. RefTotal' = RefTotal + 1
          BY <3>1, <4>2, Finite DEF RefTotal, CountsFinite
        <4>5. RefTotal # 0
          BY RefTotalPositive
        <4> QED BY <2>2, <2>3, <2>4, <2>5, <3>1, <4>3, <4>4, <4>5, RefInv
      <3>3. CASE state_' # "Running"
        <4>1. wait' = wait /\ refcount_' = refcount_ /\ freed' = freed
          BY <3>3, Zenon DEF Start
        <4> QED BY <3>1, <3>3, <4>1, <2>1, Zenon DEF RefcountExact, Waits
      <3> QED BY <3>2, <3>3, Zenon
    <2> QED BY <2>2, <2>3, <2>4, <2>5, <2>6, <2>7, Zenon
  <1> QED BY <1>1, <1>2, Zenon

\* Cancel, by a client or on the way through DeleteTimer.
LEMMA CancelInv ==
  ASSUME Counting, State, Cancel,
         UNCHANGED <<timer_ref_, wait, seqOf, delete_on_completion_, deleted>>,
         pc' \in [Threads -> {"idle", "run", "handler", "restart", "exit", "delete",
                              "cancel", "erase"}],
         \A t \in Threads : pc'[t] = pc[t] \/ (pc[t] = "cancel" /\ pc'[t] = "erase")
  PROVE  State'
  <1> SUFFICES ASSUME TimerState PROVE TimerState'
    BY Zenon DEF State
  <1> USE DEF TimerState
  <1> DEFINE j == timer_task_
  <1>0. /\ state_' = "Cancelled" /\ state_ # "Fired" /\ timer_task_' = NULL /\ seq_no_' = seq_no_
        /\ j # NULL => j \in Tasks /\ Pending(j) /\ state_ = "Running"
        /\ \A k \in Tasks : k # j => ~Pending(k)
        /\ \A k \in Tasks : pc[k] # "handler" /\ pc'[k] # "handler"
    BY Zenon DEF Cancel, StartsConsistent, TypeOK, OneTask, Threads
  <1>1. \/ /\ j = NULL
           /\ UNCHANGED <<refcount_, freed, task, task_cancel_, timer_>>
        \/ /\ j \in Tasks /\ task[j] = "WAIT" /\ timer_[j] /\ pc[j] = "idle"
           /\ task' = [task EXCEPT ![j] = "none"]
           /\ timer_' = [timer_ EXCEPT ![j] = FALSE]
           /\ Ref(-1) /\ UNCHANGED task_cancel_
        \/ /\ j \in Tasks /\ task[j] = "RUN" /\ pc[j] = "run"
           /\ task_cancel_' = [task_cancel_ EXCEPT ![j] = TRUE]
           /\ UNCHANGED <<refcount_, freed, task, timer_>>
    BY <1>0, Zenon DEF Cancel, ThreadsConsistent, Pending
  <1>2. TypeOK'
    <2>1. cancelled' \subseteq SeqNo
      BY DEF Cancel, StartsConsistent, TypeOK, SeqNo
    <2>2. refcount_' \in Nat
      <3>1. j \in Tasks /\ timer_[j] => refcount_ > 0
        BY RefTotalPositive, Zenon DEF RefcountExact, RefTotal, Holders
      <3> QED BY <1>1, <3>1 DEF TypeOK, Ref
    <2>3. freed' \in BOOLEAN
      BY <1>1, Zenon DEF Ref, TypeOK
    <2>4. /\ task' \in [Tasks -> {"none", "WAIT", "RUN"}]
          /\ task_cancel_' \in [Tasks -> BOOLEAN] /\ timer_' \in [Tasks -> BOOLEAN]
      BY <1>1, Zenon DEF TypeOK
    <2> QED BY <1>0, <2>1, <2>2, <2>3, <2>4, Zenon DEF TypeOK
  <1>3. \A k \in Tasks : ~Pending(k)'
    <2> SUFFICES ASSUME NEW k \in Tasks PROVE ~Pending(k)'
      BY Zenon
    <2>1. CASE k # j
      BY <1>0, <1>1, <2>1 DEF Pending, TypeOK, Threads
    <2>2. CASE k = j
      BY <1>0, <1>1, <2>2, ConfigAssumption, Zenon DEF Pending, TypeOK, Threads
    <2> QED BY <2>1, <2>2, Zenon
  <1>4. OneTask'
    BY <1>0, <1>3, ConfigAssumption, Zenon DEF OneTask
  <1>5. ThreadsConsistent'
    <2>1. Restarting' = Restarting
      BY Zenon DEF Restarting, Threads
    <2>2. \A c \in Clients : pc'[c] \in {"idle", "delete", "cancel", "erase"}
      BY Zenon DEF ThreadsConsistent, Threads
    <2>3. ASSUME NEW k \in Tasks
          PROVE  /\ task'[k] = "RUN" <=> pc'[k] # "idle"
                 /\ timer_'[k] => task'[k] # "none"
                 /\ task'[k] = "WAIT" => timer_'[k] /\ ~task_cancel_'[k]
                 /\ pc'[k] \in {"handler", "restart", "delete", "cancel", "erase"} => ~task_cancel_'[k]
      BY <1>0, <1>1 DEF ThreadsConsistent, TypeOK, Threads
    <2> QED BY <1>0, <2>1, <2>2, <2>3, Zenon DEF ThreadsConsistent
  <1>6. StartsConsistent'
    BY <1>0 DEF StartsConsistent, Cancel, TypeOK
  <1>7. NoCallUnderSchedulerMutex'
    BY <1>1 DEF NoCallUnderSchedulerMutex, TypeOK, Threads
  <1>8. RefcountExact'
    <2>1. UsersHold' /\ Waits' = Waits
      BY <1>1 DEF RefcountExact, UsersHold, TypeOK, Threads, Waits
    <2>2. CASE UNCHANGED <<refcount_, freed, timer_>>
      BY <1>0, <2>1, <2>2, Zenon DEF RefcountExact, Holders
    <2>3. CASE /\ j \in Tasks /\ timer_[j]
               /\ timer_' = [timer_ EXCEPT ![j] = FALSE]
               /\ Ref(-1)
      <3>1. Holders' = Holders \ {j} /\ j \in Holders
        BY <2>3, Zenon DEF Holders, TypeOK
      <3>2. Cardinality(Holders') = Cardinality(Holders) - 1
        BY <3>1, Finite, Count, Zenon DEF CountsFinite
      <3>3. RefTotal' = RefTotal + (-1)
        BY <2>1, <3>2, Finite DEF RefTotal, CountsFinite
      <3>4. RefTotal # 0
        BY <3>1, RefTotalPositive
      <3> QED BY <1>2, <1>4, <1>5, <1>6, <2>1, <2>3, <3>3, <3>4, RefInv
    <2> QED BY <1>1, <2>2, <2>3, Zenon
  <1> QED BY <1>2, <1>4, <1>5, <1>6, <1>7, <1>8, Zenon

-----------------------------------------------------------------------------
(* The waits.                                                              *)

LEMMA ExpireInv ==
  ASSUME Counting, State, NEW s \in SeqNo, Expire(s)
  PROVE  State'
  <1> SUFFICES ASSUME TimerState PROVE TimerState'
    BY Zenon DEF State
  <1> USE DEF TimerState, Expire, timerVars, refVars, taskVars, otherVars
  <1>0. /\ wait' \in [SeqNo -> {"none", "wait", "expired", "aborted"}]
        /\ \A r \in SeqNo : wait'[r] = IF r = s THEN "expired" ELSE wait[r]
        /\ wait[s] = "wait"
    BY Zenon DEF TypeOK
  <1>1. TypeOK'
    BY <1>0, Zenon DEF TypeOK
  <1>2. OneTask'
    BY <1>0, Zenon DEF OneTask, Pending, Expected
  <1>3. ThreadsConsistent'
    BY Zenon DEF ThreadsConsistent, Restarting
  <1>4. StartsConsistent'
    BY <1>0 DEF StartsConsistent, SeqNo, TypeOK
  <1>5. Waits' = Waits /\ Holders' = Holders
    BY <1>0, Zenon DEF Waits, Holders
  <1>6. RefcountExact' /\ NoCallUnderSchedulerMutex'
    BY <1>5, Zenon DEF RefcountExact, UsersHold, NoCallUnderSchedulerMutex
  <1> QED BY <1>1, <1>2, <1>3, <1>4, <1>6, Zenon

\* The reference of the wait goes to the task, or is dropped.
LEMMA StartTimerTaskInv ==
  ASSUME Counting, State, NEW s \in SeqNo, StartTimerTask(s)
  PROVE  State'
  <1> SUFFICES ASSUME TimerState PROVE TimerState'
    BY Zenon DEF State
  <1> USE DEF TimerState, otherVars
  <1>0. /\ wait' = [wait EXCEPT ![s] = "none"] /\ wait[s] \in {"expired", "aborted"}
        /\ UNCHANGED <<state_, seq_no_, timer_ref_, pc, otherVars>>
    BY Zenon DEF StartTimerTask
  <1>1. Waits' = Waits \ {s} /\ s \in Waits
    BY <1>0, Zenon DEF Waits, TypeOK
  <1>2. Cardinality(Waits') = Cardinality(Waits) - 1
    BY <1>1, Finite, Count, Zenon DEF CountsFinite
  <1>3. CASE ~Expected(s)
    <2>0. Ref(-1) /\ UNCHANGED <<timer_task_, taskVars>>
      BY <1>3, Zenon DEF StartTimerTask
    <2> USE DEF taskVars
    <2>1. refcount_ > 0 /\ RefTotal # 0
      BY <1>1, RefTotalPositive DEF RefcountExact, RefTotal
    <2>2. TypeOK'
      <3>1. refcount_' \in Nat /\ freed' \in BOOLEAN
        BY <2>0, <2>1 DEF Ref, TypeOK
      <3> QED BY <1>0, <2>0, <3>1, Zenon DEF TypeOK
    <2>3. OneTask'
      BY <1>0, <2>0, Zenon DEF OneTask, Pending, Expected, TypeOK
    <2>4. ThreadsConsistent' /\ NoCallUnderSchedulerMutex' /\ UsersHold'
      BY <1>0, <2>0, Zenon
         DEF ThreadsConsistent, Restarting, NoCallUnderSchedulerMutex, RefcountExact, UsersHold
    <2>5. StartsConsistent'
      <3>1. state_ = "Running" /\ timer_task_ = NULL => s # seq_no_
        BY <1>3, <1>0, Zenon DEF Expected, StartsConsistent
      <3> QED BY <1>0, <2>0, <3>1 DEF StartsConsistent, TypeOK, SeqNo
    <2>6. RefTotal' = RefTotal + (-1)
      BY <1>0, <1>2, <2>0, Finite DEF RefTotal, CountsFinite, Holders
    <2>7. RefcountExact'
      BY <2>0, <2>1, <2>2, <2>3, <2>4, <2>5, <2>6, RefInv
    <2> QED BY <2>2, <2>3, <2>4, <2>5, <2>7, Zenon
  <1>4. CASE Expected(s)
    <2>0. PICK k \in Tasks :
             /\ task[k] = "none" /\ timer_task_' = k
             /\ task' = [task EXCEPT ![k] = "WAIT"]
             /\ task_cancel_' = [task_cancel_ EXCEPT ![k] = FALSE]
             /\ timer_' = [timer_ EXCEPT ![k] = TRUE]
             /\ seqOf' = [seqOf EXCEPT ![k] = s]
             /\ UNCHANGED <<refcount_, freed>>
      BY <1>4, Zenon DEF StartTimerTask
    <2>1. /\ s = seq_no_ /\ wait[s] = "expired" /\ timer_task_ = NULL
          /\ state_ = "Running"
          /\ pc[k] = "idle" /\ ~timer_[k]
          /\ \A i \in Tasks : ~Pending(i) /\ pc[i] # "handler"
      <3>1. s = seq_no_ /\ wait[s] = "expired" /\ timer_task_ = NULL
        BY <1>0, <1>4, Zenon DEF Expected, OneTask
      <3>2. \A i \in Tasks : ~Pending(i)
        BY <3>1, ConfigAssumption, Zenon DEF OneTask
      <3>3. \A i \in Tasks : pc[i] # "handler"
        BY <3>2, Zenon DEF Pending, ThreadsConsistent
      <3>4. state_ = "Running"
        BY <1>4, <3>1, <3>3, Zenon DEF Expected, OneTask, TypeOK, StartsConsistent
      <3> QED BY <2>0, <3>1, <3>2, <3>3, <3>4, Zenon DEF ThreadsConsistent
    <2>2. TypeOK'
      BY <1>0, <2>0, <2>1, Zenon DEF TypeOK, SeqNo
    <2>3. OneTask'
      <3>1. Pending(k)' /\ seqOf'[k] = seq_no_
        BY <2>0, <2>1, Zenon DEF Pending, TypeOK
      <3>2. \A i \in Tasks \ {k} : ~Pending(i)'
        BY <1>0, <2>0, <2>1, Zenon DEF Pending, TypeOK
      <3>3. \A r \in SeqNo : r = seq_no_' => wait'[r] = "none"
        BY <1>0, <2>1, Zenon DEF TypeOK
      <3> QED BY <1>0, <2>0, <2>1, <3>1, <3>2, <3>3, Zenon DEF OneTask, Expected
    <2>4. ThreadsConsistent' /\ NoCallUnderSchedulerMutex' /\ UsersHold'
      <3>1. Restarting' = Restarting
        BY <1>0, Zenon DEF Restarting
      <3> QED BY <1>0, <2>0, <2>1, <3>1, Zenon
                 DEF ThreadsConsistent, NoCallUnderSchedulerMutex, RefcountExact, UsersHold,
                     TypeOK
    <2>5. StartsConsistent'
      BY <1>0, <2>0, <2>1, ConfigAssumption, Zenon DEF StartsConsistent, TypeOK, SeqNo
    <2>6. RefcountExact'
      <3>1. Holders' = Holders \cup {k} /\ k \notin Holders
        BY <2>0, <2>1, Zenon DEF Holders, TypeOK
      <3>2. Cardinality(Holders') = Cardinality(Holders) + 1
        BY <3>1, Finite, Count, Zenon DEF CountsFinite
      <3> QED BY <1>0, <1>2, <2>0, <2>4, <3>2, Finite DEF RefcountExact, CountsFinite
    <2> QED BY <2>2, <2>3, <2>4, <2>5, <2>6, Zenon
  <1> QED BY <1>3, <1>4, Zenon

-----------------------------------------------------------------------------
(* The tasks.                                                              *)

LEMMA ScheduleInv ==
  ASSUME Counting, State, NEW k \in Tasks, Schedule(k)
  PROVE  State'
  <1> SUFFICES ASSUME TimerState PROVE TimerState'
    BY Zenon DEF State
  <1> USE DEF TimerState, Schedule, Goto, timerVars, refVars, otherVars
  <1>0. k \in Threads /\ k \notin Clients /\ pc[k] = "idle" /\ timer_[k] /\ ~task_cancel_[k]
    BY ConfigAssumption, Zenon DEF Threads, ThreadsConsistent
  <1>1. TypeOK'
    BY <1>0, Zenon DEF TypeOK
  <1>2. \A i \in Tasks : Pending(i)' <=> Pending(i)
    BY <1>0, Zenon DEF Pending, TypeOK, Threads
  <1>3. OneTask'
    BY <1>0, <1>2, Zenon DEF OneTask, Expected, TypeOK, Threads
  <1>4. Restarting' = Restarting
    BY <1>0, Zenon DEF Restarting, TypeOK, Threads
  <1>5. ThreadsConsistent'
    BY <1>0, <1>4, Zenon DEF ThreadsConsistent, TypeOK, Threads
  <1>6. StartsConsistent'
    BY Zenon DEF StartsConsistent
  <1>7. RefcountExact' /\ NoCallUnderSchedulerMutex'
    BY <1>0, Zenon
       DEF RefcountExact, UsersHold, NoCallUnderSchedulerMutex, Waits, Holders, TypeOK, Threads
  <1> QED BY <1>1, <1>3, <1>5, <1>6, <1>7, Zenon

\* Run of a task that Cancel has marked: it lets go of the timer.
LEMMA RunCancelledInv ==
  ASSUME Counting, State, NEW k \in Tasks, Run(k), task_cancel_[k]
  PROVE  State'
  <1> SUFFICES ASSUME TimerState PROVE TimerState'
    BY Zenon DEF State
  <1> USE DEF TimerState, Goto, otherVars
  <1>0. /\ pc[k] = "run" /\ pc' = [pc EXCEPT ![k] = "exit"]
        /\ timer_' = [timer_ EXCEPT ![k] = FALSE] /\ Ref(-1)
        /\ UNCHANGED <<state_, timer_task_, seq_no_, timer_ref_, wait, task, task_cancel_, seqOf, otherVars>>
    BY Zenon DEF Run
  <1>1. k \in Threads /\ k \notin Clients /\ task[k] = "RUN" /\ timer_[k]
    BY <1>0, ConfigAssumption, Zenon DEF Threads, ThreadsConsistent, RefcountExact, UsersHold
  <1>2. Holders' = Holders \ {k} /\ k \in Holders
    BY <1>0, <1>1, Zenon DEF Holders, TypeOK
  <1>3. RefTotal # 0 /\ refcount_ > 0
    BY <1>2, RefTotalPositive DEF RefcountExact, RefTotal
  <1>4. TypeOK'
    <2>1. refcount_' \in Nat /\ freed' \in BOOLEAN
      BY <1>0, <1>3 DEF Ref, TypeOK
    <2>2. pc' \in [Threads -> {"idle", "run", "handler", "restart", "exit", "delete",
                               "cancel", "erase"}] /\ timer_' \in [Tasks -> BOOLEAN]
      BY <1>0, <1>1, Zenon DEF TypeOK
    <2> QED BY <1>0, <2>1, <2>2, Zenon DEF TypeOK
  <1>5. \A i \in Tasks : Pending(i)' <=> Pending(i)
    BY <1>0, <1>1 DEF Pending, TypeOK
  <1>6. OneTask'
    BY <1>0, <1>1, <1>5 DEF OneTask, Expected, TypeOK
  <1>7. Restarting' = Restarting
    BY <1>0, <1>1 DEF Restarting, TypeOK
  <1>8. ThreadsConsistent' /\ UsersHold' /\ NoCallUnderSchedulerMutex'
    BY <1>0, <1>1, <1>7, Zenon
       DEF ThreadsConsistent, RefcountExact, UsersHold, NoCallUnderSchedulerMutex, TypeOK,
           Threads
  <1>9. StartsConsistent'
    BY <1>0, Zenon DEF StartsConsistent
  <1>10. Cardinality(Holders') = Cardinality(Holders) - 1
    BY <1>2, Finite, Count, Zenon DEF CountsFinite
  <1>11. RefTotal' = RefTotal + (-1)
    BY <1>0, <1>10, Finite DEF RefTotal, CountsFinite, Waits
  <1>12. RefcountExact'
    BY <1>0, <1>3, <1>4, <1>6, <1>8, <1>9, <1>11, RefInv
  <1> QED BY <1>4, <1>6, <1>8, <1>9, <1>12, Zenon

\* Run of any other task: it is timer_task_, and fires the timer.
LEMMA RunFiresInv ==
  ASSUME Counting, State, NEW k \in Tasks, Run(k), ~task_cancel_[k]
  PROVE  State'
  <1> SUFFICES ASSUME TimerState PROVE TimerState'
    BY Zenon DEF State
  <1> USE DEF TimerState, Goto, otherVars
  <1>0. /\ pc[k] = "run" /\ pc' = [pc EXCEPT ![k] = "handler"] /\ state_' = "Fired"
        /\ UNCHANGED <<refcount_, freed, timer_, timer_task_, seq_no_, timer_ref_, wait, task,
                       task_cancel_, seqOf, otherVars>>
    BY Zenon DEF Run
  <1>1. /\ k \in Threads /\ k \notin Clients /\ task[k] = "RUN" /\ timer_[k]
        /\ Pending(k) /\ timer_task_ = k /\ state_ = "Running"
    <2>1. k \in Threads /\ k \notin Clients /\ task[k] = "RUN" /\ timer_[k]
      BY <1>0, ConfigAssumption, Zenon DEF Threads, ThreadsConsistent, RefcountExact, UsersHold
    <2>2. Pending(k) /\ timer_task_ = k
      BY <1>0, <2>1, Zenon DEF Pending, OneTask
    <2>3. \A i \in Tasks : pc[i] # "handler"
      BY <1>0, <2>2, Zenon DEF OneTask, Pending, ThreadsConsistent
    <2> QED BY <2>1, <2>2, <2>3, ConfigAssumption, Zenon DEF OneTask, StartsConsistent
  <1>2. TypeOK'
    BY <1>0, <1>1, Zenon DEF TypeOK
  <1>3. \A i \in Tasks : Pending(i)' <=> Pending(i)
    BY <1>0, <1>1 DEF Pending, TypeOK
  <1>4. OneTask'
    <2>1. \A r \in SeqNo : r = seq_no_ => wait[r] = "none"
      BY <1>1, ConfigAssumption, Zenon DEF StartsConsistent
    <2> QED BY <1>0, <1>1, <1>3, <2>1, Zenon DEF OneTask, Expected, TypeOK
  <1>5. Restarting' = Restarting
    BY <1>0, <1>1 DEF Restarting, TypeOK
  <1>6. ThreadsConsistent' /\ NoCallUnderSchedulerMutex'
    BY <1>0, <1>1, <1>5, Zenon DEF ThreadsConsistent, NoCallUnderSchedulerMutex, TypeOK, Threads
  <1>7. StartsConsistent'
    BY <1>0, <1>1, ConfigAssumption, Zenon DEF StartsConsistent
  <1>8. RefcountExact'
    <2>1. Waits' = Waits /\ Holders' = Holders /\ UsersHold'
      BY <1>0, <1>1 DEF Waits, Holders, RefcountExact, UsersHold, TypeOK
    <2> QED BY <1>0, <1>1, <2>1, Zenon DEF RefcountExact
  <1> QED BY <1>2, <1>4, <1>6, <1>7, <1>8, Zenon

\* The handler returns: timer_task_ is the task that ran it, and is forgotten.
LEMMA HandlerReturnsInv ==
  ASSUME Counting, State, NEW k \in Tasks, HandlerReturns(k)
  PROVE  State'
  <1> SUFFICES ASSUME TimerState PROVE TimerState'
    BY Zenon DEF State
  <1> USE DEF TimerState, Goto, OnTaskCancel, refVars, taskVars, otherVars
  <1>0. PICK l \in {"restart", "delete", "exit"} :
           /\ l = "restart" => MayStart
           /\ pc' = [pc EXCEPT ![k] = l]
    BY Zenon DEF HandlerReturns
  <1>1. /\ pc[k] = "handler" /\ state_' = "Init" /\ timer_task_' = NULL
        /\ UNCHANGED <<seq_no_, refVars, wait, taskVars, otherVars>>
    BY Zenon DEF HandlerReturns
  <1>2. /\ k \in Threads /\ k \notin Clients /\ task[k] = "RUN" /\ timer_[k] /\ ~task_cancel_[k]
        /\ timer_task_ = k
    <2>1. k \in Threads /\ k \notin Clients /\ task[k] = "RUN" /\ timer_[k] /\ ~task_cancel_[k]
      BY <1>1, ConfigAssumption, Zenon DEF Threads, ThreadsConsistent, RefcountExact, UsersHold
    <2> QED BY <1>1, <2>1, Zenon DEF Pending, OneTask
  <1>3. TypeOK'
    BY <1>0, <1>1, <1>2, Zenon DEF TypeOK
  <1>4. \A i \in Tasks : ~Pending(i)' /\ pc'[i] # "handler"
    <2>1. \A i \in Tasks \ {k} : ~Pending(i)
      BY <1>2, Zenon DEF OneTask
    <2> QED BY <1>0, <1>1, <1>2, <2>1 DEF Pending, ThreadsConsistent, TypeOK
  <1>5. \A r \in SeqNo : r = seq_no_ => wait[r] = "none"
    BY <1>2, ConfigAssumption, Zenon DEF StartsConsistent
  <1>6. OneTask'
    BY <1>1, <1>4, <1>5, ConfigAssumption, Zenon DEF OneTask, Expected
  <1>7. seq_no_' + Cardinality(Restarting') <= MaxStarts
    <2>1. CASE l = "restart"
      <3>1. Restarting' = Restarting \cup {k} /\ k \notin Restarting
        BY <1>0, <1>1, <1>2, <2>1, Zenon DEF Restarting, TypeOK, Threads
      <3>2. Cardinality(Restarting') = Cardinality(Restarting) + 1
        BY <3>1, Finite, Count, Zenon DEF CountsFinite
      <3> QED BY <1>0, <1>1, <2>1, <3>2, Finite, ConfigAssumption
                 DEF MayStart, CountsFinite, TypeOK
    <2>2. CASE l # "restart"
      <3>1. Restarting' = Restarting
        BY <1>0, <1>1, <1>2, <2>2, Zenon DEF Restarting, TypeOK, Threads
      <3> QED BY <1>1, <3>1, Zenon DEF ThreadsConsistent
    <2> QED BY <2>1, <2>2, Zenon
  <1>8. ThreadsConsistent' /\ NoCallUnderSchedulerMutex'
    BY <1>0, <1>1, <1>2, <1>7, Zenon
       DEF ThreadsConsistent, NoCallUnderSchedulerMutex, TypeOK, Threads
  <1>9. StartsConsistent'
    BY <1>1, <1>5, Zenon DEF StartsConsistent
  <1>10. RefcountExact'
    <2>1. Waits' = Waits /\ Holders' = Holders /\ UsersHold'
      BY <1>0, <1>1, <1>2 DEF Waits, Holders, RefcountExact, UsersHold, TypeOK
    <2> QED BY <1>1, <2>1, Zenon DEF RefcountExact
  <1> QED BY <1>3, <1>6, <1>8, <1>9, <1>10, Zenon

\* The task made room for its Start when its handler returned.
LEMMA RestartInv ==
  ASSUME Counting, State, NEW k \in Tasks, Restart(k)
  PROVE  State'
  <1> SUFFICES ASSUME TimerState PROVE TimerState'
    BY Zenon DEF State
  <1> USE DEF TimerState
  <1>0. pc[k] = "restart" /\ pc' = [pc EXCEPT ![k] = "exit"] /\ Start
        /\ UNCHANGED <<timer_ref_, taskVars, otherVars>> /\ k \in Threads
    BY Zenon DEF Restart, Goto, Threads
  <1>1. Restarting' = Restarting \ {k} /\ k \in Restarting
    BY <1>0, Zenon DEF Restarting, TypeOK, Threads
  <1>2. Cardinality(Restarting') = Cardinality(Restarting) - 1
    BY <1>1, Finite, Count, Zenon DEF CountsFinite
  <1>3. Cardinality(Restarting) > 0
    BY <1>1, Finite, Count DEF CountsFinite
  <1>4. seq_no_ < MaxStarts
    BY <1>3, Finite, ConfigAssumption DEF ThreadsConsistent, CountsFinite, TypeOK
  <1>5. seq_no_' + Cardinality(Restarting') <= MaxStarts
    BY <1>0, <1>2, Finite, ConfigAssumption
       DEF ThreadsConsistent, CountsFinite, TypeOK, Start, timerVars
  <1>6. k \in Holders
    BY <1>0, Zenon DEF Holders, RefcountExact, UsersHold
  <1>7. /\ pc' \in [Threads -> {"idle", "run", "handler", "restart", "exit", "delete",
                                "cancel", "erase"}]
        /\ \A t \in Threads : pc'[t] = pc[t] \/ (pc[t] = "restart" /\ pc'[t] = "exit")
    BY <1>0, Zenon DEF TypeOK
  <1> QED BY <1>0, <1>4, <1>5, <1>6, <1>7, StartInv, Zenon DEF State

\* OnTaskExit: the task is idle again and holds nothing.
LEMMA OnTaskExitInv ==
  ASSUME Counting, State, NEW k \in Tasks, OnTaskExit(k)
  PROVE  State'
  <1> SUFFICES ASSUME TimerState PROVE TimerState'
    BY Zenon DEF State
  <1> USE DEF TimerState, Goto, otherVars
  <1>0. /\ pc[k] = "exit" /\ pc' = [pc EXCEPT ![k] = "idle"]
        /\ task' = [task EXCEPT ![k] = "none"]
        /\ timer_' = [timer_ EXCEPT ![k] = FALSE]
        /\ Ref(IF timer_[k] THEN -1 ELSE 0)
        /\ UNCHANGED <<timer_ref_, wait, task_cancel_, seqOf, otherVars>>
        /\ UNCHANGED timerVars
    BY Zenon DEF OnTaskExit, NoCallUnderSchedulerMutex
  <1> USE DEF timerVars
  <1>1. k \in Threads /\ k \notin Clients /\ task[k] = "RUN" /\ ~Pending(k)
    BY <1>0, ConfigAssumption, Zenon DEF Threads, ThreadsConsistent, Pending
  <1>2. timer_[k] => refcount_ > 0 /\ RefTotal # 0
    BY RefTotalPositive DEF RefcountExact, RefTotal, Holders
  <1>3. TypeOK'
    <2>1. refcount_' \in Nat /\ freed' \in BOOLEAN
      BY <1>0, <1>2 DEF Ref, TypeOK
    <2>2. /\ pc' \in [Threads -> {"idle", "run", "handler", "restart", "exit", "delete",
                                  "cancel", "erase"}]
          /\ timer_' \in [Tasks -> BOOLEAN] /\ task' \in [Tasks -> {"none", "WAIT", "RUN"}]
      BY <1>0, <1>1, Zenon DEF TypeOK
    <2> QED BY <1>0, <2>1, <2>2, Zenon DEF TypeOK
  <1>4. \A i \in Tasks : Pending(i)' <=> Pending(i)
    BY <1>0, <1>1 DEF Pending, TypeOK
  <1>5. OneTask'
    BY <1>0, <1>1, <1>4 DEF OneTask, Expected, TypeOK
  <1>6. Restarting' = Restarting
    BY <1>0, <1>1 DEF Restarting, TypeOK
  <1>7. ThreadsConsistent' /\ UsersHold' /\ NoCallUnderSchedulerMutex'
    BY <1>0, <1>1, <1>6, Zenon
       DEF ThreadsConsistent, RefcountExact, UsersHold, NoCallUnderSchedulerMutex, TypeOK,
           Threads
  <1>8. StartsConsistent'
    BY <1>0, Zenon DEF StartsConsistent
  <1>9. RefTotal' = RefTotal + (IF timer_[k] THEN -1 ELSE 0)
    <2>1. Holders' = Holders \ {k} /\ (k \in Holders <=> timer_[k])
      BY <1>0, Zenon DEF Holders, TypeOK
    <2>2. Cardinality(Holders') = IF k \in Holders THEN Cardinality(Holders) - 1 ELSE Cardinality(Holders)
      <3>1. CASE k \in Holders
        BY <2>1, <3>1, Finite, Count, Zenon DEF CountsFinite
      <3>2. CASE k \notin Holders
        <4>1. Holders' = Holders
          BY <2>1, <3>2, Zenon
        <4> QED BY <3>2, <4>1, Zenon
      <3> QED BY <3>1, <3>2, Zenon
    <2>3. Cardinality(Holders') = Cardinality(Holders) + (IF timer_[k] THEN -1 ELSE 0)
      BY <2>1, <2>2, Finite DEF CountsFinite
    <2> QED BY <1>0, <2>3, Finite DEF RefTotal, CountsFinite, Waits
  <1>10. RefcountExact'
    BY <1>0, <1>2, <1>3, <1>5, <1>7, <1>8, <1>9, RefInv
  <1> QED BY <1>3, <1>5, <1>7, <1>8, <1>10, Zenon

-----------------------------------------------------------------------------
(* DeleteTimer, and the steps of the clients.                              *)

\* A step that only moves a thread, between labels at which it is not pending.
LEMMA MoveInv ==
  ASSUME Counting, State, UNCHANGED <<timerVars, refVars, wait, taskVars, otherVars>>,
         NEW t \in Threads, NEW l \in {"idle", "exit", "delete", "cancel", "erase"},
         pc' = [pc EXCEPT ![t] = l], pc[t] \in {"idle", "delete", "cancel"},
         t \in Tasks => l # "idle" /\ pc[t] # "idle",
         t \in Clients => l # "exit"
  PROVE  State'
  <1> SUFFICES ASSUME TimerState PROVE TimerState'
    BY Zenon DEF State
  <1> USE DEF TimerState, timerVars, refVars, taskVars, otherVars
  <1>0. \A i \in Threads : pc'[i] = IF i = t THEN l ELSE pc[i]
    BY Zenon DEF TypeOK
  <1>1. TypeOK'
    BY Zenon DEF TypeOK
  <1>2. \A i \in Tasks : Pending(i)' <=> Pending(i)
    BY <1>0, Zenon DEF Pending, Threads
  <1>3. OneTask'
    BY <1>0, <1>2, Zenon DEF OneTask, Expected, Threads
  <1>4. Restarting' = Restarting
    BY <1>0, Zenon DEF Restarting, Threads
  <1>5. ThreadsConsistent'
    BY <1>0, <1>4 DEF ThreadsConsistent, Threads
  <1>6. StartsConsistent'
    BY Zenon DEF StartsConsistent
  <1>7. RefcountExact' /\ NoCallUnderSchedulerMutex'
    BY <1>0
       DEF RefcountExact, UsersHold, NoCallUnderSchedulerMutex, ThreadsConsistent, Waits,
           Holders, Threads
  <1> QED BY <1>1, <1>3, <1>5, <1>6, <1>7, Zenon

\* The first section of DeleteTimer, and the second when the timer has fired.
LEMMA DeleteMoveInv ==
  ASSUME Counting, State, NEW t \in Threads,
         DeleteTimer(t) \/ (DeleteCancel(t) /\ state_ = "Fired")
  PROVE  State'
  <1> SUFFICES ASSUME TimerState PROVE TimerState'
    BY Zenon DEF State
  <1>1. t \in Tasks <=> t \notin Clients
    BY ConfigAssumption, Zenon DEF Threads
  <1>2. PICK l \in {"idle", "exit", "cancel", "erase"} :
          pc' = [pc EXCEPT ![t] = l] /\ (t \in Tasks => l # "idle") /\ (t \in Clients => l # "exit")
    BY <1>1, Zenon DEF DeleteTimer, DeleteCancel, Cancel, Goto, After
  <1>3. /\ pc[t] \in {"delete", "cancel"}
        /\ UNCHANGED <<timerVars, refVars, wait, taskVars, otherVars>>
    BY Zenon DEF DeleteTimer, DeleteCancel, Cancel
  <1> QED BY <1>2, <1>3, MoveInv, Zenon DEF State

LEMMA DeleteCancelInv ==
  ASSUME Counting, State, NEW t \in Threads, DeleteCancel(t), state_ # "Fired"
  PROVE  State'
  <1> SUFFICES ASSUME TimerState PROVE TimerState'
    BY Zenon DEF State
  <1>1. Cancel /\ UNCHANGED <<timer_ref_, wait, seqOf, delete_on_completion_, deleted>>
    BY Zenon DEF DeleteCancel
  <1>2. pc[t] = "cancel" /\ pc' = [pc EXCEPT ![t] = "erase"]
    BY Zenon DEF DeleteCancel, Goto
  <1>3. /\ pc' \in [Threads -> {"idle", "run", "handler", "restart", "exit", "delete",
                                "cancel", "erase"}]
        /\ \A i \in Threads : pc'[i] = pc[i] \/ (pc[i] = "cancel" /\ pc'[i] = "erase")
    BY <1>2, Zenon DEF TimerState, TypeOK
  <1> QED BY <1>1, <1>3, CancelInv, Zenon DEF State

\* TimerManager drops its reference, once.
LEMMA DeleteEraseInv ==
  ASSUME Counting, State, NEW t \in Threads, DeleteErase(t)
  PROVE  State'
  <1> SUFFICES ASSUME TimerState PROVE TimerState'
    BY Zenon DEF State
  <1> USE DEF TimerState, timerVars, taskVars
  <1>0. PICK l \in {"idle", "exit"} :
          /\ pc' = [pc EXCEPT ![t] = l]
          /\ t \in Tasks => l = "exit"
          /\ t \in Clients => l = "idle"
    BY ConfigAssumption, Zenon DEF DeleteErase, Goto, After
  <1>1. /\ pc[t] = "erase" /\ timer_ref_' = FALSE /\ deleted' = TRUE
        /\ Ref(IF timer_ref_ THEN -1 ELSE 0)
        /\ UNCHANGED <<timerVars, wait, taskVars, delete_on_completion_, cancelled>>
    BY Zenon DEF DeleteErase
  <1>2. \A i \in Threads : pc'[i] = IF i = t THEN l ELSE pc[i]
    BY <1>0, Zenon DEF TypeOK
  <1>3. timer_ref_ => refcount_ > 0 /\ RefTotal # 0
    BY RefTotalPositive DEF RefcountExact, RefTotal
  <1>4. TypeOK'
    <2>1. refcount_' \in Nat /\ freed' \in BOOLEAN
      BY <1>1, <1>3 DEF Ref, TypeOK
    <2>2. pc' \in [Threads -> {"idle", "run", "handler", "restart", "exit", "delete",
                               "cancel", "erase"}]
      BY <1>0, Zenon DEF TypeOK
    <2> QED BY <1>1, <2>1, <2>2, Zenon DEF TypeOK
  <1>5. \A i \in Tasks : Pending(i)' <=> Pending(i)
    BY <1>1, <1>2, Zenon DEF Pending, Threads
  <1>6. OneTask'
    BY <1>1, <1>2, <1>5, Zenon DEF OneTask, Expected, Threads
  <1>7. Restarting' = Restarting
    BY <1>1, <1>2, Zenon DEF Restarting, Threads
  <1>8. ThreadsConsistent' /\ UsersHold' /\ NoCallUnderSchedulerMutex'
    BY <1>0, <1>1, <1>2, <1>7
       DEF ThreadsConsistent, RefcountExact, UsersHold, NoCallUnderSchedulerMutex, Threads
  <1>9. StartsConsistent'
    BY <1>1, Zenon DEF StartsConsistent
  <1>10. RefTotal' = RefTotal + (IF timer_ref_ THEN -1 ELSE 0)
    BY <1>1, Finite DEF RefTotal, CountsFinite, Waits, Holders
  <1>11. RefcountExact'
    BY <1>1, <1>3, <1>4, <1>6, <1>8, <1>9, <1>10, RefInv
  <1> QED BY <1>4, <1>6, <1>8, <1>9, <1>11, Zenon

LEMMA ClientInv ==
  ASSUME Counting, State, NEW c \in Clients, ClientStart(c) \/ ClientCancel(c) \/ ClientDelete(c)
  PROVE  State'
  <1> SUFFICES ASSUME TimerState PROVE TimerState'
    BY Zenon DEF State
  <1>0. c \in Threads /\ c \notin Tasks
    BY ConfigAssumption, Zenon DEF Threads
  <1>1. CASE ClientStart(c)
    <2>1. /\ Start /\ timer_ref_ /\ pc' = pc
          /\ UNCHANGED <<timer_ref_, taskVars, otherVars>>
      BY <1>1, Zenon DEF ClientStart, MayUse
    <2>2. seq_no_ < MaxStarts /\ seq_no_' + Cardinality(Restarting') <= MaxStarts
      <3>1. Restarting' = Restarting
        BY <2>1, Zenon DEF Restarting
      <3>2. seq_no_ + Cardinality(Restarting) < MaxStarts
        BY <1>1, Zenon DEF ClientStart, MayStart
      <3> QED BY <2>1, <3>1, <3>2, Finite, ConfigAssumption
                 DEF CountsFinite, TimerState, TypeOK, Start, timerVars
    <2>3. pc' \in [Threads -> {"idle", "run", "handler", "restart", "exit", "delete",
                               "cancel", "erase"}]
      BY <2>1, Zenon DEF TimerState, TypeOK
    <2> QED BY <2>1, <2>2, <2>3, StartInv, Zenon DEF State
  <1>2. CASE ClientCancel(c)
    <2>1. /\ Cancel /\ pc' = pc
          /\ UNCHANGED <<timer_ref_, wait, seqOf, delete_on_completion_, deleted>>
      BY <1>2, Zenon DEF ClientCancel
    <2>2. pc' \in [Threads -> {"idle", "run", "handler", "restart", "exit", "delete",
                               "cancel", "erase"}]
      BY <2>1, Zenon DEF TimerState, TypeOK
    <2> QED BY <2>1, <2>2, CancelInv, Zenon DEF State
  <1>3. CASE ClientDelete(c)
    <2>1. /\ pc[c] = "idle" /\ pc' = [pc EXCEPT ![c] = "delete"]
          /\ UNCHANGED <<timerVars, refVars, wait, taskVars, otherVars>>
      BY <1>3, Zenon DEF ClientDelete, MayUse, Goto
    <2> QED BY <1>0, <2>1, MoveInv, Zenon DEF State
  <1> QED BY <1>1, <1>2, <1>3, Zenon

-----------------------------------------------------------------------------
(* The theorems.                                                           *)

LEMMA InitInv == ASSUME Counting PROVE Init => TimerState
  <1> SUFFICES ASSUME Init PROVE TimerState
    BY Zenon
  <1> USE DEF Init
  <1>1. TypeOK
    <2>1. 0 \in 0 .. MaxStarts /\ 1 \in Nat
      BY ConfigAssumption
    <2> QED BY <2>1, Zenon DEF TypeOK
  <1>2. OneTask
    BY ConfigAssumption, Zenon DEF OneTask, Pending, Threads, SeqNo
  <1>3. Waits = {} /\ Holders = {} /\ Restarting = {}
    BY Zenon DEF Waits, Holders, Restarting, Threads
  <1>4. RefcountExact
    BY <1>3, EmptyCount DEF RefcountExact, UsersHold, Threads
  <1>5. ThreadsConsistent /\ NoCallUnderSchedulerMutex
    BY <1>3, EmptyCount, ConfigAssumption
       DEF ThreadsConsistent, NoCallUnderSchedulerMutex, Threads
  <1>6. StartsConsistent
    BY Zenon DEF StartsConsistent, SeqNo
  <1> QED BY <1>1, <1>2, <1>4, <1>5, <1>6, Zenon DEF TimerState

LEMMA NextInv ==
  ASSUME Counting
  PROVE  TimerState /\ [Next]_vars => TimerState'
  <1> SUFFICES ASSUME TimerState, [Next]_vars PROVE TimerState'
    BY Zenon
  <1>1. ASSUME NEW k \in Tasks, TaskStep(k) PROVE TimerState'
    BY <1>1, ScheduleInv, RunCancelledInv, RunFiresInv, HandlerReturnsInv, RestartInv,
       OnTaskExitInv, Zenon DEF State, TaskStep
  <1>2. ASSUME NEW t \in Threads, DeleteStep(t) PROVE TimerState'
    BY <1>2, DeleteMoveInv, DeleteCancelInv, DeleteEraseInv, Zenon DEF State, DeleteStep
  <1>3. CASE UNCHANGED vars
    BY <1>3
       DEF vars, timerVars, refVars, taskVars, otherVars, TimerState, TypeOK, OneTask, Pending,
           Expected, RefcountExact, UsersHold, Waits, Holders, Restarting,
           NoCallUnderSchedulerMutex, ThreadsConsistent, StartsConsistent
  <1> QED BY <1>1, <1>2, <1>3, ClientInv, ExpireInv, StartTimerTaskInv, Zenon DEF State, Next

LEMMA StateServesNoCancelled ==
  ASSUME Counting
  PROVE  TimerState => CancelledNotServed
  <1> SUFFICES ASSUME TimerState, NEW k \in Tasks, pc[k] = "handler"
               PROVE  seqOf[k] \notin cancelled
    BY Zenon DEF CancelledNotServed
  <1>1. Pending(k)
    BY Zenon DEF TimerState, ThreadsConsistent, Pending
  <1>2. seqOf[k] = seq_no_ /\ state_ = "Fired"
    BY <1>1, Zenon DEF TimerState, OneTask
  <1> QED BY <1>2, Zenon DEF TimerState, StartsConsistent

-----------------------------------------------------------------------------
(* The lock of ZooKeeper, for every set of hosts and every pattern of      *)
(* crashes, errors and lost answers.                                       *)

LEMMA LockInitInv == LockInit => LockInv
  <1>. SUFFICES ASSUME LockInit PROVE LockInv BY Zenon
  <1>1. crashes \in 0 .. MaxCrashes BY LockAssumption DEF LockInit
  <1>2. LockTypeOK BY <1>1, Zenon DEF LockInit, LockTypeOK
  <1>3. \A h \in Hosts : ~is_acquired_[h] /\ host[h] # "delete" BY Zenon DEF LockInit
  <1>. QED BY <1>2, <1>3, Zenon DEF LockInv, HolderOwnsNode

LEMMA LockCreateInv ==
  ASSUME LockInv, NEW h \in Hosts, CreateNodeSync(h)
  PROVE  LockInv'
  <1>. USE LockAssumption DEF LockInv, LockTypeOK, HolderOwnsNode, CreateNodeSync, Acquire, Retry,
              Fail, At
  <1>1. LockTypeOK' BY Zenon
  <1>2. ASSUME ~overrun' PROVE HolderOwnsNode'
    <2>. ~overrun BY <1>2, Zenon
    <2>. QED OBVIOUS
  <1>3. ASSUME ~overrun', NEW g \in Hosts, host'[g] = "delete"
        PROVE  znode' = g /\ ~is_acquired_'[g]
    BY <1>3, Zenon
  <1>. QED BY <1>1, <1>2, <1>3, Zenon

LEMMA LockGetInv ==
  ASSUME LockInv, NEW h \in Hosts, GetNodeDataSync(h)
  PROVE  LockInv'
  <1>. USE DEF LockInv, LockTypeOK, HolderOwnsNode, GetNodeDataSync, Acquire, Fail, At
  <1>1. LockTypeOK' BY Zenon
  <1>2. ASSUME ~overrun' PROVE HolderOwnsNode'
    <2>. ~overrun BY <1>2, Zenon
    <2>. QED OBVIOUS
  <1>3. ASSUME ~overrun', NEW g \in Hosts, host'[g] = "delete"
        PROVE  znode' = g /\ ~is_acquired_'[g]
    BY <1>3, Zenon
  <1>. QED BY <1>1, <1>2, <1>3, Zenon

\* Until an overrun the host that deletes the znode owns it, so no other host holds
\* the lock or is about to delete the znode.
LEMMA LockDeleteInv ==
  ASSUME LockInv, NEW h \in Hosts, DeleteNodeSync(h)
  PROVE  LockInv'
  <1>. USE LockAssumption DEF LockInv, LockTypeOK, HolderOwnsNode, DeleteNodeSync, Retry, Fail, At
  <1>1. LockTypeOK' BY Zenon
  <1>2. ASSUME ~overrun' PROVE \A g \in Hosts : ~is_acquired_[g] BY <1>2, Zenon
  <1>3. ASSUME ~overrun' PROVE HolderOwnsNode' BY <1>2, <1>3, Zenon
  <1>4. ASSUME ~overrun', NEW g \in Hosts, host'[g] = "delete"
        PROVE  znode' = g /\ ~is_acquired_'[g]
    BY <1>4, Zenon
  <1>. QED BY <1>1, <1>3, <1>4, Zenon

\* A repeated delete that is no overrun finds no znode, or leaves it.
LEMMA LockRepeatInv ==
  ASSUME LockInv, NEW h \in Hosts, RepeatDeleteNodeSync(h)
  PROVE  LockInv'
  <1>. USE LockAssumption DEF LockInv, LockTypeOK, HolderOwnsNode, RepeatDeleteNodeSync, Retry,
              Fail, At
  <1>1. LockTypeOK' BY Zenon
  <1>2. ASSUME ~overrun' PROVE ~overrun /\ znode' = znode BY <1>2, Zenon
  <1>3. ASSUME ~overrun' PROVE HolderOwnsNode' BY <1>2, <1>3, Zenon
  <1>4. ASSUME ~overrun', NEW g \in Hosts, host'[g] = "delete"
        PROVE  znode' = g /\ ~is_acquired_'[g]
    BY <1>2, <1>4, Zenon
  <1>. QED BY <1>1, <1>3, <1>4, Zenon

LEMMA LockCallInv ==
  ASSUME LockInv, NEW h \in Hosts, Lock(h) \/ Release(h) \/ Crash(h)
  PROVE  LockInv'
  <1>. USE LockAssumption DEF LockInv, LockTypeOK, HolderOwnsNode, Lock, Release, Crash, At
  <1>1. LockTypeOK'
    <2>1. crashes' \in 0 .. MaxCrashes OBVIOUS
    <2>2. is_acquired_' \in [Hosts -> BOOLEAN] BY Zenon
    <2>3. host' \in [Hosts -> {"idle", "create", "get", "delete", "redelete"}] BY Zenon
    <2>4. znode' \in Hosts \cup {NoNode} /\ overrun' \in BOOLEAN BY Zenon
    <2>. QED BY <2>1, <2>2, <2>3, <2>4, Zenon
  <1>2. ASSUME ~overrun' PROVE HolderOwnsNode'
    <2>. ~overrun BY <1>2, Zenon
    <2>. QED OBVIOUS
  <1>3. ASSUME ~overrun', NEW g \in Hosts, host'[g] = "delete"
        PROVE  znode' = g /\ ~is_acquired_'[g]
    BY <1>3, Zenon
  <1>. QED BY <1>1, <1>2, <1>3, Zenon

LEMMA LockNextInv == LockInv /\ [LockNext]_lockVars => LockInv'
  <1>. SUFFICES ASSUME LockInv, [LockNext]_lockVars PROVE LockInv' BY Zenon
  <1>1. CASE UNCHANGED lockVars
    BY <1>1, Zenon DEF lockVars, LockInv, LockTypeOK, HolderOwnsNode
  <1>2. ASSUME NEW h \in Hosts, Lock(h) \/ Release(h) \/ LockStep(h) \/ Crash(h)
        PROVE  LockInv'
    BY <1>2, LockCreateInv, LockGetInv, LockDeleteInv, LockRepeatInv, LockCallInv, Zenon
       DEF LockStep
  <1>. QED BY <1>1, <1>2, Zenon DEF LockNext

\* LockInv holds whatever answers are lost: until the delete that Release() sends
\* again removes the znode of another host, holders own the znode.
THEOREM LockInvariance == LockSpec => []LockInv
  BY LockInitInv, LockNextInv, PTL DEF LockSpec

\* Two hosts hold the lock at once, for any number of hosts, crashes, errors and
\* lost answers, only after a repeated delete has removed the znode of another.
THEOREM LockExclusive == LockSpec => []ExclusiveUnlessOverrun
  <1>1. LockInv => ExclusiveUnlessOverrun
    BY LockAssumption, Zenon DEF LockInv, HolderOwnsNode, Exclusive, ExclusiveUnlessOverrun
  <1>. QED BY LockInvariance, <1>1, PTL

-----------------------------------------------------------------------------
(* The lifetimes of objects, for every acyclic graph of actors.            *)

LifeState == LifeInv

\* The references are acyclic, so no actor refers to itself.
LEMMA NoSelfParent == \A a \in Actors : a \notin Parents[a]
<1>1. PICK r \in [Actors -> 0 .. Cardinality(Actors)] : Ancestry(r)
  BY LifeAssumption, Zenon
<1>2. ASSUME NEW a \in Actors, a \in Parents[a] PROVE FALSE
  <2>1. r[a] < r[a]
    BY <1>1, <1>2, Zenon DEF Ancestry
  <2>2. r[a] \in 0 .. Cardinality(Actors)
    BY <1>1, Zenon
  <2>. QED
    BY <2>1, <2>2
<1>. QED
  BY <1>2, Zenon

LEMMA LifeInitInv == LifeInit => LifeInv
<1>. SUFFICES ASSUME LifeInit PROVE LifeInv
  BY Zenon
<1>. USE LifeAssumption DEF LifeInit
<1>1. LifeTypeOK
  BY Zenon DEF LifeTypeOK
<1>2. EventsCounted
  BY DEF EventsCounted
<1>3. AbsentClean /\ DependentsExact
  BY Zenon DEF AbsentClean, DependentsExact
<1>4. ExecutorState /\ EventsOfDeleted
  BY DEF ExecutorState, EventsOfDeleted
<1>5. DestroyedUnreferenced /\ BottomUp /\ NoLostDelete
  BY Zenon DEF DestroyedUnreferenced, BottomUp, NoLostDelete
<1>. QED
  BY <1>1, <1>2, <1>3, <1>4, <1>5, Zenon DEF LifeInv


\* LifeInv is kept by a new object.
LEMMA LifeDependencyAddInv ==
  ASSUME LifeState, NEW a \in Actors, DependencyAdd(a)
  PROVE  LifeState'
<1>. SUFFICES ASSUME LifeInv PROVE LifeInv'
  BY Zenon DEF LifeState
<1>. USE NoSelfParent, LifeAssumption DEF LifeInv, LifeTypeOK, DependencyAdd, execVars
<1>1. LifeTypeOK'
  BY Zenon DEF EventsCounted, ExecutorState
<1>2. EventsCounted'
  BY Zenon DEF EventsCounted, ExecutorState
<1>3. AbsentClean'
  BY DEF AbsentClean, BottomUp, DependentsExact, ExecutorState
<1>4. DependentsExact'
  BY DEF DependentsExact, ExecutorState, AbsentClean
<1>5. ExecutorState'
  BY DEF ExecutorState, EventsOfDeleted, DestroyedUnreferenced, AbsentClean, DependentsExact
<1>6. EventsOfDeleted'
  BY Zenon DEF EventsOfDeleted, ExecutorState
<1>7. DestroyedUnreferenced'
  BY DEF DestroyedUnreferenced, EventsCounted, ExecutorState, AbsentClean, EventsOfDeleted,
         BottomUp
<1>8. BottomUp'
  <2>. SUFFICES ASSUME NEW b \in Actors, NEW p \in Parents[b]
                PROVE  /\ status'[b] = "alive" => status'[p] = "alive"
                       /\ shutdown_invoked_'[p] /\ status'[b] # "absent" => deleted_'[b]
    BY Zenon DEF BottomUp
  <2>1. p \in Actors
    BY Zenon
  <2>2. CASE b = a
    BY <2>1, <2>2, Zenon DEF BottomUp, EventsOfDeleted
  <2>3. CASE b # a
    BY <2>1, <2>3 DEF BottomUp, EventsOfDeleted, AbsentClean
  <2>. QED
    BY <2>2, <2>3, Zenon
<1>9. NoLostDelete'
  BY Zenon DEF NoLostDelete, AbsentClean, ExecutorState, EventsCounted
<1>. QED
  BY <1>1, <1>2, <1>3, <1>4, <1>5, <1>6, <1>7, <1>8, <1>9, Zenon DEF LifeInv

\* LifeInv is kept by Delete().
LEMMA LifeDeleteInv ==
  ASSUME LifeState, NEW a \in Actors, Delete(a)
  PROVE  LifeState'
<1>. SUFFICES ASSUME LifeInv PROVE LifeInv'
  BY Zenon DEF LifeState
<1>. USE NoSelfParent, LifeAssumption DEF LifeInv, LifeTypeOK, Delete, EnqueueEvents, execVars
<1>1. LifeTypeOK'
  BY DEF EventsCounted, ExecutorState
<1>2. EventsCounted'
  BY DEF EventsCounted, ExecutorState
<1>3. AbsentClean'
  BY DEF AbsentClean, BottomUp, DependentsExact, ExecutorState
<1>4. DependentsExact'
  BY Zenon DEF DependentsExact, ExecutorState, AbsentClean
<1>5. ExecutorState'
  BY DEF ExecutorState, EventsOfDeleted, DestroyedUnreferenced, AbsentClean, DependentsExact
<1>6. EventsOfDeleted'
  BY Zenon DEF EventsOfDeleted, ExecutorState
<1>7. DestroyedUnreferenced'
  BY DEF DestroyedUnreferenced, EventsCounted, ExecutorState, AbsentClean, EventsOfDeleted,
         BottomUp
<1>8. BottomUp'
  BY DEF BottomUp, DependentsExact, ExecutorState, AbsentClean, DestroyedUnreferenced,
         EventsOfDeleted
<1>9. NoLostDelete'
  BY DEF NoLostDelete, AbsentClean, ExecutorState, EventsCounted
<1>. QED
  BY <1>1, <1>2, <1>3, <1>4, <1>5, <1>6, <1>7, <1>8, <1>9, Zenon DEF LifeInv

\* LifeInv is kept by a new lightweight dependent.
LEMMA LifeUseInv ==
  ASSUME LifeState, NEW a \in Actors, Use(a)
  PROVE  LifeState'
<1>. SUFFICES ASSUME LifeInv PROVE LifeInv'
  BY Zenon DEF LifeState
<1>. USE NoSelfParent, LifeAssumption DEF LifeInv, LifeTypeOK, Use, actorVars, execVars
<1>1. LifeTypeOK'
  BY Zenon DEF EventsCounted, ExecutorState
<1>2. EventsCounted'
  BY Zenon DEF EventsCounted, ExecutorState
<1>3. AbsentClean'
  BY Zenon DEF AbsentClean, BottomUp, DependentsExact, ExecutorState
<1>4. DependentsExact'
  BY Zenon DEF DependentsExact, ExecutorState, AbsentClean
<1>5. ExecutorState'
  BY Zenon
     DEF ExecutorState, EventsOfDeleted, DestroyedUnreferenced, AbsentClean, DependentsExact
<1>6. EventsOfDeleted'
  BY Zenon DEF EventsOfDeleted, ExecutorState
<1>7. DestroyedUnreferenced'
  BY Zenon
     DEF DestroyedUnreferenced, EventsCounted, ExecutorState, AbsentClean, EventsOfDeleted,
         BottomUp
<1>8. BottomUp'
  BY Zenon
     DEF BottomUp, DependentsExact, ExecutorState, AbsentClean, DestroyedUnreferenced,
         EventsOfDeleted
<1>9. NoLostDelete'
  BY Zenon DEF NoLostDelete, AbsentClean, ExecutorState, EventsCounted
<1>. QED
  BY <1>1, <1>2, <1>3, <1>4, <1>5, <1>6, <1>7, <1>8, <1>9, Zenon DEF LifeInv

\* LifeInv is kept by the end of a lightweight dependent.
LEMMA LifeReleaseInv ==
  ASSUME LifeState, NEW a \in Actors, EndUse(a)
  PROVE  LifeState'
<1>. SUFFICES ASSUME LifeInv PROVE LifeInv'
  BY Zenon DEF LifeState
<1>. USE NoSelfParent, LifeAssumption DEF LifeInv, LifeTypeOK, EndUse, EnqueueEvents,
            actorVars, execVars
<1>1. LifeTypeOK'
  BY DEF EventsCounted, ExecutorState
<1>2. EventsCounted'
  BY DEF EventsCounted, ExecutorState
<1>3. AbsentClean'
  BY Zenon DEF AbsentClean, BottomUp, DependentsExact, ExecutorState
<1>4. DependentsExact'
  BY Zenon DEF DependentsExact, ExecutorState, AbsentClean
<1>5. ExecutorState'
  BY Zenon
     DEF ExecutorState, EventsOfDeleted, DestroyedUnreferenced, AbsentClean, DependentsExact
<1>6. EventsOfDeleted'
  BY Zenon DEF EventsOfDeleted, ExecutorState
<1>7. DestroyedUnreferenced'
  BY DEF DestroyedUnreferenced, EventsCounted, ExecutorState, AbsentClean, EventsOfDeleted,
         BottomUp
<1>8. BottomUp'
  BY Zenon
     DEF BottomUp, DependentsExact, ExecutorState, AbsentClean, DestroyedUnreferenced,
         EventsOfDeleted
<1>9. NoLostDelete'
  BY DEF NoLostDelete, AbsentClean, ExecutorState, EventsCounted
<1>. QED
  BY <1>1, <1>2, <1>3, <1>4, <1>5, <1>6, <1>7, <1>8, <1>9, Zenon DEF LifeInv

\* LifeInv is kept by RetryDelete().
LEMMA LifeRetryDeleteInv ==
  ASSUME LifeState, NEW a \in Actors, RetryDelete(a)
  PROVE  LifeState'
<1>. SUFFICES ASSUME LifeInv PROVE LifeInv'
  BY Zenon DEF LifeState
<1>. USE NoSelfParent, LifeAssumption DEF LifeInv, LifeTypeOK, RetryDelete, EnqueueEvents,
            actorVars, execVars
<1>1. LifeTypeOK'
  BY DEF EventsCounted, ExecutorState
<1>2. EventsCounted'
  BY DEF EventsCounted, ExecutorState
<1>3. AbsentClean'
  BY Zenon DEF AbsentClean, BottomUp, DependentsExact, ExecutorState
<1>4. DependentsExact'
  BY Zenon DEF DependentsExact, ExecutorState, AbsentClean
<1>5. ExecutorState'
  BY Zenon
     DEF ExecutorState, EventsOfDeleted, DestroyedUnreferenced, AbsentClean, DependentsExact
<1>6. EventsOfDeleted'
  BY Zenon DEF EventsOfDeleted, ExecutorState
<1>7. DestroyedUnreferenced'
  BY Zenon
     DEF DestroyedUnreferenced, EventsCounted, ExecutorState, AbsentClean, EventsOfDeleted,
         BottomUp
<1>8. BottomUp'
  BY Zenon
     DEF BottomUp, DependentsExact, ExecutorState, AbsentClean, DestroyedUnreferenced,
         EventsOfDeleted
<1>9. NoLostDelete'
  BY Zenon DEF NoLostDelete, AbsentClean, ExecutorState, EventsCounted
<1>. QED
  BY <1>1, <1>2, <1>3, <1>4, <1>5, <1>6, <1>7, <1>8, <1>9, Zenon DEF LifeInv

\* LifeInv is kept by PauseDelete().
LEMMA LifePauseDeleteInv ==
  ASSUME LifeState, NEW a \in Actors, PauseDelete(a)
  PROVE  LifeState'
<1>. SUFFICES ASSUME LifeInv PROVE LifeInv'
  BY Zenon DEF LifeState
<1>. USE NoSelfParent, LifeAssumption DEF LifeInv, LifeTypeOK, PauseDelete, execVars
<1>1. LifeTypeOK'
  BY Zenon DEF EventsCounted, ExecutorState
<1>2. EventsCounted'
  BY Zenon DEF EventsCounted, ExecutorState
<1>3. AbsentClean'
  BY Zenon DEF AbsentClean, BottomUp, DependentsExact, ExecutorState
<1>4. DependentsExact'
  BY Zenon DEF DependentsExact, ExecutorState, AbsentClean
<1>5. ExecutorState'
  BY Zenon
     DEF ExecutorState, EventsOfDeleted, DestroyedUnreferenced, AbsentClean, DependentsExact
<1>6. EventsOfDeleted'
  BY Zenon DEF EventsOfDeleted, ExecutorState
<1>7. DestroyedUnreferenced'
  BY DEF DestroyedUnreferenced, EventsCounted, ExecutorState, AbsentClean, EventsOfDeleted,
         BottomUp
<1>8. BottomUp'
  BY Zenon
     DEF BottomUp, DependentsExact, ExecutorState, AbsentClean, DestroyedUnreferenced,
         EventsOfDeleted
<1>9. NoLostDelete'
  BY Zenon DEF NoLostDelete, AbsentClean, ExecutorState, EventsCounted
<1>. QED
  BY <1>1, <1>2, <1>3, <1>4, <1>5, <1>6, <1>7, <1>8, <1>9, Zenon DEF LifeInv

\* LifeInv is kept by ResumeDelete().
LEMMA LifeResumeDeleteInv ==
  ASSUME LifeState, NEW a \in Actors, ResumeDelete(a)
  PROVE  LifeState'
<1>. SUFFICES ASSUME LifeInv PROVE LifeInv'
  BY Zenon DEF LifeState
<1>. USE NoSelfParent, LifeAssumption DEF LifeInv, LifeTypeOK, ResumeDelete, EnqueueEvents, execVars
<1>1. LifeTypeOK'
  BY DEF EventsCounted, ExecutorState
<1>2. EventsCounted'
  BY DEF EventsCounted, ExecutorState
<1>3. AbsentClean'
  BY Zenon DEF AbsentClean, BottomUp, DependentsExact, ExecutorState
<1>4. DependentsExact'
  BY Zenon DEF DependentsExact, ExecutorState, AbsentClean
<1>5. ExecutorState'
  BY Zenon
     DEF ExecutorState, EventsOfDeleted, DestroyedUnreferenced, AbsentClean, DependentsExact
<1>6. EventsOfDeleted'
  BY Zenon DEF EventsOfDeleted, ExecutorState
<1>7. DestroyedUnreferenced'
  BY Zenon DEF DestroyedUnreferenced
<1>8. BottomUp'
  BY Zenon
     DEF BottomUp, DependentsExact, ExecutorState, AbsentClean, DestroyedUnreferenced,
         EventsOfDeleted
<1>9. NoLostDelete'
  BY DEF NoLostDelete, AbsentClean, ExecutorState, EventsCounted
<1>. QED
  BY <1>1, <1>2, <1>3, <1>4, <1>5, <1>6, <1>7, <1>8, <1>9, Zenon DEF LifeInv

\* LifeInv is kept by the start of DeleteExecutor.
LEMMA LifeDequeueInv ==
  ASSUME LifeState, NEW a \in Actors, Dequeue(a)
  PROVE  LifeState'
<1>. SUFFICES ASSUME LifeInv PROVE LifeInv'
  BY Zenon DEF LifeState
<1>. USE NoSelfParent, LifeAssumption DEF LifeInv, LifeTypeOK, Dequeue, actorVars
<1>1. LifeTypeOK'
  BY DEF EventsCounted, ExecutorState
<1>2. EventsCounted'
  BY DEF EventsCounted, ExecutorState
<1>3. AbsentClean'
  BY DEF AbsentClean, BottomUp, DependentsExact, ExecutorState
<1>4. DependentsExact'
  BY Zenon DEF DependentsExact, ExecutorState, AbsentClean
<1>5. ExecutorState'
  BY DEF ExecutorState, EventsOfDeleted, DestroyedUnreferenced, AbsentClean, DependentsExact
<1>6. EventsOfDeleted'
  BY Zenon DEF EventsOfDeleted, ExecutorState
<1>7. DestroyedUnreferenced'
  BY DEF DestroyedUnreferenced, EventsCounted, ExecutorState, AbsentClean, EventsOfDeleted,
         BottomUp
<1>8. BottomUp'
  BY Zenon
     DEF BottomUp, DependentsExact, ExecutorState, AbsentClean, DestroyedUnreferenced,
         EventsOfDeleted
<1>9. NoLostDelete'
  BY DEF NoLostDelete, AbsentClean, ExecutorState, EventsCounted
<1>. QED
  BY <1>1, <1>2, <1>3, <1>4, <1>5, <1>6, <1>7, <1>8, <1>9, Zenon DEF LifeInv

\* LifeInv is kept by PropagateDelete().
LEMMA LifePropagateDeleteInv ==
  ASSUME LifeState, PropagateDelete
  PROVE  LifeState'
<1>. SUFFICES ASSUME LifeInv PROVE LifeInv'
  BY Zenon DEF LifeState
<1>. USE NoSelfParent, LifeAssumption DEF LifeInv, LifeTypeOK, PropagateDelete, EnqueueEvents
<1>1. LifeTypeOK'
  BY DEF EventsCounted, ExecutorState
<1>2. EventsCounted'
  BY DEF EventsCounted, ExecutorState
<1>3. AbsentClean'
  BY Zenon DEF AbsentClean, BottomUp, DependentsExact, ExecutorState
<1>4. DependentsExact'
  BY Zenon DEF DependentsExact, ExecutorState, AbsentClean
<1>5. ExecutorState'
  BY DEF ExecutorState, EventsOfDeleted, DestroyedUnreferenced, AbsentClean, DependentsExact
<1>6. EventsOfDeleted'
  BY Zenon DEF EventsOfDeleted, ExecutorState
<1>7. DestroyedUnreferenced'
  BY Zenon
     DEF DestroyedUnreferenced, EventsCounted, ExecutorState, AbsentClean, EventsOfDeleted,
         BottomUp
<1>8. BottomUp'
  BY Zenon
     DEF BottomUp, DependentsExact, ExecutorState, AbsentClean, DestroyedUnreferenced,
         EventsOfDeleted
<1>9. NoLostDelete'
  BY DEF NoLostDelete, AbsentClean, ExecutorState, EventsCounted
<1>. QED
  BY <1>1, <1>2, <1>3, <1>4, <1>5, <1>6, <1>7, <1>8, <1>9, Zenon DEF LifeInv

\* LifeInv is kept by Shutdown().
LEMMA LifeShutdownInv ==
  ASSUME LifeState, Shutdown
  PROVE  LifeState'
<1>. SUFFICES ASSUME LifeInv PROVE LifeInv'
  BY Zenon DEF LifeState
<1>. USE NoSelfParent, LifeAssumption DEF LifeInv, LifeTypeOK, Shutdown
<1>1. LifeTypeOK'
  BY Zenon DEF EventsCounted, ExecutorState
<1>2. EventsCounted'
  BY Zenon DEF EventsCounted, ExecutorState
<1>3. AbsentClean'
  BY DEF AbsentClean, BottomUp, DependentsExact, ExecutorState
<1>4. DependentsExact'
  BY Zenon DEF DependentsExact, ExecutorState, AbsentClean
<1>5. ExecutorState'
  BY DEF ExecutorState, EventsOfDeleted, DestroyedUnreferenced, AbsentClean, DependentsExact
<1>6. EventsOfDeleted'
  BY Zenon DEF EventsOfDeleted, ExecutorState
<1>7. DestroyedUnreferenced'
  BY DEF DestroyedUnreferenced, EventsCounted, ExecutorState, AbsentClean, EventsOfDeleted,
         BottomUp
<1>8. BottomUp'
  BY DEF BottomUp, DependentsExact, ExecutorState, AbsentClean, DestroyedUnreferenced,
         EventsOfDeleted
<1>9. NoLostDelete'
  BY Zenon DEF NoLostDelete, AbsentClean, ExecutorState, EventsCounted
<1>. QED
  BY <1>1, <1>2, <1>3, <1>4, <1>5, <1>6, <1>7, <1>8, <1>9, Zenon DEF LifeInv

\* LifeInv is kept by a deferral.
LEMMA LifeDeferInv ==
  ASSUME LifeState, Defer
  PROVE  LifeState'
<1>. SUFFICES ASSUME LifeInv PROVE LifeInv'
  BY Zenon DEF LifeState
<1>. USE NoSelfParent, LifeAssumption DEF LifeInv, LifeTypeOK, Defer, actorVars
<1>1. LifeTypeOK'
  BY DEF EventsCounted, ExecutorState
<1>2. EventsCounted'
  BY DEF EventsCounted, ExecutorState
<1>3. AbsentClean'
  BY DEF AbsentClean, BottomUp, DependentsExact, ExecutorState
<1>4. DependentsExact'
  BY Zenon DEF DependentsExact, ExecutorState, AbsentClean
<1>5. ExecutorState'
  BY Zenon
     DEF ExecutorState, EventsOfDeleted, DestroyedUnreferenced, AbsentClean, DependentsExact
<1>6. EventsOfDeleted'
  BY Zenon DEF EventsOfDeleted, ExecutorState
<1>7. DestroyedUnreferenced'
  BY DEF DestroyedUnreferenced, EventsCounted, ExecutorState, AbsentClean, EventsOfDeleted,
         BottomUp
<1>8. BottomUp'
  BY Zenon
     DEF BottomUp, DependentsExact, ExecutorState, AbsentClean, DestroyedUnreferenced,
         EventsOfDeleted
<1>9. NoLostDelete'
  BY DEF NoLostDelete, AbsentClean, ExecutorState, EventsCounted
<1>. QED
  BY <1>1, <1>2, <1>3, <1>4, <1>5, <1>6, <1>7, <1>8, <1>9, Zenon DEF LifeInv

\* LifeInv is kept by ReferenceDecrementAndTest().
LEMMA LifeDecrementInv ==
  ASSUME LifeState, ReferenceDecrementAndTest
  PROVE  LifeState'
<1>. SUFFICES ASSUME LifeInv PROVE LifeInv'
  BY Zenon DEF LifeState
<1>. USE NoSelfParent, LifeAssumption DEF LifeInv, LifeTypeOK, ReferenceDecrementAndTest,
            MayDestroyActor, actorVars
<1>1. LifeTypeOK'
  <2>1. actor_refcount_[hand] \in Nat \ {0}
    BY DEF EventsCounted, ExecutorState
  <2>2. actor_refcount_[hand] - 1 \in Nat
    BY <2>1
  <2>3. actor_refcount_' \in [Actors -> Nat]
    BY <2>2, <2>1, Zenon
  <2>. QED
    BY <2>3, Zenon DEF ExecutorState
<1>2. EventsCounted'
  BY DEF EventsCounted, ExecutorState
<1>3. AbsentClean'
  BY Zenon DEF AbsentClean, BottomUp, DependentsExact, ExecutorState
<1>4. DependentsExact'
  BY DEF DependentsExact, ExecutorState, AbsentClean
<1>5. ExecutorState'
  BY DEF ExecutorState, EventsOfDeleted, DestroyedUnreferenced, AbsentClean, DependentsExact
<1>6. EventsOfDeleted'
  BY Zenon DEF EventsOfDeleted, ExecutorState
<1>7. DestroyedUnreferenced'
  BY DEF DestroyedUnreferenced, EventsCounted, ExecutorState, AbsentClean, EventsOfDeleted,
         BottomUp
<1>8. BottomUp'
  BY Zenon
     DEF BottomUp, DependentsExact, ExecutorState, AbsentClean, DestroyedUnreferenced,
         EventsOfDeleted
<1>9. NoLostDelete'
  BY DEF NoLostDelete, AbsentClean, ExecutorState, EventsCounted
<1>. QED
  BY <1>1, <1>2, <1>3, <1>4, <1>5, <1>6, <1>7, <1>8, <1>9, Zenon DEF LifeInv

\* LifeInv is kept by DependencyRemove().
LEMMA LifeDependencyRemoveInv ==
  ASSUME LifeState, NEW p \in Actors, DependencyRemove(p)
  PROVE  LifeState'
<1>. SUFFICES ASSUME LifeInv PROVE LifeInv'
  BY Zenon DEF LifeState
<1>. USE NoSelfParent, LifeAssumption DEF LifeInv, LifeTypeOK, DependencyRemove,
            EnqueueEvents, actorVars
<1>1. LifeTypeOK'
  BY DEF EventsCounted, ExecutorState
<1>2. EventsCounted'
  BY DEF EventsCounted, ExecutorState
<1>3. AbsentClean'
  BY DEF AbsentClean, BottomUp, DependentsExact, ExecutorState
<1>4. DependentsExact'
  BY DEF DependentsExact, ExecutorState, AbsentClean
<1>5. ExecutorState'
  BY Zenon
     DEF ExecutorState, EventsOfDeleted, DestroyedUnreferenced, AbsentClean, DependentsExact
<1>6. EventsOfDeleted'
  BY Zenon DEF EventsOfDeleted, ExecutorState
<1>7. DestroyedUnreferenced'
  BY DEF DestroyedUnreferenced, EventsCounted, ExecutorState, AbsentClean, EventsOfDeleted,
         BottomUp
<1>8. BottomUp'
  BY Zenon
     DEF BottomUp, DependentsExact, ExecutorState, AbsentClean, DestroyedUnreferenced,
         EventsOfDeleted
<1>9. NoLostDelete'
  BY DEF NoLostDelete, AbsentClean, ExecutorState, EventsCounted
<1>. QED
  BY <1>1, <1>2, <1>3, <1>4, <1>5, <1>6, <1>7, <1>8, <1>9, Zenon DEF LifeInv

\* LifeInv is kept by ~LifetimeActor.
LEMMA LifeDestroyInv ==
  ASSUME LifeState, Destroy
  PROVE  LifeState'
<1>. SUFFICES ASSUME LifeInv PROVE LifeInv'
  BY Zenon DEF LifeState
<1>. USE NoSelfParent, LifeAssumption DEF LifeInv, LifeTypeOK, Destroy
<1>1. LifeTypeOK'
  BY Zenon DEF EventsCounted, ExecutorState
<1>2. EventsCounted'
  BY Zenon DEF EventsCounted, ExecutorState
<1>3. AbsentClean'
  BY DEF AbsentClean, BottomUp, DependentsExact, ExecutorState
<1>4. DependentsExact'
  BY DEF DependentsExact, ExecutorState, AbsentClean
<1>5. ExecutorState'
  BY Zenon
     DEF ExecutorState, EventsOfDeleted, DestroyedUnreferenced, AbsentClean, DependentsExact
<1>6. EventsOfDeleted'
  BY Zenon DEF EventsOfDeleted, ExecutorState
<1>7. DestroyedUnreferenced'
  BY DEF DestroyedUnreferenced, EventsCounted, ExecutorState, AbsentClean, EventsOfDeleted,
         BottomUp
<1>8. BottomUp'
  BY DEF BottomUp, DependentsExact, ExecutorState, AbsentClean, DestroyedUnreferenced,
         EventsOfDeleted
<1>9. NoLostDelete'
  BY Zenon DEF NoLostDelete, AbsentClean, ExecutorState, EventsCounted
<1>. QED
  BY <1>1, <1>2, <1>3, <1>4, <1>5, <1>6, <1>7, <1>8, <1>9, Zenon DEF LifeInv

\* LifeInv is kept by a step that changes nothing.
LEMMA LifeStutterInv ==
  ASSUME LifeState, UNCHANGED lifeVars
  PROVE  LifeState'
<1>. SUFFICES ASSUME LifeInv PROVE LifeInv'
  BY Zenon DEF LifeState
<1>. USE NoSelfParent, LifeAssumption DEF LifeInv, LifeTypeOK, lifeVars, actorVars, execVars
<1>1. LifeTypeOK'
  BY Zenon DEF EventsCounted, ExecutorState
<1>2. EventsCounted'
  BY Zenon DEF EventsCounted, ExecutorState
<1>3. AbsentClean'
  BY Zenon DEF AbsentClean, BottomUp, DependentsExact, ExecutorState
<1>4. DependentsExact'
  BY Zenon DEF DependentsExact, ExecutorState, AbsentClean
<1>5. ExecutorState'
  BY Zenon
     DEF ExecutorState, EventsOfDeleted, DestroyedUnreferenced, AbsentClean, DependentsExact
<1>6. EventsOfDeleted'
  BY Zenon DEF EventsOfDeleted, ExecutorState
<1>7. DestroyedUnreferenced'
  BY Zenon
     DEF DestroyedUnreferenced, EventsCounted, ExecutorState, AbsentClean, EventsOfDeleted,
         BottomUp
<1>8. BottomUp'
  BY Zenon
     DEF BottomUp, DependentsExact, ExecutorState, AbsentClean, DestroyedUnreferenced,
         EventsOfDeleted
<1>9. NoLostDelete'
  BY Zenon DEF NoLostDelete, AbsentClean, ExecutorState, EventsCounted
<1>. QED
  BY <1>1, <1>2, <1>3, <1>4, <1>5, <1>6, <1>7, <1>8, <1>9, Zenon DEF LifeInv

\* Every step of the specification keeps LifeInv.
LEMMA LifeNextInv ==
  LifeInv /\ [LifeNext]_lifeVars => LifeInv'
<1>. SUFFICES ASSUME LifeInv, [LifeNext]_lifeVars PROVE LifeInv'
  BY Zenon
<1>1. ASSUME NEW a \in Actors, DependencyAdd(a) \/ Delete(a) \/ Use(a) \/ EndUse(a)
      PROVE  LifeInv'
  BY <1>1, LifeDependencyAddInv, LifeDeleteInv, LifeUseInv, LifeReleaseInv, Zenon DEF LifeState
<1>2. ASSUME NEW a \in Actors,
             RetryDelete(a) \/ PauseDelete(a) \/ ResumeDelete(a) \/ Dequeue(a)
      PROVE  LifeInv'
  BY <1>2, LifeRetryDeleteInv, LifePauseDeleteInv, LifeResumeDeleteInv, LifeDequeueInv, Zenon
     DEF LifeState
<1>3. CASE DeleteExecutor
  BY <1>3, LifePropagateDeleteInv, LifeShutdownInv, LifeDeferInv, LifeDecrementInv,
     LifeDependencyRemoveInv, LifeDestroyInv, Zenon DEF LifeState, DeleteExecutor
<1>4. CASE UNCHANGED lifeVars
  BY <1>4, LifeStutterInv, Zenon DEF LifeState
<1>. QED
  BY <1>1, <1>2, <1>3, <1>4, Zenon DEF LifeNext

\* LifeInv is an invariant, whatever the graph of actors.
THEOREM LifeInvariance == LifeSpec => []LifeInv
<1>. QED
  BY LifeInitInv, LifeNextInv, PTL DEF LifeSpec

\* The members of LifetimeActor and LifetimeManager keep their types: refcount_
\* in particular never goes below 0.
THEOREM LifeTypeCorrect == LifeSpec => []LifeTypeOK
<1>1. LifeInv => LifeTypeOK
  BY Zenon DEF LifeInv
<1>. QED
  BY LifeInvariance, <1>1, PTL

\* No delete event ever refers to an actor that is destroyed or being destroyed.
THEOREM SafeDestruction == LifeSpec => []DestroyedUnreferenced
<1>1. LifeInv => DestroyedUnreferenced
  BY Zenon DEF LifeInv
<1>. QED
  BY LifeInvariance, <1>1, PTL

\* Deletes cascade from top to bottom and objects are destroyed from the bottom up.
THEOREM DestructionOrder == LifeSpec => []BottomUp
<1>1. LifeInv => BottomUp
  BY Zenon DEF LifeInv
<1>. QED
  BY LifeInvariance, <1>1, PTL

\* A deleted actor that nothing holds back has a delete event pending, and
\* refcount_ counts the events exactly.
THEOREM DeletePending == LifeSpec => [](NoLostDelete /\ EventsCounted)
<1>1. LifeInv => NoLostDelete /\ EventsCounted
  BY Zenon DEF LifeInv
<1>. QED
  BY LifeInvariance, <1>1, PTL

-----------------------------------------------------------------------------
(* The task trigger: trigger_ counts the tasks on their way, for every     *)
(* number of threads and of tasks.                                         *)

LEMMA TriggerFinite ==
  ASSUME Counting
  PROVE  /\ IsFiniteSet(Alive) /\ Cardinality(Alive) \in Nat
         /\ IsFiniteSet(Enqueuing) /\ Cardinality(Enqueuing) \in Nat
  <1>1. IsFiniteSet(Setters)
    BY Count, TriggerAssumption, Zenon DEF Setters
  <1>2. IsFiniteSet(Alive) /\ IsFiniteSet(Enqueuing)
    BY <1>1, SubsetFinite, TriggerAssumption, Zenon DEF Alive, Enqueuing
  <1> QED BY <1>2, Count, Zenon

LEMMA TriggerInitInv ==
  ASSUME Counting
  PROVE  TriggerInit => OneWorker
  <1> SUFFICES ASSUME TriggerInit PROVE OneWorker
    BY Zenon
  <1>0. 0 \in 0 .. MaxSets /\ 0 \in 0 .. MaxSwitches
    BY TriggerAssumption
  <1>1. TriggerTypeOK
    BY <1>0, Zenon DEF TriggerInit, TriggerTypeOK
  <1>2. Alive = {} /\ Enqueuing = {}
    BY Zenon DEF TriggerInit, Alive, Enqueuing
  <1>3. Cardinality({}) = 0
    BY EmptyCount, Zenon
  <1> QED BY <1>1, <1>2, <1>3 DEF TriggerInit, OneWorker

\* The thread that finds trigger_ clear is the one that enqueues.
LEMMA TriggerFetchInv ==
  ASSUME Counting, OneWorker, TriggerTypeOK',
         NEW t \in Setters, caller[t] # "enqueue",
         FetchAndStore(t), worker' = worker
  PROVE  OneWorker'
  <1>1. Alive' = Alive
    BY Zenon DEF Alive
  <1>2. CASE trigger_
    <2>1. Enqueuing' = Enqueuing
      BY <1>2, Zenon DEF FetchAndStore, Enqueuing, OneWorker, TriggerTypeOK
    <2> QED BY <1>1, <1>2, <2>1, Zenon DEF OneWorker, FetchAndStore
  <1>3. CASE ~trigger_
    <2>1. Enqueuing' = Enqueuing \cup {t} /\ t \notin Enqueuing
      BY <1>3, Zenon DEF FetchAndStore, Enqueuing, OneWorker, TriggerTypeOK
    <2>2. Cardinality(Enqueuing') = Cardinality(Enqueuing) + 1
      BY <2>1, TriggerFinite, Count, Zenon
    <2> QED BY <1>1, <1>3, <2>2, TriggerFinite DEF OneWorker, FetchAndStore
  <1> QED BY <1>2, <1>3, Zenon

LEMMA TriggerEnqueueInv ==
  ASSUME Counting, OneWorker, NEW t \in Setters, Enqueue(t)
  PROVE  OneWorker'
  <1> USE DEF OneWorker
  <1>0. TriggerTypeOK'
    BY Zenon DEF TriggerTypeOK, Enqueue, Step
  <1>1. PICK w \in Workers : Step(w, "none", "start")
    BY Zenon DEF Enqueue
  <1>2. Alive' = Alive \cup {w} /\ w \notin Alive
    BY <1>1, Zenon DEF Alive, Step, TriggerTypeOK
  <1>3. Enqueuing' = Enqueuing \ {t} /\ t \in Enqueuing
    BY Zenon DEF Enqueue, Enqueuing, TriggerTypeOK
  <1>4. Cardinality(Alive') = Cardinality(Alive) + 1
    BY <1>2, TriggerFinite, Count, Zenon
  <1>5. Cardinality(Enqueuing') = Cardinality(Enqueuing) - 1
    BY <1>3, TriggerFinite, Count, Zenon
  <1> QED BY <1>0, <1>4, <1>5, TriggerFinite DEF Enqueue

\* A step inside Run() leaves the task alive.
LEMMA TriggerRunInv ==
  ASSUME Counting, OneWorker, NEW w \in Workers,
         CheckDisabled(w) \/ CheckDeferred(w) \/ FuncReturns(w)
  PROVE  OneWorker'
  <1> USE DEF OneWorker, CheckDisabled, CheckDeferred, FuncReturns
  <1>0. TriggerTypeOK'
    BY Zenon DEF TriggerTypeOK, Step
  <1>1. Alive' = Alive /\ Enqueuing' = Enqueuing
    BY Zenon DEF Alive, Enqueuing, Step, TriggerTypeOK
  <1> QED BY <1>0, <1>1

\* The task that resets trigger_ is the only one.
LEMMA TriggerResetInv ==
  ASSUME Counting, OneWorker, NEW w \in Workers, Reset(w)
  PROVE  OneWorker'
  <1> USE DEF OneWorker
  <1>0. TriggerTypeOK'
    BY Zenon DEF TriggerTypeOK, Reset, Step
  <1>1. Alive' = Alive \ {w} /\ w \in Alive
    BY Zenon DEF Reset, Alive, Step, TriggerTypeOK
  <1>2. Enqueuing' = Enqueuing
    BY Zenon DEF Reset, Enqueuing
  <1>3. /\ Cardinality(Alive') = Cardinality(Alive) - 1
        /\ Cardinality(Alive) > 0
    BY <1>1, TriggerFinite, Count
  <1> QED BY <1>0, <1>2, <1>3, TriggerFinite DEF Reset

LEMMA TriggerSwitchInv ==
  ASSUME Counting, OneWorker,
         set_disable \/ set_enable \/ set_deferred
  PROVE  OneWorker'
  <1> USE DEF OneWorker, set_disable, set_enable, set_deferred,
          Switch
  <1>a. switches' \in 0 .. MaxSwitches
    BY TriggerAssumption DEF TriggerTypeOK
  <1>0. TriggerTypeOK'
    BY <1>a, Zenon DEF TriggerTypeOK
  <1>1. Alive' = Alive /\ Enqueuing' = Enqueuing
    BY Zenon DEF Alive, Enqueuing, TriggerTypeOK, Setters
  <1> QED BY <1>0, <1>1

LEMMA TriggerNextInv ==
  ASSUME Counting
  PROVE  OneWorker /\ [TriggerNext]_triggerVars => OneWorker'
  <1> SUFFICES ASSUME OneWorker, [TriggerNext]_triggerVars PROVE OneWorker'
    BY Zenon
  <1>1. ASSUME NEW c \in Callers, Set(c) PROVE OneWorker'
    <2>1. TriggerTypeOK' /\ c \in Setters
      BY <1>1, TriggerAssumption DEF OneWorker, TriggerTypeOK, Set, FetchAndStore, Setters
    <2> QED BY <1>1, <2>1, TriggerFetchInv, Zenon DEF Set
  <1>2. ASSUME set_enable_Set PROVE OneWorker'
    <2>1. TriggerTypeOK' /\ ctl \in Setters
      BY <1>2, Zenon DEF OneWorker, TriggerTypeOK, set_enable_Set, FetchAndStore, Setters
    <2> QED BY <1>2, <2>1, TriggerFetchInv, Zenon DEF set_enable_Set
  <1>3. CASE UNCHANGED triggerVars
    BY <1>3, Zenon DEF OneWorker, TriggerTypeOK, Alive, Enqueuing, triggerVars
  <1> QED
    BY <1>1, <1>2, <1>3, TriggerEnqueueInv, TriggerRunInv, TriggerResetInv, TriggerSwitchInv,
       Zenon DEF TriggerNext, WorkerStep

\* The callers' view: two tasks never run func_ at once, nor does a task run when
\* trigger_ is clear, which is what ~TaskTrigger asserts before it frees the
\* members that Run() uses.
SoleRunner ==
    /\ \A v, w \in Workers : worker[v] # "none" /\ worker[w] # "none" => v = w
    /\ ~trigger_ => \A w \in Workers : worker[w] = "none"

LEMMA TriggerOneWorkerAlone ==
  ASSUME Counting
  PROVE  OneWorker => SoleRunner
  <1> SUFFICES ASSUME OneWorker PROVE SoleRunner
    BY Zenon
  <1>1. Cardinality(Alive) = 0 \/ Cardinality(Alive) = 1
    BY TriggerFinite DEF OneWorker, TriggerTypeOK
  <1>2. Alive = {} \/ \E x : Alive = {x}
    BY <1>1, TriggerFinite, Count, Zenon
  <1>3. ~trigger_ => Alive = {}
    BY TriggerFinite, Count DEF OneWorker
  <1> QED BY <1>2, <1>3 DEF SoleRunner, Alive

-----------------------------------------------------------------------------
(* The facts the lemmas start from, and the theorems.                      *)

F == INSTANCE FiniteSetTheorems

LEMMA CountingHolds == Counting
  <1>1. \A S : F!IsFiniteSet(S) <=> IsFiniteSet(S)
    BY Zenon DEF F!IsFiniteSet, IsFiniteSet
  <1>2. \A S : F!Cardinality(S) = Cardinality(S)
    BY <1>1, Zenon DEF F!Cardinality, Cardinality
  <1>3. ASSUME NEW S, F!IsFiniteSet(S)
        PROVE  /\ F!Cardinality(S) \in Nat
               /\ F!Cardinality(S) = 0 <=> S = {}
               /\ F!Cardinality(S) = 1 => \E x : S = {x}
               /\ \A T \in SUBSET S : F!IsFiniteSet(T)
               /\ \A x \in S : F!Cardinality(S \ {x}) = F!Cardinality(S) - 1
               /\ \A x : F!IsFiniteSet(S \cup {x})
               /\ \A x : x \notin S => F!Cardinality(S \cup {x}) = F!Cardinality(S) + 1
    BY <1>3, F!FS_CardinalityType, F!FS_EmptySet, F!FS_Singleton, F!FS_Subset,
       F!FS_RemoveElement, F!FS_AddElement, Zenon
  <1>4. F!IsFiniteSet({}) /\ \A n \in Nat : F!IsFiniteSet(1 .. n)
    BY F!FS_EmptySet, F!FS_Interval
  <1> QED BY <1>1, <1>2, <1>3, <1>4, Zenon DEF Counting

\* The members of the timer agree with its waits and tasks, whatever clients,
\* expiries and tasks interleave to: at most one task, exact references, and no
\* call of OnTaskCancel under the scheduler's mutex.
THEOREM TimerInvariance == Spec => []TimerState
  <1> QED BY CountingHolds, InitInv, NextInv, PTL DEF Spec

\* The handler is never called for a Start that Cancel() cancelled.
THEOREM CancelHolds == Spec => []CancelledNotServed
  <1> QED BY CountingHolds, TimerInvariance, StateServesNoCancelled, PTL

\* trigger_ is set exactly while one task is on its way, whatever Set(), the
\* switches and Run() interleave to.
THEOREM TriggerInvariance == TriggerSpec => []OneWorker
  <1> QED BY CountingHolds, TriggerInitInv, TriggerNextInv, PTL DEF TriggerSpec

\* Every call of func_ is made by the one task there is.
THEOREM RunsAlone == TriggerSpec => []SoleRunner
  <1> QED BY CountingHolds, TriggerInvariance, TriggerOneWorkerAlone, PTL
=============================================================================
