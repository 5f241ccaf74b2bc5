------------------------ MODULE TaskSchedulerProofs -------------------------
EXTENDS TaskSchedulerWalks

-----------------------------------------------------------------------------
(* Enqueue, of a new task or of a recycled one; the end of a task.         *)

\* An entry of a group without running tasks has none.
LEMMA IdleGroup ==
  ASSUME IInv
  PROVE  IdleGroups
  <1> SUFFICES ASSUME NEW e \in Entries, group_run_count_[Group(e)] = 0
               PROVE  run_count_[e] = 0
    BY Zenon DEF IdleGroups
  <1>0. RunTypes /\ RunCountsExact
    BY Zenon DEF IInv, TypeOK
  <1> DEFINE R == {t \in Tasks : Running(t) /\ EntryOf[t] = e}
             G == {t \in Tasks : Running(t) /\ Group(EntryOf[t]) = Group(e)}
  <1>1. IsFiniteSet(R) /\ IsFiniteSet(G)
    BY TasksAssumption, FS_Subset, Zenon
  <1>2. Cardinality(G) = 0 /\ run_count_[e] = Cardinality(R)
    BY <1>0, EntryFacts, Zenon DEF RunCountsExact
  <1>3. R \subseteq G
    BY Zenon
  <1> HIDE DEF R, G
  <1>4. G = {}
    BY <1>1, <1>2, FS_EmptySet, Zenon
  <1> QED BY <1>2, <1>3, <1>4, FS_EmptySet, Zenon

LEMMA EnqueueInv ==
  ASSUME IInv, LockTypes', git = NULL, eit = NULL,
         NEW t \in Tasks, seqno_ < MaxSeqno,
         (state_[t] = "INIT" /\ exiting = NULL) \/ t = exiting,
         EnqueueUnLocked(t),
         UNCHANGED policyVars, running_' = running_, task_cancel_' = task_cancel_,
         exiting' = NULL
  PROVE  /\ TaskTypes' /\ RunTypes' /\ DeferTypes'
         /\ NoConflict' /\ SeqnoUnique' /\ RunCountsExact'
         /\ WaitQOrdered' /\ DeferQConsistent' /\ NoLostWakeup'
  <1> DEFINE e == EntryOf[t]
             n == seqno_ + 1
             ag == ActiveGroupInPolicy(Group(e))
             ae == ActiveEntryInPolicy(e)
             AddToWaitQ == /\ waitq_' = [waitq_ EXCEPT ![e] = Append(@, t)]
                           /\ state_' = [state_ EXCEPT ![t] = "WAIT"]
                           /\ UNCHANGED runVars
  <1>0. /\ PolicyTypes /\ TaskTypes /\ RunTypes /\ DeferTypes /\ LockTypes
        /\ PolicySymmetric /\ RulesInstalled /\ NoConflict /\ SeqnoUnique /\ LockState
        /\ RunCountsExact /\ WaitQOrdered /\ DeferQConsistent /\ NoLostWakeup
    BY Zenon DEF IInv, TypeOK
  <1> USE <1>0
  <1>1. /\ e \in Entries /\ Group(e) \in Groups
        /\ ag # NULL => ag \in Groups /\ group_run_count_[ag] # 0
        /\ ae # NULL => ae \in Entries /\ run_count_[ae] # 0
    BY EntryFacts, TasksAssumption, ActiveGroup, ActiveEntry, Zenon
  <1>2. /\ seqno_' = n /\ seqno' = [seqno EXCEPT ![t] = n]
        /\ \/ /\ waitq_[e] # <<>>
              /\ AddToWaitQ
              /\ UNCHANGED deferVars
           \/ /\ waitq_[e] = <<>> /\ ~running_
              /\ AddToWaitQ
              /\ AddToDeferQ(e, group_deferq_, deferq_, NULL, stop_entry, n)
           \/ /\ waitq_[e] = <<>> /\ running_ /\ ag # NULL
              /\ AddToWaitQ
              /\ AddToDeferQ(e, group_deferq_, deferq_, ag, NULL, n)
           \/ /\ waitq_[e] = <<>> /\ running_ /\ ag = NULL /\ ae # NULL
              /\ AddToWaitQ
              /\ AddToDeferQ(e, group_deferq_, deferq_, NULL, ae, n)
           \/ /\ waitq_[e] = <<>> /\ running_ /\ ag = NULL /\ ae = NULL
              /\ RunTasks(e, <<t>>)
              /\ UNCHANGED <<waitq_, deferVars>>
    BY Zenon DEF EnqueueUnLocked
  <1>3. policy_' = policy_ /\ policyq_' = policyq_
    BY Zenon DEF policyVars
  <1>4. /\ n \in 0 .. MaxSeqno /\ seqno_' = n /\ n # 0
        /\ seqno'[t] = n
        /\ \A u \in Tasks \ {t} : seqno'[u] = seqno[u]
        /\ \A u \in Tasks : seqno[u] \in Nat /\ seqno[u] < n
        /\ seqno' \in [Tasks -> 0 .. MaxSeqno]
    BY <1>2, MaxSeqnoAssumption DEF TaskTypes, SeqnoUnique
  <1>5. /\ state_[t] # "WAIT" /\ ~Running(t)
        /\ \A u \in Tasks \ {t} : u # exiting
        /\ \A u \in Tasks : u # exiting'
    BY EntryFacts, Zenon DEF Running, LockState
  <1>6. \A f \in Entries : t \notin Elements(waitq_[f])
    BY <1>5, Zenon DEF WaitQOrdered
  <1>7. \A f \in Entries : \A u \in Elements(waitq_[f]) : u \in Tasks /\ u # t
    BY <1>6 DEF Elements, TaskTypes
  <1> HIDE DEF e, n, ag, ae
  <1>8. TreesWithout(e, group_deferq_, deferq_) \/ waitq_[e] # <<>>
    <2> SUFFICES ASSUME waitq_[e] = <<>> PROVE TreesWithout(e, group_deferq_, deferq_)
      BY Zenon
    <2>1. deferq_task_group_[e] = NULL /\ deferq_task_entry_[e] = NULL
      BY <1>1, Zenon DEF NoLostWakeup
    <2>2. /\ \A g \in Groups : e \notin group_deferq_[g]
          /\ \A f \in Entries \cup {stop_entry} : e \notin deferq_[f]
      BY <1>1, <2>1, EntryFacts DEF DeferQConsistent
    <2> QED BY <2>2, Zenon DEF TreesWithout, DeferTypes
  <1>9. \A f \in Entries : waitq_[f] # <<>> => seqno'[Head(waitq_[f])] = seqno[Head(waitq_[f])]
    <2>1. \A f \in Entries : waitq_[f] # <<>> => Head(waitq_[f]) \in Elements(waitq_[f])
      BY DEF Elements, TaskTypes
    <2> QED BY <1>4, <1>7, <2>1, Zenon
  <1>10. CASE AddToWaitQ /\
              \/ waitq_[e] # <<>> /\ UNCHANGED deferVars
              \/ /\ waitq_[e] = <<>>
                 /\ \E tg \in Groups \cup {NULL}, te \in Entries \cup {stop_entry, NULL} :
                       /\ tg = NULL \/ te = NULL
                       /\ tg # NULL \/ te # NULL
                       /\ tg # NULL => group_run_count_[tg] # 0
                       /\ te # NULL => IF te = stop_entry THEN ~running_ ELSE run_count_[te] # 0
                       /\ AddToDeferQ(e, group_deferq_, deferq_, tg, te, n)
    <2> USE <1>10
    <2>1. /\ run_count_' = run_count_ /\ run_task_' = run_task_
          /\ group_run_count_' = group_run_count_
      BY Zenon DEF runVars
    <2>2. /\ state_'[t] = "WAIT" /\ \A u \in Tasks \ {t} : state_'[u] = state_[u]
          /\ state_' \in [Tasks -> {"INIT", "WAIT", "RUN"}]
      BY Zenon DEF TaskTypes
    <2> DEFINE w == waitq_[e]
               wp == Append(w, t)
    <2>3. /\ waitq_'[e] = wp /\ \A f \in Entries \ {e} : waitq_'[f] = waitq_[f]
          /\ waitq_' \in [Entries -> Seq(Tasks)]
          /\ w \in Seq(Tasks)
      BY <1>1 DEF TaskTypes
    <2>4. /\ wp \in Seq(Tasks) /\ wp # <<>>
          /\ DOMAIN wp = 1 .. (Len(w) + 1) /\ DOMAIN w = 1 .. Len(w) /\ Len(w) \in Nat
          /\ \A i \in 1 .. Len(w) : wp[i] = w[i]
          /\ wp[Len(w) + 1] = t
          /\ w # <<>> => Head(wp) = Head(w)
          /\ w = <<>> => Head(wp) = t
          /\ Elements(wp) = Elements(w) \cup {t}
      BY <2>3, AppendElements
    <2>5. TaskTypes' /\ RunTypes'
      BY <1>4, <2>1, <2>2, <2>3, Zenon DEF TaskTypes, RunTypes
    <2>6. NoConflict'
      BY <1>3, <2>1, Zenon DEF NoConflict
    <2>7. SeqnoUnique'
      BY <1>4, <2>2 DEF SeqnoUnique
    <2>8. RunCountsExact'
      <3>1. \A u \in Tasks : Running(u)' <=> Running(u)
        BY <1>5, <2>2, Zenon DEF Running
      <3> QED BY <3>1, SameCounts, Zenon
    <2> HIDE DEF w, wp
    <2>9. WaitQOrdered'
      <3>1. ASSUME NEW i \in DOMAIN wp, NEW j \in DOMAIN wp, i < j
            PROVE  seqno'[wp[i]] < seqno'[wp[j]]
        <4>1. i \in 1 .. Len(w) /\ (j \in 1 .. Len(w) \/ j = Len(w) + 1)
          BY <2>4, <3>1
        <4>2. \A k \in 1 .. Len(w) : w[k] \in Elements(w) /\ w[k] \in Tasks \ {t}
          BY <1>1, <1>7, <2>4 DEF Elements, w
        <4>3. \A k \in 1 .. Len(w) : seqno'[wp[k]] = seqno[w[k]]
          BY <1>4, <2>4, <4>2, Zenon
        <4>4. CASE j = Len(w) + 1
          BY <1>4, <2>4, <4>1, <4>2, <4>3, <4>4, Zenon
        <4>5. CASE j \in 1 .. Len(w)
          <5>1. seqno[w[i]] < seqno[w[j]]
            BY <1>1, <2>4, <3>1, <4>1, <4>5, Zenon DEF WaitQOrdered, w
          <5> QED BY <4>1, <4>3, <4>5, <5>1, Zenon
        <4> QED BY <4>1, <4>4, <4>5, Zenon
      <3>2. ASSUME NEW f \in Entries, f # e, NEW i \in DOMAIN waitq_[f], NEW j \in DOMAIN waitq_[f], i < j
            PROVE  seqno'[waitq_[f][i]] < seqno'[waitq_[f][j]]
        <4>1. waitq_[f][i] \in Elements(waitq_[f]) /\ waitq_[f][j] \in Elements(waitq_[f])
          BY Zenon DEF Elements
        <4>2. seqno[waitq_[f][i]] < seqno[waitq_[f][j]]
          BY <3>2, Zenon DEF WaitQOrdered
        <4> QED BY <1>4, <1>7, <4>1, <4>2, Zenon
      <3>3. \A f \in Entries : \A i, j \in DOMAIN waitq_'[f] :
               i < j => seqno'[waitq_'[f][i]] < seqno'[waitq_'[f][j]]
        BY <2>3, <3>1, <3>2, ZenonT(60)
      <3>4. \A u \in Tasks : \A f \in Entries :
               u \in Elements(waitq_'[f]) <=> state_'[u] = "WAIT" /\ f = EntryOf[u]
        <4>1. \A u \in Tasks : \A f \in Entries :
               u \in Elements(waitq_[f]) <=> state_[u] = "WAIT" /\ f = EntryOf[u]
          BY Zenon DEF WaitQOrdered
        <4>2. \A f \in Entries : Elements(waitq_'[f]) =
                 IF f = e THEN Elements(waitq_[e]) \cup {t} ELSE Elements(waitq_[f])
          BY <2>3, <2>4, Zenon DEF w
        <4> QED BY <1>1, <1>6, <2>2, <4>1, <4>2 DEF e
      <3> QED BY <3>3, <3>4, Zenon DEF WaitQOrdered, Elements
    <2>10. ASSUME waitq_[e] # <<>>, UNCHANGED deferVars
           PROVE  DeferTypes' /\ DeferQConsistent' /\ NoLostWakeup'
      <3>1. \A f \in Entries :
               /\ waitq_'[f] = <<>> <=> waitq_[f] = <<>>
               /\ waitq_[f] # <<>> => seqno'[Head(waitq_'[f])] = seqno[Head(waitq_[f])]
        BY <1>9, <2>3, <2>4, <2>10 DEF w
      <3>2. \A f \in Entries : GroupPending(f) => GroupPending(f)'
        BY <2>1, <2>10, Zenon DEF GroupPending, Ahead, deferVars
      <3>3. \A f \in Entries : EntryPending(f) => EntryPending(f)'
        BY <2>1, <2>10, Zenon DEF EntryPending, Ahead, deferVars
      <3> QED BY <2>10, <3>1, <3>2, <3>3, DeferSame, ZenonT(60)
    <2>11. ASSUME waitq_[e] = <<>>,
                  NEW tg \in Groups \cup {NULL}, NEW te \in Entries \cup {stop_entry, NULL},
                  tg = NULL \/ te = NULL, tg # NULL \/ te # NULL,
                  tg # NULL => group_run_count_[tg] # 0,
                  te # NULL => IF te = stop_entry THEN ~running_ ELSE run_count_[te] # 0,
                  AddToDeferQ(e, group_deferq_, deferq_, tg, te, n)
           PROVE  DeferTypes' /\ DeferQConsistent' /\ NoLostWakeup'
      <3>1. Deferral(e, tg, te, n)
        BY <1>4, <2>1, <2>3, <2>4, <2>11, ZenonT(60) DEF Deferral, w
      <3>2. \A f \in Entries \ {e} :
            /\ deferq_task_group_'[f] = deferq_task_group_[f]
               /\ deferq_task_group_[f] # NULL /\ GroupPending(f) => GroupPending(f)'
            /\ deferq_task_entry_'[f] = deferq_task_entry_[f]
               /\ deferq_task_entry_[f] # NULL /\ EntryPending(f) => EntryPending(f)'
        <4>1. \A f : ~Ahead(git, f) /\ ~Ahead(eit, f)
          BY Zenon DEF Ahead
        <4> QED BY <1>1, <2>1, <2>11, <4>1, OthersPending, Zenon
      <3>3. OthersKept(e)
        BY <1>9, <2>3, <3>2, Zenon DEF OthersKept
      <3> QED BY <1>1, <1>8, <2>5, <2>11, <3>1, <3>3, DeferStep, Zenon
    <2>12. DeferTypes' /\ DeferQConsistent' /\ NoLostWakeup'
      BY <2>10, <2>11, Zenon
    <2> QED BY <2>5, <2>6, <2>7, <2>8, <2>9, <2>12, Zenon
  <1>11. CASE /\ waitq_[e] = <<>> /\ running_ /\ ag = NULL /\ ae = NULL
              /\ RunTasks(e, <<t>>)
              /\ UNCHANGED <<waitq_, deferVars>>
    <2> USE <1>11
    <2>1. /\ state_'[t] = "RUN" /\ \A u \in Tasks \ {t} : state_'[u] = state_[u]
          /\ state_' \in [Tasks -> {"INIT", "WAIT", "RUN"}]
      BY DEF TaskTypes, RunTasks, Elements
    <2>2. /\ <<t>> \in Seq(Tasks) /\ <<t>> # <<>> /\ Len(<<t>>) = 1
          /\ Elements(<<t>>) = {t}
          /\ \A i, j \in DOMAIN <<t>> : i # j => <<t>>[i] # <<t>>[j]
      BY DEF Elements
    <2>3. \A u \in Tasks : Running(u)' <=> Running(u) \/ u \in Elements(<<t>>)
      BY <1>5, <2>1, <2>2, Zenon DEF Running
    <2>4. RunTypes' /\ RunCountsExact'
      <3>1. \A u \in Elements(<<t>>) : EntryOf[u] = e /\ ~Running(u)
        BY <1>5, <2>2, Zenon DEF e
      <3> QED BY <1>1, <2>2, <2>3, <3>1, StartCounts, Zenon
    <2>5. NoConflict'
      BY <1>1, <2>2, StartNoConflict, Zenon DEF ag, ae
    <2>6. waitq_' = waitq_
      BY Zenon
    <2>7. TaskTypes'
      BY <1>4, <2>1, <2>6, Zenon DEF TaskTypes
    <2>8. SeqnoUnique'
      BY <1>4, <2>1 DEF SeqnoUnique
    <2>9. WaitQOrdered'
      <3>1. /\ \A f \in Entries : \A u \in Elements(waitq_[f]) : seqno'[u] = seqno[u]
            /\ \A u \in Tasks : state_'[u] = "WAIT" <=> state_[u] = "WAIT"
        BY <1>4, <1>5, <1>7, <2>1, Zenon
      <3> QED BY <2>6, <3>1, SameWaitQ, Zenon
    <2>10. DeferTypes' /\ DeferQConsistent' /\ NoLostWakeup'
      <3>1. UNCHANGED deferVars
        BY Zenon
      <3>2. \A f \in Entries :
               /\ waitq_'[f] = <<>> <=> waitq_[f] = <<>>
               /\ waitq_[f] # <<>> => seqno'[Head(waitq_'[f])] = seqno[Head(waitq_[f])]
        BY <1>9, <2>6, Zenon
      <3>3. /\ \A h \in Groups : group_run_count_[h] # 0 => group_run_count_'[h] # 0
            /\ \A h \in Entries : run_count_[h] # 0 => run_count_'[h] # 0
        BY <1>1, <2>2 DEF RunTasks, RunTypes
      <3>4. /\ \A f : deferq_task_group_'[f] = deferq_task_group_[f]
            /\ \A f : deferq_task_entry_'[f] = deferq_task_entry_[f]
            /\ \A f : ~Ahead(git, f) /\ ~Ahead(eit, f)
            /\ \A f \in Entries : deferq_task_group_[f] \in Groups \cup {NULL}
            /\ \A f \in Entries : deferq_task_entry_[f] \in Entries \cup {stop_entry, NULL}
        BY <3>1, Zenon DEF deferVars, Ahead, DeferTypes
      <3>5. \A f \in Entries : deferq_task_group_[f] # NULL /\ GroupPending(f) => GroupPending(f)'
        BY <3>3, <3>4, ZenonT(30) DEF GroupPending
      <3>6. \A f \in Entries : deferq_task_entry_[f] # NULL /\ EntryPending(f) => EntryPending(f)'
        BY <3>3, <3>4, ZenonT(30) DEF EntryPending
      <3> QED BY <3>1, <3>2, <3>5, <3>6, DeferSame, Zenon
    <2> QED BY <2>4, <2>5, <2>7, <2>8, <2>9, <2>10, Zenon
  <1> QED BY <1>1, <1>2, <1>10, <1>11, EntryFacts, Zenon

LEMMA EnqueueActionInv ==
  ASSUME IInv, NEW t \in Tasks, Enqueue(t)
  PROVE  IInv'
  <1>0. /\ PolicyTypes /\ TaskTypes /\ RunTypes /\ DeferTypes /\ LockTypes
        /\ PolicySymmetric /\ RulesInstalled /\ NoConflict /\ SeqnoUnique /\ LockState
        /\ RunCountsExact /\ WaitQOrdered /\ DeferQConsistent /\ NoLostWakeup
    BY Zenon DEF IInv, TypeOK
  <1> USE <1>0
  <1>1. /\ mode = "idle" /\ cur = NULL /\ exiting = NULL /\ git = NULL /\ eit = NULL
        /\ state_[t] = "INIT" /\ seqno_ < MaxSeqno /\ EnqueueUnLocked(t)
        /\ running_' = running_ /\ UNCHANGED policyVars /\ task_cancel_' = task_cancel_
        /\ mode' = mode /\ cur' = cur /\ git' = git /\ eit' = eit /\ exiting' = exiting
        /\ recycle' = recycle /\ rule' = rule
    BY Zenon DEF Enqueue, LockState, lockVars
  <1>2. LockTypes'
    BY <1>1, Zenon DEF LockTypes
  <1>3. /\ TaskTypes' /\ RunTypes' /\ DeferTypes'
        /\ NoConflict' /\ SeqnoUnique' /\ RunCountsExact'
        /\ WaitQOrdered' /\ DeferQConsistent' /\ NoLostWakeup'
    BY <1>1, <1>2, EnqueueInv, Zenon
  <1>4. PolicyTypes' /\ PolicySymmetric' /\ RulesInstalled'
    BY <1>1, PolicyKept, Zenon
  <1>5. LockState'
    BY <1>1, Zenon DEF LockState
  <1> QED BY <1>2, <1>3, <1>4, <1>5, Zenon DEF IInv, TypeOK

LEMMA OnTaskExitDoneInv ==
  ASSUME IInv, OnTaskExitDone
  PROVE  IInv'
  <1>0. /\ PolicyTypes /\ TaskTypes /\ RunTypes /\ DeferTypes /\ LockTypes
        /\ PolicySymmetric /\ RulesInstalled /\ NoConflict /\ SeqnoUnique /\ LockState
        /\ RunCountsExact /\ WaitQOrdered /\ DeferQConsistent /\ NoLostWakeup
    BY ZenonT(30) DEF IInv, TypeOK
  <1> USE <1>0
  <1> DEFINE t == exiting
  <1>1. /\ mode = "exit" /\ git = NULL /\ eit = NULL /\ t \in Tasks /\ t # NULL
        /\ mode' = "idle" /\ cur' = NULL /\ exiting' = NULL /\ recycle' = FALSE
        /\ running_' = running_ /\ UNCHANGED policyVars
        /\ git' = git /\ eit' = eit /\ rule' = rule /\ state_[t] = "RUN"
    BY Zenon DEF OnTaskExitDone, LockState, LockTypes
  <1>2. LockTypes'
    BY <1>1, Zenon DEF LockTypes
  <1>3. PolicyTypes' /\ PolicySymmetric' /\ RulesInstalled'
    BY <1>1, PolicyKept, Zenon
  <1>4. LockState'
    BY <1>1, Zenon DEF LockState
  <1>5. /\ TaskTypes' /\ RunTypes' /\ DeferTypes'
        /\ NoConflict' /\ SeqnoUnique' /\ RunCountsExact'
        /\ WaitQOrdered' /\ DeferQConsistent' /\ NoLostWakeup'
    <2>1. CASE recycle /\ EnqueueUnLocked(t) /\ task_cancel_' = task_cancel_
      <3>1. seqno_ < MaxSeqno
        BY <2>1, Zenon DEF LockState
      <3> QED BY <1>1, <1>2, <2>1, <3>1, EnqueueInv, Zenon
    <2>2. CASE /\ state_' = [state_ EXCEPT ![t] = "INIT"]
               /\ seqno' = [seqno EXCEPT ![t] = 0]
               /\ task_cancel_' = [task_cancel_ EXCEPT ![t] = FALSE]
               /\ UNCHANGED <<seqno_, waitq_, runVars, deferVars>>
      <3>1. TaskTypes' /\ SeqnoUnique'
        BY <1>1, <2>2, ForgetTask, Zenon DEF TaskTypes
      <3>2. /\ state_'[t] = "INIT" /\ \A u \in Tasks \ {t} : state_'[u] = state_[u]
            /\ \A u \in Tasks \ {t} : seqno'[u] = seqno[u]
        BY <1>1, <2>2, Zenon DEF TaskTypes
      <3>3. /\ waitq_' = waitq_ /\ run_count_' = run_count_ /\ run_task_' = run_task_
            /\ group_run_count_' = group_run_count_ /\ UNCHANGED deferVars
        BY <2>2, Zenon DEF runVars
      <3>4. RunTypes' /\ NoConflict'
        BY <1>1, <3>3, Zenon DEF RunTypes, NoConflict, policyVars
      <3>5. RunCountsExact'
        <4>1. \A u \in Tasks : Running(u)' <=> Running(u)
          BY <1>1, <3>2, EntryFacts, Zenon DEF Running
        <4> QED BY <2>2, <4>1, SameCounts, Zenon
      <3>6. \A f \in Entries : t \notin Elements(waitq_[f])
        BY <1>1, Zenon DEF WaitQOrdered
      <3>7. \A f \in Entries : \A u \in Elements(waitq_[f]) : u \in Tasks \ {t} /\ seqno'[u] = seqno[u]
        <4>1. \A f \in Entries : \A u \in Elements(waitq_[f]) : u \in Tasks
          BY DEF Elements, TaskTypes
        <4> QED BY <3>2, <3>6, <4>1, Zenon
      <3>8. /\ WaitQOrdered'
            /\ \A f \in Entries : waitq_[f] # <<>> =>
                  seqno'[Head(waitq_[f])] = seqno[Head(waitq_[f])]
        <4>1. \A u \in Tasks : state_'[u] = "WAIT" <=> state_[u] = "WAIT"
          BY <1>1, <3>2, Zenon
        <4> QED BY <3>3, <3>7, <4>1, SameWaitQ, Zenon
      <3>9. DeferTypes' /\ DeferQConsistent' /\ NoLostWakeup'
        <4>1. \A f \in Entries :
                 /\ deferq_task_group_[f] # NULL /\ GroupPending(f) => GroupPending(f)'
                 /\ deferq_task_entry_[f] # NULL /\ EntryPending(f) => EntryPending(f)'
          BY <1>1, <2>2, IdlePending, Zenon
        <4> QED BY <3>3, <3>8, <4>1, DeferSame, Zenon
      <3> QED BY <3>1, <3>4, <3>5, <3>8, <3>9, Zenon
    <2> QED BY <2>1, <2>2, Zenon DEF OnTaskExitDone
  <1> QED BY <1>2, <1>3, <1>4, <1>5, Zenon DEF IInv, TypeOK

LEMMA OnTaskExitInv ==
  ASSUME IInv, NEW t \in Tasks, NEW complete \in BOOLEAN, OnTaskExit(t, complete)
  PROVE  IInv'
  <1>0. /\ PolicyTypes /\ TaskTypes /\ RunTypes /\ DeferTypes /\ LockTypes
        /\ PolicySymmetric /\ RulesInstalled /\ NoConflict /\ SeqnoUnique /\ LockState
        /\ RunCountsExact /\ WaitQOrdered /\ DeferQConsistent /\ NoLostWakeup
    BY Zenon DEF IInv, TypeOK
  <1> USE <1>0
  <1> DEFINE e == EntryOf[t]
             g == Group(e)
             entryDone == run_count_[e] = 1
             groupDone == group_run_count_[g] = 1
  <1>1. /\ mode = "idle" /\ cur = NULL /\ exiting = NULL /\ git = NULL /\ eit = NULL
        /\ state_[t] = "RUN" /\ (complete \/ seqno_ < MaxSeqno)
        /\ TaskExited(e) /\ exiting' = t /\ recycle' = ~complete /\ cur' = e
        /\ git' = (IF groupDone THEN First(group_deferq_[g]) ELSE NULL)
        /\ eit' = (IF entryDone THEN First(deferq_[e]) ELSE NULL)
        /\ running_' = running_ /\ task_cancel_' = task_cancel_ /\ rule' = rule
        /\ UNCHANGED policyVars /\ UNCHANGED <<taskVars, waitq_, deferVars>>
        /\ seqno_' = seqno_ /\ state_' = state_ /\ seqno' = seqno /\ waitq_' = waitq_
    BY Zenon DEF OnTaskExit, LockState, taskVars
  <1>2. /\ mode' = "combined" \/ mode' = "group" \/ mode' = "entry" \/ mode' = "exit"
        /\ mode' \in {"combined", "group"} <=> groupDone
        /\ mode' \in {"combined", "entry"} <=> entryDone
    <2>1. mode' = CASE groupDone /\ entryDone -> "combined"
                    [] groupDone /\ ~entryDone -> "group"
                    [] ~groupDone /\ entryDone -> "entry"
                    [] OTHER -> "exit"
      BY Zenon DEF OnTaskExit
    <2>2. CASE groupDone /\ entryDone BY <2>1, <2>2, Zenon
    <2>3. CASE groupDone /\ ~entryDone BY <2>1, <2>3, Zenon
    <2>4. CASE ~groupDone /\ entryDone BY <2>1, <2>4, Zenon
    <2>5. CASE ~groupDone /\ ~entryDone BY <2>1, <2>5, Zenon
    <2> QED BY <2>2, <2>3, <2>4, <2>5, Zenon
  <1>3. e \in Entries /\ g \in Groups /\ t # NULL /\ e # NULL /\ e # stop_entry
    BY EntryFacts, TasksAssumption
  <1>4. Running(t) /\ \A u \in Tasks : Running(u)' <=> Running(u) /\ u # t
    BY <1>1, <1>3, EntryFacts, Zenon DEF Running
  <1>5. RunTypes' /\ RunCountsExact' /\ run_count_[e] # 0 /\ group_run_count_[g] # 0
    BY <1>1, <1>4, ExitCounts, Zenon
  <1>6. /\ \A f \in Entries \ {e} : run_count_'[f] = run_count_[f]
        /\ \A h \in Groups \ {g} : group_run_count_'[h] = group_run_count_[h]
        /\ ~entryDone => run_count_'[e] # 0
        /\ ~groupDone => group_run_count_'[g] # 0
        /\ \A f \in Entries : run_count_[f] = 0 => run_count_'[f] = 0
        /\ \A h \in Groups : group_run_count_[h] = 0 => group_run_count_'[h] = 0
        /\ \A f \in Entries : run_count_[f] <= 1 => run_count_'[f] <= 1
    BY <1>1, <1>3, <1>5, ExitZeros, Zenon
  <1> HIDE DEF e, g, entryDone, groupDone
  <1>7. TaskTypes' /\ SeqnoUnique' /\ WaitQOrdered'
    BY <1>1, Zenon DEF TaskTypes, SeqnoUnique, WaitQOrdered
  <1>8. NoConflict'
    <2>1. policy_' = policy_ /\ policyq_' = policyq_
      BY <1>1, Zenon DEF policyVars
    <2> QED BY <1>6, <2>1, Zenon DEF NoConflict
  <1>9. /\ group_deferq_[g] \in SUBSET Entries /\ deferq_[e] \in SUBSET Entries
        /\ \A f \in Entries : f \in group_deferq_[g] <=> deferq_task_group_[f] = g
        /\ \A f \in Entries : f \in deferq_[e] <=> deferq_task_entry_[f] = e
    BY <1>3, Zenon DEF DeferTypes, DeferQConsistent
  <1>10. /\ \A f \in group_deferq_[g] : groupDone =>
                git' # NULL /\ defer_key[git'] <= defer_key[f]
         /\ git' # NULL => groupDone /\ git' \in group_deferq_[g]
         /\ \A f \in deferq_[e] : entryDone => eit' # NULL /\ defer_key[eit'] <= defer_key[f]
         /\ eit' # NULL => entryDone /\ eit' \in deferq_[e]
    <2>1. \A q \in SUBSET Entries :
             /\ q # {} => First(q) \in q /\ \A f \in q : defer_key[First(q)] <= defer_key[f]
             /\ q = {} => First(q) = NULL
      BY FirstIsLeast, Zenon DEF First
    <2> QED BY <1>1, <1>9, <2>1, EntryFacts, Zenon
  <1>11. DeferTypes' /\ DeferQConsistent' /\ NoLostWakeup'
    <2>1. /\ deferq_task_group_' = deferq_task_group_
          /\ deferq_task_entry_' = deferq_task_entry_ /\ defer_key' = defer_key
          /\ \A f \in Entries : deferq_task_group_[f] \in Groups \cup {NULL}
          /\ \A f \in Entries : deferq_task_entry_[f] \in Entries \cup {stop_entry, NULL}
      BY <1>1, Zenon DEF deferVars, DeferTypes
    <2>2. ASSUME NEW f \in Entries, deferq_task_group_[f] # NULL, GroupPending(f)
          PROVE  GroupPending(f)'
      <3>1. group_run_count_[deferq_task_group_[f]] # 0
        BY <1>1, <2>2, Zenon DEF GroupPending
      <3>2. CASE deferq_task_group_[f] # g
        BY <1>6, <2>1, <2>2, <3>1, <3>2, Zenon DEF GroupPending
      <3>3. CASE deferq_task_group_[f] = g /\ ~groupDone
        BY <1>6, <2>1, <3>3, Zenon DEF GroupPending
      <3>4. CASE deferq_task_group_[f] = g /\ groupDone
        <4>1. git' # NULL /\ defer_key'[git'] <= defer_key'[f]
          BY <1>9, <1>10, <2>1, <3>4, Zenon
        <4> QED BY <1>1, <1>3, <2>1, <3>4, <4>1, Zenon DEF GroupPending, Ahead, g
      <3> QED BY <3>2, <3>3, <3>4, ZenonT(30)
    <2>3. ASSUME NEW f \in Entries, deferq_task_entry_[f] # NULL, EntryPending(f)
          PROVE  EntryPending(f)'
      <3>1. IF deferq_task_entry_[f] = stop_entry THEN ~running_
            ELSE run_count_[deferq_task_entry_[f]] # 0
        BY <1>1, <2>3, Zenon DEF EntryPending, Ahead
      <3>2. CASE deferq_task_entry_[f] # e
        BY <1>1, <1>6, <2>1, <2>3, <3>1, <3>2, Zenon DEF EntryPending
      <3>3. CASE deferq_task_entry_[f] = e /\ ~entryDone
        BY <1>3, <1>6, <2>1, <3>3, Zenon DEF EntryPending
      <3>4. CASE deferq_task_entry_[f] = e /\ entryDone
        <4>1. eit' # NULL /\ defer_key'[eit'] <= defer_key'[f]
          BY <1>9, <1>10, <2>1, <3>4, Zenon
        <4> QED BY <1>1, <1>3, <2>1, <3>4, <4>1, Zenon DEF EntryPending, Ahead
      <3> QED BY <3>2, <3>3, <3>4, Zenon
    <2> QED BY <1>1, <2>2, <2>3, QuietDefer, Zenon
  <1>12. PolicyTypes' /\ PolicySymmetric' /\ RulesInstalled'
    BY <1>1, <1>2, PolicyKept, Zenon
  <1>13. LockTypes'
    BY <1>1, <1>2, <1>3, <1>9, <1>10, Zenon DEF LockTypes
  <1>14. LockState'
    <2>1. group_deferq_' = group_deferq_ /\ deferq_' = deferq_
      BY <1>1, Zenon DEF deferVars
    <2>2. /\ git' # NULL => git' \in group_deferq_'[Group(cur')]
          /\ eit' # NULL => eit' \in deferq_'[cur']
      BY <1>1, <1>10, <2>1, Zenon DEF g
    <2>3. /\ mode' \in {"idle", "policy", "entry", "exit"} => git' = NULL
          /\ mode' \in {"idle", "policy", "group", "exit"} => eit' = NULL
      BY <1>2, <1>10, Zenon
    <2> QED BY <1>1, <1>2, <1>3, <2>2, <2>3, Zenon DEF LockState
  <1> QED BY <1>5, <1>7, <1>8, <1>11, <1>12, <1>13, <1>14, Zenon DEF IInv, TypeOK

-----------------------------------------------------------------------------
(* The invariant.                                                          *)

LEMMA InitInv == Init => IInv
  <1> SUFFICES ASSUME Init PROVE IInv
    BY Zenon
  <1>1. PolicyTypes
    BY DEF Init, PolicyTypes
  <1>2. TaskTypes
    BY MaxSeqnoAssumption DEF Init, TaskTypes
  <1>3. RunTypes
    BY Zenon DEF Init, RunTypes
  <1>4. DeferTypes
    BY MaxSeqnoAssumption DEF Init, DeferTypes
  <1>5. LockTypes
    BY Zenon DEF Init, LockTypes
  <1>6. PolicySymmetric
    <2>1. /\ \A g \in Groups : Elements(policy_[g]) = {}
          /\ \A e \in Entries : Elements(policyq_[e]) = IF Instance(e) = -1 THEN {} ELSE {e}
      BY DEF Init, Elements
    <2> QED BY <2>1, Zenon DEF PolicySymmetric
  <1>7. RulesInstalled
    BY Zenon DEF Init, RulesInstalled, Applied
  <1>8. NoConflict
    BY DEF Init, NoConflict
  <1>9. SeqnoUnique
    BY DEF Init, SeqnoUnique
  <1>10. LockState
    BY Zenon DEF Init, LockState
  <1>11. RunCountsExact
    <2>1. \A t \in Tasks : ~Running(t)
      BY Zenon DEF Init, Running
    <2>2. /\ \A f : {t \in Tasks : Running(t) /\ EntryOf[t] = f} = {}
          /\ \A g : {t \in Tasks : Running(t) /\ Group(EntryOf[t]) = g} = {}
      BY <2>1, Zenon
    <2> QED BY <2>2, FS_EmptySet, Zenon DEF Init, RunCountsExact
  <1>12. WaitQOrdered
    BY DEF Init, WaitQOrdered, Elements
  <1>13. DeferQConsistent
    BY EntryFacts, Zenon DEF Init, DeferQConsistent
  <1>14. NoLostWakeup
    BY Zenon DEF Init, NoLostWakeup
  <1> QED BY <1>1, <1>2, <1>3, <1>4, <1>5, <1>6, <1>7, <1>8, <1>9, <1>10, <1>11, SMTT(30),
             <1>12, <1>13, <1>14 DEF IInv, TypeOK

LEMMA NextInv == IInv /\ [Next]_vars => IInv'
  <1> SUFFICES ASSUME IInv, [Next]_vars PROVE IInv'
    BY Zenon
  <1>1. CASE \E g \in Groups : SetPolicy(g)
    BY <1>1, SetPolicyInv, Zenon
  <1>2. CASE \E t \in Tasks : Enqueue(t) \/ CancelRunning(t) \/ CancelWaiting(t)
    BY <1>2, EnqueueActionInv, CancelRunningInv, CancelWaitingInv, Zenon
  <1>3. CASE \E t \in Tasks, complete \in BOOLEAN : OnTaskExit(t, complete)
    BY <1>3, OnTaskExitInv, Zenon
  <1>4. CASE Stop
    BY <1>4, StopInv, Zenon
  <1>5. CASE Start
    BY <1>5, StartInv, Zenon
  <1>6. CASE Locked
    <2>1. CASE AddPolicy BY <2>1, IdleGroup, AddPolicyInv, Zenon
    <2>2. CASE SetPolicyDone BY <2>2, SetPolicyDoneInv, Zenon
    <2>3. CASE RunCombinedDeferQ
      BY <2>3, GroupTurnInv, EntryTurnInv, Zenon DEF RunCombinedDeferQ
    <2>4. CASE RunCombinedDeferQRest BY <2>4, RunCombinedDeferQRestInv, Zenon
    <2>5. CASE GroupRunDeferQ
      BY <2>5, GroupTurnInv, Zenon DEF GroupRunDeferQ
    <2>6. CASE RunDeferQ
      BY <2>6, EntryTurnInv, Zenon DEF RunDeferQ
    <2>7. CASE RunDeferQDone BY <2>7, RunDeferQDoneInv, Zenon
    <2>8. CASE OnTaskExitDone BY <2>8, OnTaskExitDoneInv, Zenon
    <2> QED BY <1>6, <2>1, <2>2, <2>3, <2>4, <2>5, <2>6, <2>7, <2>8, SMTT(30) DEF Locked
  <1>7. CASE UNCHANGED vars
    BY <1>7, StutterInv, Zenon
  <1> QED BY <1>1, <1>2, <1>3, <1>4, <1>5, <1>6, <1>7, Zenon DEF Next

-----------------------------------------------------------------------------
(* What it is for.                                                         *)

\* Counts are exact and conflicting counts are never both positive, so no two
\* running tasks are excluded from each other.
LEMMA InvImpliesMutualExclusion == IInv => MutualExclusion
  <1> SUFFICES ASSUME IInv, NEW t \in Tasks, NEW u \in Tasks, t # u, Running(t), Running(u),
                      Excluded(EntryOf[t], EntryOf[u])
               PROVE  FALSE
    BY Zenon DEF MutualExclusion
  <1> RulesInstalled /\ NoConflict /\ RunCountsExact /\ PolicySymmetric /\ RunTypes
    BY Zenon DEF IInv, TypeOK
  <1> DEFINE e == EntryOf[t]
             f == EntryOf[u]
             R(x) == {v \in Tasks : Running(v) /\ EntryOf[v] = x}
             G(x) == {v \in Tasks : Running(v) /\ Group(EntryOf[v]) = x}
  <1>1. e \in Entries /\ f \in Entries /\ Group(e) \in Groups /\ Group(f) \in Groups
    BY TasksAssumption, EntryFacts, Zenon
  <1>2. \A x : IsFiniteSet(R(x)) /\ IsFiniteSet(G(x))
    BY TasksAssumption, FS_Subset, Zenon
  <1>3. t \in R(e) /\ u \in R(f) /\ t \in G(Group(e)) /\ u \in G(Group(f))
    BY Zenon
  <1>4. /\ \A x \in Entries : run_count_[x] = Cardinality(R(x))
        /\ \A x \in Groups : group_run_count_[x] = Cardinality(G(x))
    BY ZenonT(30) DEF RunCountsExact
  <1> HIDE DEF R, G
  <1>5. /\ run_count_[e] # 0 /\ run_count_[f] # 0
        /\ group_run_count_[Group(e)] # 0 /\ group_run_count_[Group(f)] # 0
    BY <1>1, <1>2, <1>3, <1>4, FS_EmptySet, Zenon
  <1>6. ~(e = f /\ Instance(e) # -1)
    <2> SUFFICES ASSUME e = f, Instance(e) # -1 PROVE FALSE
      BY Zenon
    <2>1. run_count_[e] <= 1 /\ run_count_[e] = Cardinality(R(e))
      BY <1>1, <1>4, Zenon DEF NoConflict
    <2>2. Cardinality(R(e) \ {t}) = Cardinality(R(e)) - 1 /\ IsFiniteSet(R(e) \ {t})
      BY <1>2, <1>3, FS_RemoveElement, Zenon
    <2>3. u \in R(e) \ {t}
      BY <1>3, Zenon
    <2>4. Cardinality(R(e) \ {t}) # 0
      BY <2>2, <2>3, FS_EmptySet, Zenon
    <2>5. Cardinality(R(e)) \in Nat /\ Cardinality(R(e) \ {t}) \in Nat
      BY <1>2, <2>2, FS_CardinalityType, Zenon
    <2> QED BY <2>1, <2>2, <2>4, <2>5
  <1>7. PICK i \in DOMAIN Rules[Group(e)] :
           /\ Applied(Group(e), i)
           /\ Rules[Group(e)][i].match_id = Group(f)
           /\ \/ Rules[Group(e)][i].match_instance = -1
              \/ /\ Rules[Group(e)][i].match_instance = Instance(f)
                 /\ Instance(e) \in {Instance(f), -1}
    BY <1>6, Zenon DEF Excluded
  <1> DEFINE k == Rules[Group(e)][i].match_instance
  <1>8. IF k = -1 THEN Group(f) \in Elements(policy_[Group(e)])
        ELSE /\ <<Group(f), k>> \in Elements(policyq_[<<Group(e), k>>])
             /\ <<Group(f), k>> \in Elements(policyq_[<<Group(e), -1>>])
    BY <1>1, <1>7, Zenon DEF RulesInstalled
  <1>9. CASE k = -1
    BY <1>1, <1>5, <1>8, <1>9, Zenon DEF NoConflict
  <1>10. CASE k # -1
    <2>1. k = Instance(f) /\ (Instance(e) = k \/ Instance(e) = -1)
      BY <1>7, <1>10, Zenon
    <2>2. f = <<Group(f), k>> /\ (e = <<Group(e), k>> \/ e = <<Group(e), -1>>)
      <3>1. f = <<Group(f), Instance(f)>> /\ e = <<Group(e), Instance(e)>>
        BY <1>1, EntryFacts, ZenonT(30)
      <3> QED BY <2>1, <3>1, Zenon
    <2>3. f \in Elements(policyq_[e])
      <3>1. /\ <<Group(f), k>> \in Elements(policyq_[<<Group(e), k>>])
            /\ <<Group(f), k>> \in Elements(policyq_[<<Group(e), -1>>])
        BY <1>8, <1>10, Zenon
      <3> HIDE DEF k
      <3> QED BY <2>2, <3>1, Zenon
    <2>4. e # f
      BY <1>6, <1>10, <2>1, Zenon
    <2> QED BY <1>1, <1>5, <2>3, <2>4, ZenonT(30) DEF NoConflict
  <1> QED BY <1>9, <1>10, Zenon

\* IInv is an invariant of the scheduler for every set of task ids, instances,
\* tasks and policies, and with it everything it is made of.
THEOREM Invariance == Spec => []IInv
  <1> QED BY InitInv, NextInv, PTL DEF Spec

\* The variables of task.cc keep their types.
THEOREM TypeCorrect == Spec => []TypeOK
  <1>1. IInv => TypeOK BY Zenon DEF IInv
  <1> QED BY Invariance, <1>1, PTL

\* No two running tasks are excluded from each other by a policy that SetPolicy
\* has installed.
THEOREM Exclusion == Spec => []MutualExclusion
  <1> QED BY Invariance, InvImpliesMutualExclusion, PTL

\* An entry with waiting tasks is in one deferq_ that is going to be walked.
THEOREM Wakeup == Spec => []NoLostWakeup
  <1>1. IInv => NoLostWakeup BY Zenon DEF IInv
  <1> QED BY Invariance, <1>1, PTL

\* The counts that the policy checks read are exact, the trees hold the entries
\* that point back to them under unchanged keys, and waitq_ is in order.
THEOREM Bookkeeping == Spec => [](RunCountsExact /\ DeferQConsistent /\ WaitQOrdered)
  <1>1. IInv => RunCountsExact /\ DeferQConsistent /\ WaitQOrdered BY Zenon DEF IInv
  <1> QED BY Invariance, <1>1, PTL

\* Tasks of one entry start in the order they were enqueued.
THEOREM StartOrder == Spec => StartInOrder
  <1> QED BY Invariance, NextInOrder, PTL DEF Spec, StartInOrder

\* task.cc implements what task.h promises: whatever the task ids, instances,
\* tasks and rules, its queues, counts and walks start tasks of an entry in
\* order, and start none that is excluded from a running one.
THEOREM Refinement == Spec => Implements
  <1> QED BY Invariance, Exclusion, InitRefines, NextRefines, PTL
             DEF Spec, Implements, Abstract!Spec
=============================================================================
