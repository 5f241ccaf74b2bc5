------------------------- MODULE TaskSchedulerWalks -------------------------
EXTENDS TaskSchedulerLemmas, FiniteSetTheorems

-----------------------------------------------------------------------------
(* Least elements: begin() of a deferq_, the first active entry of a policy.*)

LEMMA MinNat ==
  ASSUME NEW S, S \subseteq Nat, S # {}
  PROVE  \E m \in S : \A n \in S : m <= n
  <1>1. \E m \in S : \A n \in S : ~ (<<n, m>> \in OpToRel(<, Nat))
    BY NatLessThanWellFounded, WFMin, Zenon
  <1>2. PICK m \in S : \A n \in S : ~ (<<n, m>> \in OpToRel(<, Nat))
    BY <1>1, Zenon
  <1>3. \A n \in S : ~ (n < m)
    BY <1>2, Zenon DEF OpToRel
  <1> QED BY <1>3

\* begin() of a deferq_ is its entry with the least key.
LEMMA FirstIsLeast ==
  ASSUME NEW q \in SUBSET Entries, q # {}, DeferTypes
  PROVE  First(q) \in q /\ \A f \in q : defer_key[First(q)] <= defer_key[f]
  <1> DEFINE K == {defer_key[e] : e \in q}
  <1>1. K \subseteq Nat /\ K # {}
    BY MaxSeqnoAssumption DEF DeferTypes
  <1>2. PICK m \in K : \A n \in K : m <= n
    BY <1>1, MinNat, Zenon
  <1>3. PICK e \in q : defer_key[e] = m
    BY <1>2, Zenon
  <1>4. \E x \in q : \A f \in q : defer_key[x] <= defer_key[f]
    BY <1>2, <1>3, Zenon
  <1> QED BY <1>4, Zenon DEF First

LEMMA ActiveGroup ==
  ASSUME NEW g \in Groups, PolicyTypes, RunTypes
  PROVE  /\ ActiveGroupInPolicy(g) = NULL =>
               \A h \in Elements(policy_[g]) : group_run_count_[h] = 0
         /\ ActiveGroupInPolicy(g) # NULL =>
               /\ ActiveGroupInPolicy(g) \in Groups
               /\ group_run_count_[ActiveGroupInPolicy(g)] # 0
  <1> DEFINE active == {i \in DOMAIN policy_[g] : group_run_count_[policy_[g][i]] # 0}
  <1>1. CASE active = {}
    BY <1>1, Zenon DEF ActiveGroupInPolicy, Elements
  <1>2. CASE active # {}
    <2>1. active \subseteq Nat
      BY DEF PolicyTypes
    <2>2. PICK m \in active : \A n \in active : m <= n
      BY <1>2, <2>1, MinNat, Zenon
    <2> DEFINE c == CHOOSE i \in active : \A j \in active : i <= j
    <2>3. c \in active
      BY <2>2, Zenon
    <2>4. ActiveGroupInPolicy(g) = policy_[g][c]
      BY <1>2, Zenon DEF ActiveGroupInPolicy
    <2>5. policy_[g][c] \in Groups /\ group_run_count_[policy_[g][c]] # 0
      BY <2>3 DEF PolicyTypes
    <2> QED BY <2>4, <2>5, EntryFacts, Zenon
  <1> QED BY <1>1, <1>2, Zenon

LEMMA ActiveEntry ==
  ASSUME NEW e \in Entries, PolicyTypes, RunTypes
  PROVE  /\ ActiveEntryInPolicy(e) = NULL =>
               \A f \in Elements(policyq_[e]) : run_count_[f] = 0
         /\ ActiveEntryInPolicy(e) # NULL =>
               /\ ActiveEntryInPolicy(e) \in Entries
               /\ run_count_[ActiveEntryInPolicy(e)] # 0
  <1> DEFINE active == {i \in DOMAIN policyq_[e] : run_count_[policyq_[e][i]] # 0}
  <1>1. CASE active = {}
    BY <1>1, Zenon DEF ActiveEntryInPolicy, Elements
  <1>2. CASE active # {}
    <2>1. active \subseteq Nat
      BY DEF PolicyTypes
    <2>2. PICK m \in active : \A n \in active : m <= n
      BY <1>2, <2>1, MinNat, Zenon
    <2> DEFINE c == CHOOSE i \in active : \A j \in active : i <= j
    <2>3. c \in active
      BY <2>2, Zenon
    <2>4. ActiveEntryInPolicy(e) = policyq_[e][c]
      BY <1>2, Zenon DEF ActiveEntryInPolicy
    <2>5. policyq_[e][c] \in Entries /\ run_count_[policyq_[e][c]] # 0
      BY <2>3 DEF PolicyTypes
    <2> QED BY <2>4, <2>5, EntryFacts, Zenon
  <1> QED BY <1>1, <1>2, Zenon

\* The iterator after e passes no other entry of the tree that is not before e.
LEMMA SuccFacts ==
  ASSUME TaskTypes, DeferTypes, SeqnoUnique, WaitQOrdered, DeferQConsistent,
         NEW q \in SUBSET Entries, NEW e \in q, \A f \in q : waitq_[f] # <<>>
  PROVE  /\ Succ(q, e) \in (q \ {e}) \cup {NULL}
         /\ \A f \in q \ {e} : defer_key[e] <= defer_key[f] =>
               /\ Succ(q, e) # NULL /\ Succ(q, e) # e
               /\ defer_key[Succ(q, e)] <= defer_key[f]
  <1> DEFINE r == {f \in q : defer_key[f] > defer_key[e]}
  <1>1. r \in SUBSET Entries /\ r \subseteq q /\ e \notin r
    BY MaxSeqnoAssumption DEF DeferTypes
  <1>2. Succ(q, e) = First(r) /\ (r = {} => First(r) = NULL)
    BY Zenon DEF Succ, First
  <1>3. \A f \in q \ {e} : defer_key[e] <= defer_key[f] => f \in r
    <2> SUFFICES ASSUME NEW f \in q, f # e, defer_key[e] <= defer_key[f]
                 PROVE  defer_key[f] > defer_key[e]
      BY Zenon
    <2>1. defer_key[e] # defer_key[f] /\ defer_key[e] \in Nat /\ defer_key[f] \in Nat
      BY KeysDiffer, Zenon
    <2> QED BY <2>1
  <1> HIDE DEF r
  <1>4. r # {} => First(r) \in r /\ \A f \in r : defer_key[First(r)] <= defer_key[f]
    BY <1>1, FirstIsLeast, Zenon
  <1>5. \A x \in r : x # NULL /\ x # e
    BY <1>1, EntryFacts, Zenon
  <1> QED BY <1>1, <1>2, <1>3, <1>4, <1>5, Zenon

-----------------------------------------------------------------------------
(* The run counts.                                                         *)

\* A sequence of distinct tasks has as many elements as positions.
LEMMA ElementsCardinality ==
  ASSUME NEW ts \in Seq(Tasks), \A i, j \in DOMAIN ts : i # j => ts[i] # ts[j]
  PROVE  IsFiniteSet(Elements(ts)) /\ Cardinality(Elements(ts)) = Len(ts)
  <1>1. ts \in Bijection(1 .. Len(ts), Elements(ts))
    BY DEF Bijection, Injection, Surjection, Elements, IsInjective
  <1>2. ExistsBijection(1 .. Len(ts), Elements(ts)) /\ Len(ts) \in Nat
    BY <1>1 DEF ExistsBijection
  <1> QED BY <1>2, FS_CountingElements, FS_NatBijection, Zenon

\* Two disjoint finite sets: what the counts of started tasks add up to.
LEMMA DisjointUnion ==
  ASSUME NEW S, NEW T, IsFiniteSet(S), IsFiniteSet(T), S \cap T = {}
  PROVE  Cardinality(S \cup T) = Cardinality(S) + Cardinality(T)
  <1>1. Cardinality(S) \in Nat /\ Cardinality(T) \in Nat /\ Cardinality(S \cap T) = 0
    BY FS_CardinalityType, FS_EmptySet, Zenon
  <1>2. Cardinality(S \cup T) = Cardinality(S) + Cardinality(T) - Cardinality(S \cap T)
    BY FS_Union, Zenon
  <1> QED BY <1>1, <1>2

\* RunTask for distinct tasks of one entry keeps the counts exact.
LEMMA StartCounts ==
  ASSUME RunTypes, RunCountsExact,
         NEW e \in Entries, NEW ts \in Seq(Tasks), ts # <<>>,
         \A i, j \in DOMAIN ts : i # j => ts[i] # ts[j],
         \A t \in Elements(ts) : EntryOf[t] = e /\ ~Running(t),
         \A t \in Tasks : Running(t)' <=> Running(t) \/ t \in Elements(ts),
         RunTasks(e, ts)
  PROVE  RunTypes' /\ RunCountsExact'
  <1> DEFINE R(f) == {t \in Tasks : Running(t) /\ EntryOf[t] = f}
             G(h) == {t \in Tasks : Running(t) /\ Group(EntryOf[t]) = h}
             RP(f) == {t \in Tasks : Running(t)' /\ EntryOf[t] = f}
             GP(h) == {t \in Tasks : Running(t)' /\ Group(EntryOf[t]) = h}
             E == Elements(ts)
             g == Group(e)
  <1>1. /\ IsFiniteSet(E) /\ Cardinality(E) = Len(ts)
        /\ E \subseteq Tasks
        /\ Len(ts) \in Nat \ {0} /\ Head(ts) \in Tasks
    <2>1. IsFiniteSet(E) /\ Cardinality(E) = Len(ts)
      BY ElementsCardinality, Zenon
    <2>2. E \subseteq Tasks
      BY DEF Elements
    <2>3. Len(ts) \in Nat \ {0} /\ Head(ts) \in Tasks
      OBVIOUS
    <2> QED BY <2>1, <2>2, <2>3, Zenon
  <1>2. g \in Groups
    BY EntryFacts, Zenon
  <1>3. \A f : IsFiniteSet(R(f)) /\ IsFiniteSet(G(f))
    BY TasksAssumption, FS_Subset, Zenon
  <1>4. RP(e) = R(e) \cup E /\ R(e) \cap E = {} /\ GP(g) = G(g) \cup E /\ G(g) \cap E = {}
    BY <1>1, Zenon
  <1>5. /\ \A f \in Entries \ {e} : RP(f) = R(f)
        /\ \A h \in Groups \ {g} : GP(h) = G(h)
    BY <1>1, Zenon
  <1>10. /\ \A f \in Entries : run_count_[f] = Cardinality(R(f))
         /\ \A h \in Groups : group_run_count_[h] = Cardinality(G(h))
         /\ \A f \in Entries : run_task_[f] # NULL <=> Instance(f) # -1 /\ run_count_[f] # 0
    BY Zenon DEF RunCountsExact
  <1> HIDE DEF R, G, RP, GP, E
  <1>6. Cardinality(RP(e)) = Cardinality(R(e)) + Len(ts)
    BY <1>1, <1>3, <1>4, DisjointUnion, Zenon
  <1>7. Cardinality(GP(g)) = Cardinality(G(g)) + Len(ts)
    BY <1>1, <1>3, <1>4, DisjointUnion, Zenon
  <1>8. /\ run_count_' = [run_count_ EXCEPT ![e] = @ + Len(ts)]
        /\ run_task_' = [run_task_ EXCEPT ![e] = IF Instance(e) = -1 THEN @ ELSE Head(ts)]
        /\ group_run_count_' = [group_run_count_ EXCEPT ![g] = @ + Len(ts)]
    BY Zenon DEF RunTasks
  <1>9. RunTypes'
    BY <1>1, <1>2, <1>8 DEF RunTypes
  <1>11. \A f \in Entries : run_count_'[f] = Cardinality(RP(f))
    BY <1>1, <1>5, <1>6, <1>8, <1>10, Zenon DEF RunTypes
  <1>12. \A h \in Groups : group_run_count_'[h] = Cardinality(GP(h))
    BY <1>1, <1>2, <1>5, <1>7, <1>8, <1>10, Zenon DEF RunTypes
  <1>13. \A f \in Entries : run_task_'[f] # NULL <=> Instance(f) # -1 /\ run_count_'[f] # 0
    <2>1. \A f \in Entries \ {e} : run_task_'[f] = run_task_[f] /\ run_count_'[f] = run_count_[f]
      BY <1>8, Zenon DEF RunTypes
    <2>2. run_count_'[e] # 0
      BY <1>1, <1>8 DEF RunTypes
    <2>3. run_task_'[e] = IF Instance(e) = -1 THEN run_task_[e] ELSE Head(ts)
      BY <1>8, Zenon DEF RunTypes
    <2> QED BY <1>1, <1>10, <2>1, <2>2, <2>3, EntryFacts
  <1> QED BY <1>9, <1>11, <1>12, <1>13, Zenon DEF RunCountsExact, R, G, RP, GP

\* TaskExited keeps the counts exact.
LEMMA ExitCounts ==
  ASSUME RunTypes, RunCountsExact, NoConflict,
         NEW t \in Tasks, Running(t),
         \A u \in Tasks : Running(u)' <=> Running(u) /\ u # t,
         TaskExited(EntryOf[t])
  PROVE  /\ RunTypes' /\ RunCountsExact'
         /\ run_count_[EntryOf[t]] # 0 /\ group_run_count_[Group(EntryOf[t])] # 0
  <1> DEFINE R(f) == {u \in Tasks : Running(u) /\ EntryOf[u] = f}
             G(h) == {u \in Tasks : Running(u) /\ Group(EntryOf[u]) = h}
             RP(f) == {u \in Tasks : Running(u)' /\ EntryOf[u] = f}
             GP(h) == {u \in Tasks : Running(u)' /\ Group(EntryOf[u]) = h}
             e == EntryOf[t]
             g == Group(e)
  <1>1. e \in Entries /\ g \in Groups
    BY EntryFacts, TasksAssumption, Zenon
  <1>2. \A f : IsFiniteSet(R(f)) /\ IsFiniteSet(G(f))
    BY TasksAssumption, FS_Subset, Zenon
  <1>3. t \in R(e) /\ t \in G(g) /\ RP(e) = R(e) \ {t} /\ GP(g) = G(g) \ {t}
    BY Zenon
  <1>4. /\ \A f \in Entries \ {e} : RP(f) = R(f)
        /\ \A h \in Groups \ {g} : GP(h) = G(h)
    BY Zenon
  <1>7. /\ \A f \in Entries : run_count_[f] = Cardinality(R(f))
        /\ \A h \in Groups : group_run_count_[h] = Cardinality(G(h))
        /\ \A f \in Entries : run_task_[f] # NULL <=> Instance(f) # -1 /\ run_count_[f] # 0
        /\ \A f \in Entries : Instance(f) # -1 => run_count_[f] <= 1
    BY Zenon DEF RunCountsExact, NoConflict
  <1> HIDE DEF R, G, RP, GP
  <1>5. /\ Cardinality(RP(e)) = Cardinality(R(e)) - 1
        /\ Cardinality(GP(g)) = Cardinality(G(g)) - 1
        /\ Cardinality(R(e)) # 0 /\ Cardinality(G(g)) # 0
    <2>1. Cardinality(R(e) \ {t}) = Cardinality(R(e)) - 1
      BY <1>2, <1>3, FS_RemoveElement, Zenon
    <2>2. Cardinality(G(g) \ {t}) = Cardinality(G(g)) - 1
      BY <1>2, <1>3, FS_RemoveElement, Zenon
    <2>3. Cardinality(R(e)) # 0 /\ Cardinality(G(g)) # 0
      BY <1>2, <1>3, FS_EmptySet, Zenon
    <2> QED BY <1>3, <2>1, <2>2, <2>3, Zenon
  <1>6. /\ run_count_' = [run_count_ EXCEPT ![e] = @ - 1]
        /\ run_task_' = [run_task_ EXCEPT ![e] = NULL]
        /\ group_run_count_' = [group_run_count_ EXCEPT ![g] = @ - 1]
    BY Zenon DEF TaskExited
  <1>8. RunTypes'
    BY <1>1, <1>5, <1>6, <1>7 DEF RunTypes
  <1>9. \A f \in Entries : run_count_'[f] = Cardinality(RP(f))
    BY <1>1, <1>4, <1>5, <1>6, <1>7, Zenon DEF RunTypes
  <1>10. \A h \in Groups : group_run_count_'[h] = Cardinality(GP(h))
    BY <1>1, <1>4, <1>5, <1>6, <1>7, Zenon DEF RunTypes
  <1>11. \A f \in Entries : run_task_'[f] # NULL <=> Instance(f) # -1 /\ run_count_'[f] # 0
    <2>1. \A f \in Entries \ {e} : run_task_'[f] = run_task_[f] /\ run_count_'[f] = run_count_[f]
      BY <1>6, Zenon DEF RunTypes
    <2>2. Instance(e) # -1 => run_count_'[e] = 0
      BY <1>1, <1>5, <1>6, <1>7 DEF RunTypes
    <2>3. run_task_'[e] = NULL
      BY <1>1, <1>6, Zenon DEF RunTypes
    <2> QED BY <1>7, <2>1, <2>2, <2>3, Zenon
  <1> QED BY <1>1, <1>5, <1>7, <1>8, <1>9, <1>10, <1>11, Zenon DEF RunCountsExact, R, G, RP, GP

\* Starting an entry whose policies have no active group or entry creates no
\* conflict.
LEMMA StartNoConflict ==
  ASSUME PolicyTypes, RunTypes, PolicySymmetric, NoConflict,
         NEW e \in Entries, NEW ts \in Seq(Tasks), ts # <<>>,
         ActiveGroupInPolicy(Group(e)) = NULL, ActiveEntryInPolicy(e) = NULL,
         Instance(e) # -1 => Len(ts) = 1,
         RunTasks(e, ts), UNCHANGED policyVars
  PROVE  NoConflict'
  <1> DEFINE g == Group(e)
  <1>1. g \in Groups
    BY EntryFacts, Zenon
  <1>2. /\ \A h \in Elements(policy_[g]) : group_run_count_[h] = 0
        /\ \A f \in Elements(policyq_[e]) : run_count_[f] = 0
    BY <1>1, ActiveGroup, ActiveEntry, Zenon
  <1>3. /\ \A h \in Groups \ {g} : group_run_count_'[h] = group_run_count_[h]
        /\ \A f \in Entries \ {e} : run_count_'[f] = run_count_[f]
        /\ run_count_'[e] = run_count_[e] + Len(ts)
    BY Zenon DEF RunTasks, RunTypes
  <1>4. policy_' = policy_ /\ policyq_' = policyq_
    BY Zenon DEF policyVars
  <1>5. \A h, k \in Groups :
           k \in Elements(policy_[h]) => group_run_count_'[h] = 0 \/ group_run_count_'[k] = 0
    BY <1>1, <1>2, <1>3 DEF NoConflict, PolicySymmetric
  <1>6. \A f, k \in Entries :
           k \in Elements(policyq_[f]) /\ k # f => run_count_'[f] = 0 \/ run_count_'[k] = 0
    BY <1>2, <1>3 DEF NoConflict, PolicySymmetric
  <1>7. \A f \in Entries : Instance(f) # -1 => run_count_'[f] <= 1
    <2>1. Instance(e) # -1 => run_count_[e] = 0
      BY <1>2, Zenon DEF PolicySymmetric
    <2>2. \A f \in Entries : Instance(f) # -1 => run_count_[f] <= 1
      BY Zenon DEF NoConflict
    <2>3. Instance(e) # -1 => run_count_'[e] = 1
      <3> SUFFICES ASSUME Instance(e) # -1 PROVE run_count_'[e] = 1
        BY Zenon
      <3>1. run_count_[e] = 0 /\ Len(ts) = 1
        BY <2>1, Zenon
      <3> QED BY <1>3, <3>1
    <2> QED BY <1>3, <2>2, <2>3
  <1> QED BY <1>4, <1>5, <1>6, <1>7 DEF NoConflict, Elements

-----------------------------------------------------------------------------
(* The walks.                                                              *)

\* RunDeferEntry for an entry just deleted from the tree it was in.
LEMMA TurnInv ==
  ASSUME IInv, LockTypes', TurnUnchanged,
         NEW e \in Entries, NEW gq, NEW eq, waitq_[e] # <<>>,
         TreesWithout(e, gq, eq), RunDeferEntry(e, gq, eq),
         \A f \in Entries \ {e} :
            /\ cur # NULL /\ deferq_task_group_[f] = Group(cur) /\ Ahead(git, f) =>
                  cur' = cur /\ git' # NULL /\ git' # e /\ defer_key[git'] <= defer_key[f]
            /\ deferq_task_entry_[f] = cur /\ Ahead(eit, f) =>
                  cur' = cur /\ eit' # NULL /\ eit' # e /\ defer_key[eit'] <= defer_key[f]
  PROVE  /\ TaskTypes' /\ RunTypes' /\ DeferTypes'
         /\ NoConflict' /\ SeqnoUnique' /\ RunCountsExact'
         /\ WaitQOrdered' /\ DeferQConsistent' /\ NoLostWakeup'
         /\ exiting # NULL => state_'[exiting] = "RUN"
         /\ \A f \in Entries \ {e} :
               /\ \A g \in Groups : f \in group_deferq_[g] => f \in group_deferq_'[g]
               /\ \A h \in Entries \cup {stop_entry} : f \in deferq_[h] => f \in deferq_'[h]
  <1> DEFINE ag == ActiveGroupInPolicy(Group(e))
             ae == ActiveEntryInPolicy(e)
  <1>0. /\ PolicyTypes /\ TaskTypes /\ RunTypes /\ DeferTypes /\ LockTypes
        /\ PolicySymmetric /\ RulesInstalled /\ NoConflict /\ SeqnoUnique /\ LockState
        /\ RunCountsExact /\ WaitQOrdered /\ DeferQConsistent /\ NoLostWakeup
    BY Zenon DEF IInv, TypeOK
  <1> USE <1>0
  <1>1. /\ running_' = running_ /\ seqno_' = seqno_ /\ seqno' = seqno
        /\ task_cancel_' = task_cancel_ /\ exiting' = exiting /\ UNCHANGED policyVars
        /\ policy_' = policy_ /\ policyq_' = policyq_
    BY Zenon DEF TurnUnchanged, policyVars
  <1>2. /\ ag # NULL => ag \in Groups /\ group_run_count_[ag] # 0
        /\ ae # NULL => ae \in Entries /\ run_count_[ae] # 0
    BY EntryFacts, ActiveGroup, ActiveEntry, Zenon
  <1> HIDE DEF ag, ae
  <1>3. Head(waitq_[e]) \in Tasks /\ seqno[Head(waitq_[e])] \in 0 .. MaxSeqno
    BY DEF TaskTypes
  <1>4. CASE UNCHANGED <<state_, waitq_, runVars>> /\
             \E tg \in Groups \cup {NULL}, te \in Entries \cup {NULL} :
                /\ tg = NULL \/ te = NULL
                /\ tg # NULL \/ te # NULL
                /\ tg # NULL => group_run_count_[tg] # 0
                /\ te # NULL => run_count_[te] # 0
                /\ AddToDeferQ(e, gq, eq, tg, te, seqno[Head(waitq_[e])])
    <2>1. /\ state_' = state_ /\ waitq_' = waitq_
          /\ run_count_' = run_count_ /\ run_task_' = run_task_
          /\ group_run_count_' = group_run_count_
      BY <1>4, Zenon DEF runVars
    <2>2. PICK tg \in Groups \cup {NULL}, te \in Entries \cup {NULL} :
             /\ tg = NULL \/ te = NULL
             /\ tg # NULL \/ te # NULL
             /\ tg # NULL => group_run_count_[tg] # 0
             /\ te # NULL => run_count_[te] # 0
             /\ AddToDeferQ(e, gq, eq, tg, te, seqno[Head(waitq_[e])])
      BY <1>4, Zenon
    <2>3. TaskTypes' /\ RunTypes'
      BY <1>1, <2>1, Zenon DEF TaskTypes, RunTypes
    <2>4. NoConflict' /\ SeqnoUnique' /\ RunCountsExact' /\ WaitQOrdered'
          /\ (exiting # NULL => state_'[exiting] = "RUN")
      <3>1. NoConflict' BY <1>1, <2>1, Zenon DEF NoConflict
      <3>2. SeqnoUnique' BY <1>1, <2>1, Zenon DEF SeqnoUnique
      <3>3. RunCountsExact' BY <1>1, <2>1, Zenon DEF RunCountsExact, Running
      <3>4. WaitQOrdered' BY <1>1, <2>1, Zenon DEF WaitQOrdered
      <3> QED BY <2>1, <3>1, <3>2, <3>3, <3>4, Zenon DEF LockState
    <2>5. \A f \in Entries \ {e} :
            /\ deferq_task_group_'[f] = deferq_task_group_[f]
               /\ deferq_task_group_[f] # NULL /\ GroupPending(f) => GroupPending(f)'
            /\ deferq_task_entry_'[f] = deferq_task_entry_[f]
               /\ deferq_task_entry_[f] # NULL /\ EntryPending(f) => EntryPending(f)'
      BY <1>1, <2>1, <2>2, OthersPending, Zenon
    <2>6. DeferTypes' /\ DeferQConsistent' /\ NoLostWakeup'
      <3>1. Deferral(e, tg, te, seqno[Head(waitq_[e])])
        BY <1>1, <2>1, <2>2, EntryFacts, Zenon DEF Deferral
      <3>2. OthersKept(e)
        BY <1>1, <2>1, <2>5, Zenon DEF OthersKept
      <3> QED BY <2>2, <2>3, <3>1, <3>2, DeferStep, Zenon
    <2>7. \A f \in Entries \ {e} :
               /\ \A g \in Groups : f \in group_deferq_[g] => f \in group_deferq_'[g]
               /\ \A h \in Entries \cup {stop_entry} : f \in deferq_[h] => f \in deferq_'[h]
      BY <2>2, Zenon DEF AddToDeferQ, TreesWithout
    <2> QED BY <2>3, <2>4, <2>6, <2>7, Zenon
  <1>5. CASE /\ ag = NULL /\ ae = NULL
             /\ RunTasks(e, Runnable(e))
             /\ waitq_' = [waitq_ EXCEPT ![e] = Remaining(e)]
             /\ IF Remaining(e) = <<>>
                THEN AddToDeferQ(e, gq, eq, NULL, NULL, 0)
                ELSE AddToDeferQ(e, gq, eq, NULL, e, seqno[Head(Remaining(e))])
    <2> DEFINE R == Runnable(e)
               M == Remaining(e)
    <2>1. /\ R \in Seq(Tasks) /\ R # <<>>
          /\ Instance(e) # -1 => Len(R) = 1
          /\ \A i, j \in DOMAIN R : i # j => R[i] # R[j]
          /\ M \in Seq(Tasks)
          /\ M # <<>> => Instance(e) # -1
          /\ \A t : t \in Elements(waitq_[e]) <=> t \in Elements(R) \/ t \in Elements(M)
          /\ \A t : ~ (t \in Elements(R) /\ t \in Elements(M))
          /\ \A i, j \in DOMAIN M : i < j => seqno[M[i]] < seqno[M[j]]
      BY RunnableFacts, Zenon
    <2> HIDE DEF R, M
    <2>2. /\ RunTasks(e, R)
          /\ waitq_' = [waitq_ EXCEPT ![e] = M]
          /\ ag = NULL /\ ae = NULL
          /\ AddToDeferQ(e, gq, eq, NULL, IF M = <<>> THEN NULL ELSE e,
                         IF M = <<>> THEN 0 ELSE seqno[Head(M)])
      BY <1>5, Zenon DEF R, M
    <2>3. /\ \A t \in Tasks : state_'[t] = IF t \in Elements(R) THEN "RUN" ELSE state_[t]
          /\ state_' \in [Tasks -> {"INIT", "WAIT", "RUN"}]
      BY <2>2, Zenon DEF RunTasks, TaskTypes
    <2>4. \A t \in Elements(R) : t \in Tasks /\ EntryOf[t] = e /\ state_[t] = "WAIT"
      <3>1. \A t \in Elements(R) : t \in Tasks
        BY <2>1 DEF Elements
      <3> QED BY <2>1, <3>1, Zenon DEF WaitQOrdered
    <2>5. \A t \in Elements(R) : ~Running(t) /\ t # exiting
      BY <2>4, EntryFacts, Zenon DEF Running, LockState
    <2>6. \A t \in Tasks : Running(t)' <=> Running(t) \/ t \in Elements(R)
      BY <1>1, <2>3, <2>5, Zenon DEF Running
    <2>7. RunTypes' /\ RunCountsExact'
      BY <2>1, <2>2, <2>4, <2>5, <2>6, StartCounts, SMTT(30)
    <2>8. NoConflict'
      BY <1>1, <2>1, <2>2, StartNoConflict, Zenon DEF ag, ae
    <2>9. /\ waitq_'[e] = M
          /\ \A f \in Entries \ {e} : waitq_'[f] = waitq_[f]
          /\ waitq_' \in [Entries -> Seq(Tasks)]
      BY <2>1, <2>2, Zenon DEF TaskTypes
    <2>10. TaskTypes'
      BY <1>1, <2>3, <2>9, Zenon DEF TaskTypes
    <2>11. SeqnoUnique' /\ (exiting # NULL => state_'[exiting] = "RUN")
      <3>1. exiting # NULL => exiting \in Tasks /\ state_[exiting] = "RUN"
        BY Zenon DEF LockState, LockTypes
      <3>2. SeqnoUnique'
        BY <1>1, <2>3, <2>4, Zenon DEF SeqnoUnique
      <3> QED BY <2>3, <3>1, <3>2, Zenon
    <2>12. WaitQOrdered'
      <3>1. \A f \in Entries : \A i, j \in DOMAIN waitq_'[f] :
               i < j => seqno'[waitq_'[f][i]] < seqno'[waitq_'[f][j]]
        BY <1>1, <2>1, <2>9, ZenonT(60) DEF WaitQOrdered
      <3>2. \A t \in Tasks, f \in Entries \ {e} :
               t \in Elements(waitq_'[f]) <=> state_'[t] = "WAIT" /\ f = EntryOf[t]
        BY <2>3, <2>4, <2>9, Zenon DEF WaitQOrdered
      <3>3. \A t \in Tasks : t \in Elements(waitq_'[e]) <=> state_'[t] = "WAIT" /\ e = EntryOf[t]
        BY <2>1, <2>3, <2>4, <2>9, ZenonT(60) DEF WaitQOrdered
      <3> QED BY <3>1, <3>2, <3>3 DEF WaitQOrdered, Elements
    <2>13. /\ \A h \in Groups : group_run_count_[h] # 0 => group_run_count_'[h] # 0
           /\ \A h \in Entries : run_count_[h] # 0 => run_count_'[h] # 0
           /\ run_count_'[e] # 0
      <3>1. Len(R) \in Nat /\ Len(R) # 0 /\ Group(e) \in Groups
        BY <2>1, EntryFacts
      <3>2. /\ run_count_' = [run_count_ EXCEPT ![e] = @ + Len(R)]
            /\ group_run_count_' = [group_run_count_ EXCEPT ![Group(e)] = @ + Len(R)]
        BY <2>2, Zenon DEF RunTasks
      <3> QED BY <3>1, <3>2 DEF RunTypes
    <2>14. \A f \in Entries \ {e} :
            /\ deferq_task_group_'[f] = deferq_task_group_[f]
               /\ deferq_task_group_[f] # NULL /\ GroupPending(f) => GroupPending(f)'
            /\ deferq_task_entry_'[f] = deferq_task_entry_[f]
               /\ deferq_task_entry_[f] # NULL /\ EntryPending(f) => EntryPending(f)'
      BY <1>1, <2>2, <2>13, OthersPending, ZenonT(30)
    <2>15. DeferTypes' /\ DeferQConsistent' /\ NoLostWakeup'
      <3>1. Deferral(e, NULL, IF M = <<>> THEN NULL ELSE e,
                     IF M = <<>> THEN 0 ELSE seqno[Head(M)])
        BY <1>1, <2>9, <2>13, EntryFacts, Zenon DEF Deferral
      <3>2. OthersKept(e)
        BY <1>1, <2>9, <2>14, Zenon DEF OthersKept
      <3> QED BY <2>2, <2>10, <3>1, <3>2, DeferStep, ZenonT(30)
    <2>16. \A f \in Entries \ {e} :
               /\ \A g \in Groups : f \in group_deferq_[g] => f \in group_deferq_'[g]
               /\ \A h \in Entries \cup {stop_entry} : f \in deferq_[h] => f \in deferq_'[h]
      BY <2>2 DEF AddToDeferQ, TreesWithout
    <2> QED BY <2>7, <2>8, <2>10, <2>11, <2>12, <2>15, <2>16, ZenonT(30)
  <1> QED
    <2>1. \/ /\ ag # NULL
             /\ AddToDeferQ(e, gq, eq, ag, NULL, seqno[Head(waitq_[e])])
             /\ UNCHANGED <<state_, waitq_, runVars>>
          \/ /\ ag = NULL /\ ae # NULL
             /\ AddToDeferQ(e, gq, eq, NULL, ae, seqno[Head(waitq_[e])])
             /\ UNCHANGED <<state_, waitq_, runVars>>
          \/ /\ ag = NULL /\ ae = NULL
             /\ RunTasks(e, Runnable(e))
             /\ waitq_' = [waitq_ EXCEPT ![e] = Remaining(e)]
             /\ IF Remaining(e) = <<>>
                THEN AddToDeferQ(e, gq, eq, NULL, NULL, 0)
                ELSE AddToDeferQ(e, gq, eq, NULL, e, seqno[Head(Remaining(e))])
      BY Zenon DEF RunDeferEntry, ag, ae
    <2> QED BY <1>2, <1>4, <1>5, <2>1, Zenon

LEMMA StartInv ==
  ASSUME IInv, Start
  PROVE  IInv'
  <1>0. /\ PolicyTypes /\ TaskTypes /\ RunTypes /\ DeferTypes /\ LockTypes
        /\ PolicySymmetric /\ RulesInstalled /\ NoConflict /\ SeqnoUnique /\ LockState
        /\ RunCountsExact /\ WaitQOrdered /\ DeferQConsistent /\ NoLostWakeup
    BY Zenon DEF IInv, TypeOK
  <1> USE <1>0
  <1> DEFINE q == deferq_[stop_entry]
  <1>1. /\ mode = "idle" /\ cur = NULL /\ exiting = NULL /\ git = NULL /\ eit = NULL
        /\ running_' = TRUE /\ mode' = "entry" /\ cur' = stop_entry /\ eit' = First(q)
        /\ UNCHANGED <<policyVars, taskVars, waitq_, runVars, deferVars, exiting>>
        /\ task_cancel_' = task_cancel_
        /\ git' = git /\ exiting' = exiting /\ recycle' = recycle /\ rule' = rule
    BY Zenon DEF Start, LockState
  <1>2. TaskTypes' /\ RunTypes' /\ SeqnoUnique' /\ RunCountsExact' /\ WaitQOrdered'
    BY <1>1, QuietInv, Zenon DEF TaskTypes
  <1>3. q \in SUBSET Entries
    BY Zenon DEF DeferTypes
  <1>4. /\ q # {} => First(q) \in q /\ \A f \in q : defer_key[First(q)] <= defer_key[f]
        /\ q = {} => First(q) = NULL
    BY <1>3, FirstIsLeast, Zenon DEF First
  <1> HIDE DEF q
  <1>5. DeferTypes' /\ DeferQConsistent' /\ NoLostWakeup'
    <2>1. /\ run_count_' = run_count_ /\ group_run_count_' = group_run_count_
          /\ deferq_task_group_' = deferq_task_group_
          /\ deferq_task_entry_' = deferq_task_entry_ /\ defer_key' = defer_key
      BY <1>1, Zenon DEF runVars, deferVars
    <2>2. \A f \in Entries : GroupPending(f) => GroupPending(f)'
      BY <1>1, <2>1, Zenon DEF GroupPending, Ahead
    <2>3. ASSUME NEW f \in Entries, deferq_task_entry_[f] # NULL, EntryPending(f)
          PROVE  EntryPending(f)'
      <3>1. CASE deferq_task_entry_[f] # stop_entry
        BY <1>1, <2>1, <2>3, <3>1, Zenon DEF EntryPending, Ahead
      <3>2. CASE deferq_task_entry_[f] = stop_entry
        <4>1. f \in q
          BY <3>2, Zenon DEF DeferQConsistent, q
        <4>2. First(q) # NULL /\ defer_key[First(q)] <= defer_key[f]
          BY <1>3, <1>4, <4>1, EntryFacts, Zenon
        <4> QED BY <1>1, <2>1, <3>2, <4>2, Zenon DEF EntryPending, Ahead
      <3> QED BY <3>1, <3>2, Zenon
    <2> QED BY <1>1, <2>2, <2>3, QuietDefer, Zenon
  <1>6. PolicyTypes' /\ PolicySymmetric' /\ RulesInstalled'
    BY <1>1, PolicyKept, Zenon
  <1>7. NoConflict'
    BY <1>1, Zenon DEF NoConflict, policyVars, runVars
  <1>8. LockTypes'
    BY <1>1, <1>3, <1>4, Zenon DEF LockTypes
  <1>9. LockState'
    <2>1. deferq_' = deferq_ /\ (recycle' => exiting' # NULL /\ seqno_' < MaxSeqno)
      BY <1>1, Zenon DEF LockState, taskVars, deferVars
    <2>2. eit' # NULL => eit' \in deferq_'[cur']
      BY <1>1, <1>4, <2>1, Zenon DEF q
    <2> QED BY <1>1, <2>1, <2>2, EntryFacts, Zenon DEF LockState
  <1> QED BY <1>2, <1>5, <1>6, <1>7, <1>8, <1>9, Zenon DEF IInv, TypeOK

LEMMA RunCombinedDeferQRestInv ==
  ASSUME IInv, RunCombinedDeferQRest
  PROVE  IInv'
  <1>0. /\ PolicyTypes /\ TaskTypes /\ RunTypes /\ DeferTypes /\ LockTypes
        /\ PolicySymmetric /\ RulesInstalled /\ NoConflict /\ SeqnoUnique /\ LockState
        /\ RunCountsExact /\ WaitQOrdered /\ DeferQConsistent /\ NoLostWakeup
    BY Zenon DEF IInv, TypeOK
  <1> USE <1>0
  <1> DEFINE gq == group_deferq_[Group(cur)]
             eq == deferq_[cur]
  <1>1. /\ mode = "combined" /\ (git = NULL \/ eit = NULL) /\ cur \in Entries /\ exiting # NULL
        /\ mode' = IF git # NULL THEN "group" ELSE "entry"
        /\ git' = IF git # NULL THEN First(gq) ELSE NULL
        /\ eit' = IF git = NULL /\ eit # NULL THEN First(eq) ELSE NULL
        /\ UNCHANGED <<policyVars, taskVars, waitq_, runVars, deferVars, exiting>>
        /\ running_' = running_ /\ task_cancel_' = task_cancel_
        /\ cur' = cur /\ exiting' = exiting /\ recycle' = recycle /\ rule' = rule
    BY Zenon DEF RunCombinedDeferQRest, LockState
  <1>2. TaskTypes' /\ RunTypes' /\ SeqnoUnique' /\ RunCountsExact' /\ WaitQOrdered'
    BY <1>1, QuietInv, Zenon DEF TaskTypes
  <1>3. gq \in SUBSET Entries /\ eq \in SUBSET Entries
    BY <1>1, EntryFacts, Zenon DEF DeferTypes
  <1>4. /\ git # NULL => /\ First(gq) \in gq
                         /\ \A f \in gq : defer_key[First(gq)] <= defer_key[f]
        /\ eit # NULL => /\ First(eq) \in eq
                         /\ \A f \in eq : defer_key[First(eq)] <= defer_key[f]
    <2>1. (git # NULL => gq # {}) /\ (eit # NULL => eq # {})
      BY Zenon DEF LockState
    <2> QED BY <1>3, <2>1, FirstIsLeast, Zenon
  <1>10. /\ \A f \in Entries : deferq_task_group_[f] = Group(cur) => f \in gq
         /\ \A f \in Entries : deferq_task_entry_[f] = cur => f \in eq
    BY <1>1, EntryFacts, Zenon DEF DeferQConsistent
  <1> HIDE DEF gq, eq
  <1>5. DeferTypes' /\ DeferQConsistent' /\ NoLostWakeup'
    <2>1. /\ run_count_' = run_count_ /\ group_run_count_' = group_run_count_
          /\ deferq_task_group_' = deferq_task_group_
          /\ deferq_task_entry_' = deferq_task_entry_ /\ defer_key' = defer_key
      BY <1>1, Zenon DEF runVars, deferVars
    <2>2. (git # NULL => git' # NULL) /\ (eit # NULL /\ git = NULL => eit' # NULL)
      BY <1>1, <1>3, <1>4, EntryFacts, Zenon
    <2>3. ASSUME NEW f \in Entries, GroupPending(f) PROVE GroupPending(f)'
      BY <1>1, <1>4, <1>10, <2>1, <2>2, <2>3, ZenonT(30) DEF GroupPending, Ahead
    <2>4. ASSUME NEW f \in Entries, EntryPending(f) PROVE EntryPending(f)'
      BY <1>1, <1>4, <1>10, <2>1, <2>2, <2>4, Zenon DEF EntryPending, Ahead
    <2> QED BY <1>1, <2>3, <2>4, QuietDefer, Zenon
  <1>6. PolicyTypes' /\ PolicySymmetric' /\ RulesInstalled'
    BY <1>1, PolicyKept, Zenon
  <1>7. NoConflict'
    BY <1>1, Zenon DEF NoConflict, policyVars, runVars
  <1>8. LockTypes'
    BY <1>1, <1>3, <1>4, ZenonT(30) DEF LockTypes
  <1>9. LockState'
    <2>1. /\ deferq_' = deferq_ /\ group_deferq_' = group_deferq_
          /\ state_' = state_ /\ seqno_' = seqno_
      BY <1>1, Zenon DEF taskVars, deferVars
    <2>2. /\ git' # NULL => git' \in group_deferq_'[Group(cur')]
          /\ eit' # NULL => eit' \in deferq_'[cur']
      BY <1>1, <1>4, <2>1, Zenon DEF gq, eq
    <2>3. cur' # stop_entry /\ cur' # NULL
      BY <1>1, EntryFacts, Zenon
    <2> QED BY <1>1, <2>1, <2>2, <2>3, Zenon DEF LockState
  <1> QED BY <1>2, <1>5, <1>6, <1>7, <1>8, <1>9, Zenon DEF IInv, TypeOK

LEMMA GroupTurnInv ==
  ASSUME IInv, mode \in {"combined", "group"}, git # NULL, GroupTurn, TurnUnchanged
  PROVE  IInv'
  <1>0. /\ PolicyTypes /\ TaskTypes /\ RunTypes /\ DeferTypes /\ LockTypes
        /\ PolicySymmetric /\ RulesInstalled /\ NoConflict /\ SeqnoUnique /\ LockState
        /\ RunCountsExact /\ WaitQOrdered /\ DeferQConsistent /\ NoLostWakeup
    BY Zenon DEF IInv, TypeOK
  <1> USE <1>0
  <1> DEFINE g == Group(cur)
             e == git
             q == group_deferq_[g]
             gq == [group_deferq_ EXCEPT ![g] = @ \ {e}]
  <1>1. /\ git' = Succ(q, e) /\ RunDeferEntry(e, gq, deferq_) /\ eit' = eit
        /\ mode' = mode /\ cur' = cur /\ exiting' = exiting /\ recycle' = recycle
        /\ rule' = rule /\ seqno_' = seqno_ /\ UNCHANGED policyVars
    BY Zenon DEF GroupTurn, TurnUnchanged
  <1>2. /\ cur \in Entries /\ g \in Groups /\ e \in q /\ e \in Entries
        /\ q \in SUBSET Entries /\ exiting # NULL /\ cur # NULL /\ cur # stop_entry
    BY EntryFacts, Zenon DEF LockState, LockTypes, DeferTypes
  <1>3. /\ \A f \in Entries : f \in q <=> deferq_task_group_[f] = g
        /\ \A f \in Entries : f \in deferq_[cur] <=> deferq_task_entry_[f] = cur
    BY <1>2, Zenon DEF DeferQConsistent
  <1>4. \A f \in q : waitq_[f] # <<>>
    BY <1>2, <1>3, EntryFacts, ZenonT(30) DEF NoLostWakeup
  <1>5. deferq_task_group_[e] = g /\ deferq_task_entry_[e] = NULL
    BY <1>2, <1>3, EntryFacts, Zenon DEF NoLostWakeup
  <1>6. TreesWithout(e, gq, deferq_)
    <2>1. \A h \in Groups \ {g} : e \notin group_deferq_[h]
      BY <1>2, <1>5, Zenon DEF DeferQConsistent
    <2>2. \A h \in Entries \cup {stop_entry} : e \notin deferq_[h]
      BY <1>2, <1>5, EntryFacts, SMTT(30) DEF DeferQConsistent
    <2> QED BY <1>2, <2>1, <2>2 DEF TreesWithout, DeferTypes
  <1> HIDE DEF gq, q, e
  <1>7. /\ git' \in (q \ {e}) \cup {NULL}
        /\ \A f \in q \ {e} : defer_key[e] <= defer_key[f] =>
              git' # NULL /\ git' # e /\ defer_key[git'] <= defer_key[f]
    BY <1>1, <1>2, <1>4, SuccFacts, Zenon
  <1>8. eit # NULL => eit \in deferq_[cur] /\ eit # e
    <2>1. eit # NULL => eit \in deferq_[cur] /\ eit \in Entries
      BY Zenon DEF LockState, LockTypes
    <2> QED BY <1>2, <1>3, <1>5, <2>1, Zenon
  <1>9. LockTypes'
    BY <1>1, <1>2, <1>7, Zenon DEF LockTypes
  <1>10. \A f \in Entries \ {e} :
            /\ cur # NULL /\ deferq_task_group_[f] = Group(cur) /\ Ahead(git, f) =>
                  cur' = cur /\ git' # NULL /\ git' # e /\ defer_key[git'] <= defer_key[f]
            /\ deferq_task_entry_[f] = cur /\ Ahead(eit, f) =>
                  cur' = cur /\ eit' # NULL /\ eit' # e /\ defer_key[eit'] <= defer_key[f]
    BY <1>1, <1>3, <1>7, <1>8, ZenonT(30) DEF Ahead, e
  <1>11. /\ TaskTypes' /\ RunTypes' /\ DeferTypes'
         /\ NoConflict' /\ SeqnoUnique' /\ RunCountsExact'
         /\ WaitQOrdered' /\ DeferQConsistent' /\ NoLostWakeup'
         /\ exiting # NULL => state_'[exiting] = "RUN"
         /\ \A f \in Entries \ {e} :
               /\ \A h \in Groups : f \in group_deferq_[h] => f \in group_deferq_'[h]
               /\ \A h \in Entries \cup {stop_entry} : f \in deferq_[h] => f \in deferq_'[h]
    <2>1. waitq_[e] # <<>>
      BY <1>2, <1>4, Zenon
    <2> QED BY <1>1, <1>2, <1>6, <1>9, <1>10, <2>1, TurnInv, Zenon
  <1>12. PolicyTypes' /\ PolicySymmetric' /\ RulesInstalled'
    <2>1. mode # "policy" /\ mode' # "policy"
      BY <1>1, Zenon
    <2> QED BY <1>1, <2>1, PolicyKept, Zenon
  <1>13. LockState'
    <2>1. git' # NULL => git' \in group_deferq_'[Group(cur')]
      <3>1. git' # NULL => git' \in Entries \ {e} /\ git' \in group_deferq_[g]
        BY <1>2, <1>7, ZenonT(30) DEF q
      <3> QED BY <1>1, <1>2, <1>11, <3>1, Zenon
    <2>2. eit' # NULL => eit' \in deferq_'[cur']
      <3>1. eit # NULL => eit \in Entries \ {e}
        BY <1>8, Zenon DEF LockTypes
      <3> QED BY <1>1, <1>2, <1>8, <1>11, <3>1, Zenon
    <2> QED BY <1>1, <1>2, <1>11, <2>1, <2>2, Zenon DEF LockState
  <1> QED BY <1>9, <1>11, <1>12, <1>13, Zenon DEF IInv, TypeOK

LEMMA EntryTurnInv ==
  ASSUME IInv, mode \in {"combined", "entry"}, eit # NULL, EntryTurn, TurnUnchanged
  PROVE  IInv'
  <1>0. /\ PolicyTypes /\ TaskTypes /\ RunTypes /\ DeferTypes /\ LockTypes
        /\ PolicySymmetric /\ RulesInstalled /\ NoConflict /\ SeqnoUnique /\ LockState
        /\ RunCountsExact /\ WaitQOrdered /\ DeferQConsistent /\ NoLostWakeup
    BY Zenon DEF IInv, TypeOK
  <1> USE <1>0
  <1> DEFINE e == eit
             q == deferq_[cur]
             eq == [deferq_ EXCEPT ![cur] = @ \ {e}]
  <1>1. /\ eit' = Succ(q, e) /\ RunDeferEntry(e, group_deferq_, eq) /\ git' = git
        /\ mode' = mode /\ cur' = cur /\ exiting' = exiting /\ recycle' = recycle
        /\ rule' = rule /\ seqno_' = seqno_ /\ UNCHANGED policyVars
    BY Zenon DEF EntryTurn, TurnUnchanged
  <1>2. /\ cur \in Entries \cup {stop_entry} /\ e \in q /\ e \in Entries
        /\ q \in SUBSET Entries /\ cur # NULL
        /\ git # NULL => cur \in Entries /\ Group(cur) \in Groups
    BY EntryFacts, Zenon DEF LockState, LockTypes, DeferTypes
  <1>3. /\ \A f \in Entries : f \in q <=> deferq_task_entry_[f] = cur
        /\ git # NULL => \A f \in Entries : f \in group_deferq_[Group(cur)] <=>
                                            deferq_task_group_[f] = Group(cur)
    BY <1>2, Zenon DEF DeferQConsistent
  <1>4. \A f \in q : waitq_[f] # <<>>
    BY <1>2, <1>3, EntryFacts, ZenonT(30) DEF NoLostWakeup
  <1>5. deferq_task_entry_[e] = cur /\ deferq_task_group_[e] = NULL
    BY <1>2, <1>3, EntryFacts, Zenon DEF NoLostWakeup
  <1>6. TreesWithout(e, group_deferq_, eq)
    <2>1. \A h \in (Entries \cup {stop_entry}) \ {cur} : e \notin deferq_[h]
      BY <1>2, <1>5, Zenon DEF DeferQConsistent
    <2>2. \A h \in Groups : e \notin group_deferq_[h]
      BY <1>2, <1>5, EntryFacts, SMTT(30) DEF DeferQConsistent
    <2> QED BY <1>2, <2>1, <2>2 DEF TreesWithout, DeferTypes
  <1> HIDE DEF eq, q, e
  <1>7. /\ eit' \in (q \ {e}) \cup {NULL}
        /\ \A f \in q \ {e} : defer_key[e] <= defer_key[f] =>
              eit' # NULL /\ eit' # e /\ defer_key[eit'] <= defer_key[f]
    BY <1>1, <1>2, <1>4, SuccFacts, Zenon
  <1>8. git # NULL => git \in group_deferq_[Group(cur)] /\ git # e
    <2>1. git # NULL => git \in group_deferq_[Group(cur)] /\ git \in Entries
      BY Zenon DEF LockState, LockTypes
    <2> QED BY <1>2, <1>3, <1>5, <2>1, EntryFacts, ZenonT(30)
  <1>9. LockTypes'
    BY <1>1, <1>2, <1>7, Zenon DEF LockTypes
  <1>10. \A f \in Entries \ {e} :
            /\ cur # NULL /\ deferq_task_group_[f] = Group(cur) /\ Ahead(git, f) =>
                  cur' = cur /\ git' # NULL /\ git' # e /\ defer_key[git'] <= defer_key[f]
            /\ deferq_task_entry_[f] = cur /\ Ahead(eit, f) =>
                  cur' = cur /\ eit' # NULL /\ eit' # e /\ defer_key[eit'] <= defer_key[f]
    BY <1>1, <1>3, <1>7, <1>8, ZenonT(30) DEF Ahead, e
  <1>11. /\ TaskTypes' /\ RunTypes' /\ DeferTypes'
         /\ NoConflict' /\ SeqnoUnique' /\ RunCountsExact'
         /\ WaitQOrdered' /\ DeferQConsistent' /\ NoLostWakeup'
         /\ exiting # NULL => state_'[exiting] = "RUN"
         /\ \A f \in Entries \ {e} :
               /\ \A h \in Groups : f \in group_deferq_[h] => f \in group_deferq_'[h]
               /\ \A h \in Entries \cup {stop_entry} : f \in deferq_[h] => f \in deferq_'[h]
    <2>1. waitq_[e] # <<>>
      BY <1>2, <1>4, Zenon
    <2> QED BY <1>1, <1>2, <1>6, <1>9, <1>10, <2>1, TurnInv, Zenon
  <1>12. PolicyTypes' /\ PolicySymmetric' /\ RulesInstalled'
    <2>1. mode # "policy" /\ mode' # "policy"
      BY <1>1, Zenon
    <2> QED BY <1>1, <2>1, PolicyKept, Zenon
  <1>13. LockState'
    <2>1. eit' # NULL => eit' \in deferq_'[cur']
      <3>1. eit' # NULL => eit' \in Entries \ {e} /\ eit' \in deferq_[cur]
        BY <1>2, <1>7, ZenonT(30) DEF q
      <3> QED BY <1>1, <1>2, <1>11, <3>1, Zenon
    <2>2. git' # NULL => git' \in group_deferq_'[Group(cur')]
      <3>1. git # NULL => git \in Entries \ {e}
        BY <1>8, Zenon DEF LockTypes
      <3> QED BY <1>1, <1>2, <1>8, <1>11, <3>1, SMTT(30)
    <2> QED BY <1>1, <1>2, <1>11, <2>1, <2>2, ZenonT(60) DEF LockState
  <1> QED BY <1>9, <1>11, <1>12, <1>13, Zenon DEF IInv, TypeOK
=============================================================================
