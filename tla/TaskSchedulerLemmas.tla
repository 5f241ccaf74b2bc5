------------------------ MODULE TaskSchedulerLemmas -------------------------
EXTENDS TaskScheduler, TLAPS

-----------------------------------------------------------------------------
(* Facts about the data.                                                   *)

LEMMA EntryFacts ==
  /\ stop_entry \notin Entries
  /\ NULL \notin Entries /\ NULL # stop_entry /\ NULL \notin Groups /\ NULL \notin Tasks
  /\ \A e \in Entries : Group(e) \in Groups /\ Instance(e) \in Instances \cup {-1}
                        /\ e = <<Group(e), Instance(e)>>
  /\ \A g \in Groups, i \in Instances \cup {-1} :
        <<g, i>> \in Entries /\ Group(<<g, i>>) = g /\ Instance(<<g, i>>) = i
  /\ \A e \in Entries : Group(e) # Group(stop_entry)
  BY NullAssumption, GroupsAssumption DEF Entries, stop_entry, Group, Instance

\* The rules of a group and their indices.
LEMMA RuleFacts ==
  ASSUME NEW g \in Groups
  PROVE  /\ Len(Rules[g]) \in Nat
         /\ \A i \in DOMAIN Rules[g] :
               /\ i \in Nat /\ i # 0 /\ i <= Len(Rules[g])
               /\ Rules[g][i].match_id \in Groups
               /\ Rules[g][i].match_instance \in Instances \cup {-1}
               /\ Rules[g][i].match_instance = -1 => Rules[g][i].match_id # g
         /\ \A r \in Nat : r < Len(Rules[g]) =>
               r + 1 \in DOMAIN Rules[g] /\ r + 1 \in Nat /\ r + 1 <= Len(Rules[g])
  <1>1. Rules[g] \in Seq(TaskExclusion)
    BY RulesAssumption, Zenon
  <1>2. \A i \in DOMAIN Rules[g] : Rules[g][i] \in TaskExclusion
    BY <1>1
  <1> QED BY <1>1, <1>2, RulesAssumption DEF TaskExclusion

\* The elements of a sequence after its first.
LEMMA TailElements ==
  ASSUME NEW S, NEW w \in Seq(S), w # <<>>
  PROVE  /\ Tail(w) \in Seq(S)
         /\ DOMAIN Tail(w) = 1 .. (Len(w) - 1)
         /\ \A i \in 1 .. (Len(w) - 1) : i + 1 \in DOMAIN w /\ Tail(w)[i] = w[i + 1]
         /\ Elements(Tail(w)) = {w[i] : i \in 2 .. Len(w)}
         /\ Elements(w) = {w[1]} \cup Elements(Tail(w))
  <1>1. /\ Tail(w) \in Seq(S) /\ DOMAIN Tail(w) = 1 .. (Len(w) - 1) /\ DOMAIN w = 1 .. Len(w)
        /\ Len(w) \in Nat /\ Len(w) # 0
        /\ \A i \in 1 .. (Len(w) - 1) : Tail(w)[i] = w[i + 1]
    OBVIOUS
  <1>2. \A i \in 1 .. (Len(w) - 1) : i + 1 \in 2 .. Len(w) /\ i + 1 \in DOMAIN w
    BY <1>1
  <1>3. \A i \in 2 .. Len(w) : i - 1 \in 1 .. (Len(w) - 1) /\ (i - 1) + 1 = i
    BY <1>1
  <1>4. Elements(Tail(w)) \subseteq {w[i] : i \in 2 .. Len(w)}
    BY <1>1, <1>2, Zenon DEF Elements
  <1>5. ASSUME NEW i \in 2 .. Len(w) PROVE w[i] \in Elements(Tail(w))
    <2>1. Tail(w)[i - 1] = w[i] /\ i - 1 \in DOMAIN Tail(w)
      BY <1>1, <1>3, Zenon
    <2> QED BY <2>1, Zenon DEF Elements
  <1>6. Elements(Tail(w)) = {w[i] : i \in 2 .. Len(w)}
    BY <1>4, <1>5, Zenon
  <1>7. \A i : i \in DOMAIN w <=> i = 1 \/ i \in 2 .. Len(w)
    BY <1>1
  <1>8. Elements(w) = {w[1]} \cup {w[i] : i \in 2 .. Len(w)}
    BY <1>7, Zenon DEF Elements
  <1> QED BY <1>1, <1>2, <1>6, <1>8, Zenon

\* What Append does to a waitq_.
LEMMA AppendElements ==
  ASSUME NEW S, NEW w \in Seq(S), NEW x \in S
  PROVE  /\ Append(w, x) \in Seq(S) /\ Append(w, x) # <<>>
         /\ DOMAIN Append(w, x) = 1 .. (Len(w) + 1) /\ DOMAIN w = 1 .. Len(w) /\ Len(w) \in Nat
         /\ \A i \in 1 .. Len(w) : Append(w, x)[i] = w[i]
         /\ Append(w, x)[Len(w) + 1] = x
         /\ w # <<>> => Head(Append(w, x)) = Head(w)
         /\ w = <<>> => Head(Append(w, x)) = x
         /\ Elements(Append(w, x)) = Elements(w) \cup {x}
  <1>1. /\ Append(w, x) \in Seq(S) /\ Append(w, x) # <<>>
        /\ DOMAIN Append(w, x) = 1 .. (Len(w) + 1) /\ DOMAIN w = 1 .. Len(w) /\ Len(w) \in Nat
        /\ \A i \in 1 .. Len(w) : Append(w, x)[i] = w[i]
        /\ Append(w, x)[Len(w) + 1] = x
        /\ w # <<>> => Head(Append(w, x)) = Head(w)
        /\ w = <<>> => Head(Append(w, x)) = x
    OBVIOUS
  <1>2. \A i : i \in 1 .. (Len(w) + 1) <=> i \in 1 .. Len(w) \/ i = Len(w) + 1
    BY <1>1
  <1>3. Elements(Append(w, x)) = Elements(w) \cup {x}
    BY <1>1, <1>2, Zenon DEF Elements
  <1> QED BY <1>1, <1>3, Zenon

\* Appending one element to one list of a function of lists.
LEMMA AppendOne ==
  ASSUME NEW D, NEW F \in [D -> Seq(D)], NEW x \in D, NEW y \in D
  PROVE  /\ PushPolicy(F, x, y) \in [D -> Seq(D)]
         /\ \A z \in D : \A u : u \in Elements(PushPolicy(F, x, y)[z]) <=>
                                u \in Elements(F[z]) \/ (z = x /\ u = y)
  <1> DEFINE H == [F EXCEPT ![x] = Append(@, y)]
  <1>1. /\ Append(F[x], y) \in Seq(D)
        /\ Elements(Append(F[x], y)) = Elements(F[x]) \cup {y}
    BY AppendElements
  <1>2. H[x] = Append(F[x], y) /\ \A z \in D \ {x} : H[z] = F[z]
    BY Zenon
  <1>3. H \in [D -> Seq(D)]
    BY <1>1, Zenon
  <1> HIDE DEF H
  <1>4. \A z \in D : \A u : u \in Elements(H[z]) <=> u \in Elements(F[z]) \/ (z = x /\ u = y)
    BY <1>1, <1>2, Zenon
  <1> QED BY <1>3, <1>4, Zenon DEF H, PushPolicy

\* Policies are complementary: x joins the list of y and y that of x.
Joined(D, F, H, x, y) ==
    /\ H \in [D -> Seq(D)]
    /\ \A z, u \in D : u \in Elements(H[z]) <=>
          u \in Elements(F[z]) \/ (z = x /\ u = y) \/ (z = y /\ u = x)

LEMMA PushBoth ==
  ASSUME NEW D, NEW F \in [D -> Seq(D)], NEW x \in D, NEW y \in D
  PROVE  Joined(D, F, PushPolicy(PushPolicy(F, x, y), y, x), x, y)
  <1> DEFINE F1 == PushPolicy(F, x, y)
             F2 == PushPolicy(F1, y, x)
  <1>1. /\ F1 \in [D -> Seq(D)]
        /\ \A z \in D : \A u : u \in Elements(F1[z]) <=> u \in Elements(F[z]) \/ (z = x /\ u = y)
    BY AppendOne, Zenon
  <1> HIDE DEF F1
  <1>2. /\ F2 \in [D -> Seq(D)]
        /\ \A z \in D : \A u : u \in Elements(F2[z]) <=> u \in Elements(F1[z]) \/ (z = y /\ u = x)
    BY <1>1, AppendOne, Zenon
  <1> HIDE DEF F2
  <1>3. \A z, u \in D : u \in Elements(F2[z]) <=>
               u \in Elements(F[z]) \/ (z = x /\ u = y) \/ (z = y /\ u = x)
    BY <1>1, <1>2, Zenon
  <1> QED BY <1>2, <1>3, Zenon DEF F1, F2, Joined

\* Erasing one element of a sequence without duplicates.
LEMMA DeleteElements ==
  ASSUME NEW S, NEW w \in Seq(S), NEW i \in DOMAIN w,
         \A j, k \in DOMAIN w : j # k => w[j] # w[k]
  PROVE  /\ DeleteFromWaitQ(w, i) \in Seq(S)
         /\ DOMAIN DeleteFromWaitQ(w, i) = 1 .. (Len(w) - 1)
         /\ \A j \in 1 .. (Len(w) - 1) : DeleteFromWaitQ(w, i)[j] = IF j < i THEN w[j] ELSE w[j + 1]
         /\ Elements(DeleteFromWaitQ(w, i)) = Elements(w) \ {w[i]}
         /\ DeleteFromWaitQ(w, i) = <<>> <=> Len(w) = 1
         /\ Len(w) > 1 => Head(DeleteFromWaitQ(w, i)) = IF i = 1 THEN w[2] ELSE w[1]
  <1> DEFINE d == DeleteFromWaitQ(w, i)
             n == Len(w) - 1
  <1>1. n \in Nat /\ Len(w) = n + 1 /\ DOMAIN w = 1 .. (n + 1) /\ i \in 1 .. (n + 1)
    OBVIOUS
  <1>2. /\ \A j \in 1 .. n : j \in 1 .. (n + 1) /\ j + 1 \in 1 .. (n + 1)
        /\ \A j \in 1 .. (n + 1) : w[j] \in S
    BY <1>1
  <1>3. d = [j \in 1 .. n |-> IF j < i THEN w[j] ELSE w[j + 1]]
    BY Zenon DEF DeleteFromWaitQ
  <1> HIDE DEF d, n
  <1>4. d \in Seq(S) /\ Len(d) = n /\ DOMAIN d = 1 .. n
    <2>1. d \in [1 .. n -> S]
      BY <1>2, <1>3, Zenon
    <2> QED BY <1>1, <2>1
  <1>5. \A j \in 1 .. n : d[j] = IF j < i THEN w[j] ELSE w[j + 1]
    BY <1>3, Zenon
  <1>6. Elements(d) = Elements(w) \ {w[i]}
    <2>1. ASSUME NEW j \in 1 .. n PROVE d[j] \in Elements(w) \ {w[i]}
      <3>1. CASE j < i
        BY <1>1, <1>2, <1>5, <3>1 DEF Elements
      <3>2. CASE ~(j < i)
        <4>1. j + 1 # i /\ j + 1 \in DOMAIN w
          BY <1>1, <1>2, <3>2
        <4> QED BY <1>1, <1>5, <3>2, <4>1, Zenon DEF Elements
      <3> QED BY <3>1, <3>2, Zenon
    <2>2. ASSUME NEW k \in 1 .. (n + 1), k # i PROVE \E j \in 1 .. n : d[j] = w[k]
      <3>1. CASE k < i
        <4>1. k \in 1 .. n
          BY <1>1, <3>1
        <4> QED BY <1>5, <3>1, <4>1, Zenon
      <3>2. CASE ~(k < i)
        <4>1. k - 1 \in 1 .. n /\ ~(k - 1 < i) /\ (k - 1) + 1 = k
          BY <1>1, <2>2, <3>2
        <4> QED BY <1>5, <4>1, Zenon
      <3> QED BY <3>1, <3>2, Zenon
    <2>3. Elements(d) = {d[j] : j \in 1 .. n} /\ Elements(w) = {w[k] : k \in 1 .. (n + 1)}
      BY <1>1, <1>4, Zenon DEF Elements
    <2> QED BY <2>1, <2>2, <2>3
  <1>7. d = <<>> <=> Len(w) = 1
    BY <1>1, <1>4
  <1>8. Len(w) > 1 => Head(d) = IF i = 1 THEN w[2] ELSE w[1]
    <2> SUFFICES ASSUME Len(w) > 1 PROVE Head(d) = IF i = 1 THEN w[2] ELSE w[1]
      BY Zenon
    <2>1. 1 \in 1 .. n /\ Head(d) = d[1]
      BY <1>1, <1>4
    <2>2. d[1] = IF 1 < i THEN w[1] ELSE w[1 + 1]
      BY <1>5, <2>1, Zenon
    <2> QED BY <1>1, <2>1, <2>2
  <1> QED BY <1>4, <1>5, <1>6, <1>7, <1>8, Zenon DEF d, n

\* Erasing an element leaves a queue in the order of its sequence numbers.
LEMMA DeleteOrdered ==
  ASSUME NEW w \in Seq(Tasks), NEW i \in DOMAIN w, NEW s,
         \A j \in DOMAIN w : s[w[j]] \in Nat,
         \A j, k \in DOMAIN w : j < k => s[w[j]] < s[w[k]]
  PROVE  /\ \A j, k \in DOMAIN w : j # k => w[j] # w[k]
         /\ \A j, k \in DOMAIN DeleteFromWaitQ(w, i) :
               j < k => s[DeleteFromWaitQ(w, i)[j]] < s[DeleteFromWaitQ(w, i)[k]]
  <1> DEFINE d == DeleteFromWaitQ(w, i)
  <1>1. Len(w) \in Nat /\ DOMAIN w = 1 .. Len(w) /\ i \in 1 .. Len(w)
    OBVIOUS
  <1>2. \A j, k \in DOMAIN w : j # k => w[j] # w[k]
    <2> SUFFICES ASSUME NEW j \in DOMAIN w, NEW k \in DOMAIN w, j # k PROVE w[j] # w[k]
      BY Zenon
    <2>1. j < k \/ k < j
      BY <1>1
    <2> QED BY <2>1
  <1>3. /\ DOMAIN d = 1 .. (Len(w) - 1)
        /\ \A j \in 1 .. (Len(w) - 1) : d[j] = IF j < i THEN w[j] ELSE w[j + 1]
    BY <1>2, DeleteElements
  <1> HIDE DEF d
  <1>4. ASSUME NEW j \in DOMAIN d, NEW k \in DOMAIN d, j < k PROVE s[d[j]] < s[d[k]]
    <2>1. PICK y \in DOMAIN w : y = (IF j < i THEN j ELSE j + 1) /\ d[j] = w[y]
      BY <1>1, <1>3
    <2>2. PICK z \in DOMAIN w : z = (IF k < i THEN k ELSE k + 1) /\ d[k] = w[z]
      BY <1>1, <1>3
    <2>3. y < z
      BY <1>1, <1>3, <1>4, <2>1, <2>2
    <2> QED BY <2>1, <2>2, <2>3, Zenon
  <1> QED BY <1>2, <1>4, Zenon DEF d

\* Two entries in deferq_ trees have different keys: the sequence numbers of
\* their first waiting tasks.
LEMMA KeysDiffer ==
  ASSUME TaskTypes, DeferTypes, SeqnoUnique, WaitQOrdered, DeferQConsistent,
         NEW e \in Entries, NEW f \in Entries, e # f,
         waitq_[e] # <<>>, waitq_[f] # <<>>
  PROVE  defer_key[e] # defer_key[f] /\ defer_key[e] \in Nat /\ defer_key[f] \in Nat
  <1>1. \A x \in Entries : waitq_[x] # <<>> =>
           Head(waitq_[x]) \in Tasks /\ Head(waitq_[x]) \in Elements(waitq_[x])
    BY DEF TaskTypes, Elements
  <1>2. /\ Head(waitq_[e]) \in Tasks /\ Head(waitq_[f]) \in Tasks
        /\ Head(waitq_[e]) # Head(waitq_[f])
        /\ state_[Head(waitq_[e])] = "WAIT"
    BY <1>1 DEF WaitQOrdered
  <1>3. /\ defer_key[e] = seqno[Head(waitq_[e])]
        /\ defer_key[f] = seqno[Head(waitq_[f])]
    BY Zenon DEF DeferQConsistent
  <1>4. defer_key[e] # defer_key[f]
    BY <1>2, <1>3, Zenon DEF SeqnoUnique
  <1>5. defer_key[e] \in Nat /\ defer_key[f] \in Nat
    BY MaxSeqnoAssumption DEF DeferTypes
  <1> QED BY <1>4, <1>5, Zenon

\* What is in a waitq_ is a waiting task.
LEMMA WaitQTasks ==
  ASSUME TaskTypes, WaitQOrdered, NEW e \in Entries
  PROVE  /\ \A t \in Elements(waitq_[e]) : t \in Tasks /\ state_[t] = "WAIT"
         /\ \A t \in Elements(waitq_[e]) : waitq_[e] # <<>>
  <1>1. \A t \in Elements(waitq_[e]) : t \in Tasks /\ waitq_[e] # <<>>
    BY DEF TaskTypes, Elements
  <1>2. \A t \in Elements(waitq_[e]) : state_[t] = "WAIT"
    BY <1>1, Zenon DEF WaitQOrdered
  <1> QED BY <1>1, <1>2, Zenon

\* What RunWaitQ starts and what it leaves.
LEMMA RunnableFacts ==
  ASSUME TaskTypes, WaitQOrdered, NEW e \in Entries, waitq_[e] # <<>>
  PROVE  /\ Runnable(e) \in Seq(Tasks) /\ Runnable(e) # <<>>
         /\ Instance(e) # -1 => Len(Runnable(e)) = 1
         /\ \A i, j \in DOMAIN Runnable(e) : i # j => Runnable(e)[i] # Runnable(e)[j]
         /\ Remaining(e) \in Seq(Tasks)
         /\ Remaining(e) # <<>> => Instance(e) # -1
         /\ \A t : t \in Elements(waitq_[e]) <=>
                      t \in Elements(Runnable(e)) \/ t \in Elements(Remaining(e))
         /\ \A t : ~ (t \in Elements(Runnable(e)) /\ t \in Elements(Remaining(e)))
         /\ \A i, j \in DOMAIN Remaining(e) :
               i < j => seqno[Remaining(e)[i]] < seqno[Remaining(e)[j]]
  <1> DEFINE w == waitq_[e]
  <1>1. w \in Seq(Tasks) /\ Len(w) \in Nat /\ Len(w) # 0 /\ DOMAIN w = 1 .. Len(w)
    BY DEF TaskTypes
  <1>2. \A i, j \in 1 .. Len(w) : i < j => seqno[w[i]] < seqno[w[j]]
    BY <1>1, Zenon DEF WaitQOrdered
  <1>3. \A i \in 1 .. Len(w) : seqno[w[i]] \in Nat
    BY <1>1, MaxSeqnoAssumption DEF TaskTypes
  <1>4. \A i, j \in 1 .. Len(w) : i # j => w[i] # w[j]
    <2> SUFFICES ASSUME NEW i \in 1 .. Len(w), NEW j \in 1 .. Len(w), i # j PROVE w[i] # w[j]
      BY Zenon
    <2>1. CASE i < j BY <1>2, <1>3, <2>1
    <2>2. CASE j < i BY <1>2, <1>3, <2>2
    <2> QED BY <2>1, <2>2
  <1>5. CASE Instance(e) = -1
    <2>1. Runnable(e) = w /\ Remaining(e) = <<>>
      BY <1>5, Zenon DEF Runnable, Remaining
    <2> QED BY <1>1, <1>4, <1>5, <2>1 DEF Elements
  <1>6. CASE Instance(e) # -1
    <2>1. Runnable(e) = <<w[1]>> /\ Remaining(e) = Tail(w)
      BY <1>1, <1>6 DEF Runnable, Remaining
    <2>2. /\ Tail(w) \in Seq(Tasks) /\ DOMAIN Tail(w) = 1 .. (Len(w) - 1)
          /\ \A i \in 1 .. (Len(w) - 1) : i + 1 \in DOMAIN w /\ Tail(w)[i] = w[i + 1]
          /\ Elements(Tail(w)) = {w[i] : i \in 2 .. Len(w)}
          /\ Elements(w) = {w[1]} \cup Elements(Tail(w))
      BY <1>1, TailElements
    <2>3. Elements(Runnable(e)) = {w[1]}
      BY <2>1 DEF Elements
    <2>5. \A t : t \in Elements(w) <=>
                      t \in Elements(Runnable(e)) \/ t \in Elements(Remaining(e))
      BY <2>1, <2>2, <2>3, Zenon
    <2>6. \A t : ~ (t \in Elements(Runnable(e)) /\ t \in Elements(Remaining(e)))
      BY <1>1, <1>4, <2>1, <2>2, <2>3, SMTT(30)
    <2>7. \A i, j \in DOMAIN Remaining(e) :
               i < j => seqno[Remaining(e)[i]] < seqno[Remaining(e)[j]]
      <3> SUFFICES ASSUME NEW i \in 1 .. (Len(w) - 1), NEW j \in 1 .. (Len(w) - 1), i < j
                   PROVE  seqno[Tail(w)[i]] < seqno[Tail(w)[j]]
        BY <2>1, <2>2, Zenon
      <3>1. Tail(w)[i] = w[i + 1] /\ Tail(w)[j] = w[j + 1]
        BY <2>2, Zenon
      <3>2. i + 1 < j + 1 /\ i + 1 \in 1 .. Len(w) /\ j + 1 \in 1 .. Len(w)
        BY <1>1
      <3>3. seqno[w[i + 1]] < seqno[w[j + 1]]
        BY <1>2, <3>2, Zenon
      <3> QED BY <3>1, <3>3, Zenon
    <2>8. /\ Runnable(e) \in Seq(Tasks) /\ Runnable(e) # <<>> /\ Len(Runnable(e)) = 1
          /\ \A i, j \in DOMAIN Runnable(e) : i # j => Runnable(e)[i] # Runnable(e)[j]
      BY <1>1, <2>1
    <2> QED BY <1>6, <2>1, <2>2, <2>5, <2>6, <2>7, <2>8, Zenon
  <1> QED BY <1>5, <1>6, Zenon

-----------------------------------------------------------------------------
(* Parts of the state that a step leaves alone.                            *)

\* What an exit makes of the counts, seen from the tasks that wait for them: the
\* other counts stay, a count above one stays above zero, and no count that let
\* a task run now forbids it.
LEMMA ExitZeros ==
  ASSUME RunTypes, NEW e \in Entries, TaskExited(e), Group(e) \in Groups,
         run_count_[e] # 0, group_run_count_[Group(e)] # 0
  PROVE  /\ \A f \in Entries \ {e} : run_count_'[f] = run_count_[f]
         /\ \A h \in Groups \ {Group(e)} : group_run_count_'[h] = group_run_count_[h]
         /\ run_count_[e] # 1 => run_count_'[e] # 0
         /\ group_run_count_[Group(e)] # 1 => group_run_count_'[Group(e)] # 0
         /\ \A f \in Entries : run_count_[f] = 0 => run_count_'[f] = 0
         /\ \A h \in Groups : group_run_count_[h] = 0 => group_run_count_'[h] = 0
         /\ \A f \in Entries : run_count_[f] <= 1 => run_count_'[f] <= 1
  <1>1. /\ run_count_'[e] = run_count_[e] - 1
        /\ group_run_count_'[Group(e)] = group_run_count_[Group(e)] - 1
        /\ \A f \in Entries \ {e} : run_count_'[f] = run_count_[f]
        /\ \A h \in Groups \ {Group(e)} : group_run_count_'[h] = group_run_count_[h]
        /\ run_count_[e] \in Nat /\ group_run_count_[Group(e)] \in Nat
    BY Zenon DEF TaskExited, RunTypes
  <1> QED BY <1>1

\* The counts stay exact if the same tasks run as before.
LEMMA SameCounts ==
  ASSUME RunCountsExact, UNCHANGED runVars, \A u \in Tasks : Running(u)' <=> Running(u)
  PROVE  RunCountsExact'
  <1>1. /\ run_count_' = run_count_ /\ run_task_' = run_task_
        /\ group_run_count_' = group_run_count_
    BY Zenon DEF runVars
  <1>2. /\ \A f : {u \in Tasks : Running(u)' /\ EntryOf[u] = f}
                 = {u \in Tasks : Running(u) /\ EntryOf[u] = f}
        /\ \A g : {u \in Tasks : Running(u)' /\ Group(EntryOf[u]) = g}
                 = {u \in Tasks : Running(u) /\ Group(EntryOf[u]) = g}
    BY Zenon
  <1> QED BY <1>1, <1>2, Zenon DEF RunCountsExact

\* waitq_ stays in order if it is unchanged and its tasks keep their numbers.
LEMMA SameWaitQ ==
  ASSUME TaskTypes, WaitQOrdered, waitq_' = waitq_,
         \A f \in Entries : \A u \in Elements(waitq_[f]) : seqno'[u] = seqno[u],
         \A u \in Tasks : state_'[u] = "WAIT" <=> state_[u] = "WAIT"
  PROVE  /\ WaitQOrdered'
         /\ \A f \in Entries : waitq_[f] # <<>> => seqno'[Head(waitq_[f])] = seqno[Head(waitq_[f])]
  <1>1. ASSUME NEW f \in Entries, NEW i \in DOMAIN waitq_[f], NEW j \in DOMAIN waitq_[f], i < j
        PROVE  seqno'[waitq_[f][i]] < seqno'[waitq_[f][j]]
    <2>1. waitq_[f][i] \in Elements(waitq_[f]) /\ waitq_[f][j] \in Elements(waitq_[f])
      BY Zenon DEF Elements
    <2>2. seqno[waitq_[f][i]] < seqno[waitq_[f][j]]
      BY <1>1, Zenon DEF WaitQOrdered
    <2> QED BY <2>1, <2>2, Zenon
  <1>2. \A u \in Tasks : \A f \in Entries :
           u \in Elements(waitq_[f]) <=> state_'[u] = "WAIT" /\ f = EntryOf[u]
    BY Zenon DEF WaitQOrdered
  <1>3. \A f \in Entries : waitq_[f] # <<>> => Head(waitq_[f]) \in Elements(waitq_[f])
    BY DEF Elements, TaskTypes
  <1>4. WaitQOrdered'
    BY <1>1, <1>2, SMTT(30) DEF WaitQOrdered, Elements
  <1> QED BY <1>3, <1>4, Zenon

-----------------------------------------------------------------------------
(* The deferq_ trees.                                                      *)

\* What an entry's deferq_ membership rests on: what it waits for is active, or
\* the walk has not passed it yet.
GroupPending(f) ==
    \/ group_run_count_[deferq_task_group_[f]] # 0
    \/ cur # NULL /\ deferq_task_group_[f] = Group(cur) /\ Ahead(git, f)

EntryPending(f) ==
    LET te == deferq_task_entry_[f]
    IN  \/ IF te = stop_entry THEN ~running_ ELSE run_count_[te] # 0
        \/ te = cur /\ Ahead(eit, f)

\* gq and eq are the trees without e.
TreesWithout(e, gq, eq) ==
    /\ gq \in [Groups -> SUBSET Entries]
    /\ \A g \in Groups : gq[g] = group_deferq_[g] \ {e}
    /\ eq \in [Entries \cup {stop_entry} -> SUBSET Entries]
    /\ \A f \in Entries \cup {stop_entry} : eq[f] = deferq_[f] \ {e}

\* The entries other than e keep their waiting tasks and stay pending.
OthersKept(e) ==
    \A f \in Entries \ {e} :
       /\ waitq_'[f] = waitq_[f]
       /\ waitq_[f] # <<>> => seqno'[Head(waitq_[f])] = seqno[Head(waitq_[f])]
       /\ deferq_task_group_'[f] = deferq_task_group_[f]
          /\ deferq_task_group_[f] # NULL /\ GroupPending(f) => GroupPending(f)'
       /\ deferq_task_entry_'[f] = deferq_task_entry_[f]
          /\ deferq_task_entry_[f] # NULL /\ EntryPending(f) => EntryPending(f)'

\* e waits for an active group tg or entry te, or it has no waiting task.
Deferral(e, tg, te, key) ==
    /\ tg \in Groups \cup {NULL}
    /\ te \in Entries \cup {stop_entry, NULL}
    /\ tg = NULL \/ te = NULL
    /\ tg = NULL /\ te = NULL <=> waitq_'[e] = <<>>
    /\ waitq_'[e] # <<>> => key = seqno'[Head(waitq_'[e])]
    /\ tg # NULL => group_run_count_'[tg] # 0
    /\ te # NULL => IF te = stop_entry THEN ~running_' ELSE run_count_'[te] # 0

\* AdjustDeferQ first deletes the entry from the tree that it is in.
LEMMA TakenOut ==
  ASSUME DeferTypes, DeferQConsistent, NEW e \in Entries,
         NEW tg \in Groups \cup {NULL}, NEW te \in Entries \cup {stop_entry, NULL},
         tg = deferq_task_group_[e], te = deferq_task_entry_[e]
  PROVE  TreesWithout(e,
            IF tg = NULL THEN group_deferq_ ELSE [group_deferq_ EXCEPT ![tg] = @ \ {e}],
            IF te = NULL THEN deferq_ ELSE [deferq_ EXCEPT ![te] = @ \ {e}])
  <1>1. /\ \A h \in Groups : h # tg => e \notin group_deferq_[h]
        /\ \A h \in Entries \cup {stop_entry} : h # te => e \notin deferq_[h]
    BY Zenon DEF DeferQConsistent
  <1>2. /\ group_deferq_ \in [Groups -> SUBSET Entries]
        /\ deferq_ \in [Entries \cup {stop_entry} -> SUBSET Entries]
        /\ NULL \notin Groups /\ NULL \notin Entries \cup {stop_entry}
    BY EntryFacts, Zenon DEF DeferTypes
  <1> QED BY <1>1, <1>2 DEF TreesWithout

\* AddToDeferQ for one entry e, deleted before from the tree it was in, keeps
\* trees, keys and pending wake-ups in order, if it does so for e itself and
\* nothing the other entries rely on is lost.
LEMMA DeferStep ==
  ASSUME DeferTypes, DeferQConsistent, NoLostWakeup, TaskTypes, TaskTypes',
         NEW e \in Entries, NEW gq, NEW eq, NEW tg, NEW te, NEW key,
         TreesWithout(e, gq, eq),
         AddToDeferQ(e, gq, eq, tg, te, key),
         OthersKept(e),
         Deferral(e, tg, te, key)
  PROVE  DeferTypes' /\ DeferQConsistent' /\ NoLostWakeup'
  <1> USE DEF TreesWithout, Deferral
  <1>1. /\ group_deferq_' = IF tg = NULL THEN gq ELSE [gq EXCEPT ![tg] = @ \cup {e}]
        /\ deferq_' = IF te = NULL THEN eq ELSE [eq EXCEPT ![te] = @ \cup {e}]
        /\ deferq_task_group_' = [deferq_task_group_ EXCEPT ![e] = tg]
        /\ deferq_task_entry_' = [deferq_task_entry_ EXCEPT ![e] = te]
        /\ defer_key' = IF tg = NULL /\ te = NULL THEN defer_key
                        ELSE [defer_key EXCEPT ![e] = key]
    BY Zenon DEF AddToDeferQ
  <1>2. waitq_'[e] # <<>> => key \in 0 .. MaxSeqno
    BY DEF TaskTypes
  <1>3. DeferTypes'
    <2>1. deferq_' \in [Entries \cup {stop_entry} -> SUBSET Entries]
      BY <1>1
    <2>2. group_deferq_' \in [Groups -> SUBSET Entries]
      BY <1>1
    <2>3. defer_key' \in [Entries -> 0 .. MaxSeqno]
      BY <1>1, <1>2, Zenon DEF DeferTypes
    <2>4. /\ deferq_task_entry_' \in [Entries -> Entries \cup {stop_entry, NULL}]
          /\ deferq_task_group_' \in [Entries -> Groups \cup {NULL}]
      BY <1>1, Zenon DEF DeferTypes
    <2> QED BY <2>1, <2>2, <2>3, <2>4, Zenon DEF DeferTypes
  <1>4. /\ deferq_task_group_'[e] = tg /\ deferq_task_entry_'[e] = te
        /\ waitq_'[e] # <<>> => defer_key'[e] = key
        /\ \A f \in Entries \ {e} : /\ deferq_task_group_'[f] = deferq_task_group_[f]
                                    /\ deferq_task_entry_'[f] = deferq_task_entry_[f]
                                    /\ defer_key'[f] = defer_key[f]
    BY <1>1, Zenon DEF DeferTypes
  <1>5. \A f \in Entries, g \in Groups : f \in group_deferq_'[g] <=> deferq_task_group_'[f] = g
    <2> SUFFICES ASSUME NEW f \in Entries, NEW g \in Groups
                 PROVE  f \in group_deferq_'[g] <=> deferq_task_group_'[f] = g
      BY Zenon
    <2>1. f \in group_deferq_[g] <=> deferq_task_group_[f] = g
      BY Zenon DEF DeferQConsistent
    <2>2. group_deferq_'[g] = IF tg = g THEN (group_deferq_[g] \ {e}) \cup {e}
                              ELSE group_deferq_[g] \ {e}
      BY <1>1, EntryFacts, Zenon
    <2> QED BY <1>4, <2>1, <2>2
  <1>6. \A f \in Entries, h \in Entries \cup {stop_entry} :
           f \in deferq_'[h] <=> deferq_task_entry_'[f] = h
    <2> SUFFICES ASSUME NEW f \in Entries, NEW h \in Entries \cup {stop_entry}
                 PROVE  f \in deferq_'[h] <=> deferq_task_entry_'[f] = h
      BY Zenon
    <2>1. f \in deferq_[h] <=> deferq_task_entry_[f] = h
      BY Zenon DEF DeferQConsistent
    <2>2. deferq_'[h] = IF te = h THEN (deferq_[h] \ {e}) \cup {e} ELSE deferq_[h] \ {e}
      BY <1>1, EntryFacts, Zenon
    <2> QED BY <1>4, <2>1, <2>2
  <1>7. \A f \in Entries : waitq_'[f] # <<>> => defer_key'[f] = seqno'[Head(waitq_'[f])]
    BY <1>4 DEF DeferQConsistent, OthersKept
  <1>8. DeferQConsistent'
    BY <1>5, <1>6, <1>7 DEF DeferQConsistent
  <1>9. NoLostWakeup'
    <2> USE DEF OthersKept
    <2>1. ASSUME NEW f \in Entries, f # e
          PROVE  /\ deferq_task_group_'[f] = NULL \/ deferq_task_entry_'[f] = NULL
                 /\ waitq_'[f] # <<>> <=> deferq_task_group_'[f] # NULL \/ deferq_task_entry_'[f] # NULL
                 /\ deferq_task_group_'[f] # NULL => GroupPending(f)'
                 /\ deferq_task_entry_'[f] # NULL => EntryPending(f)'
      <3>1. /\ deferq_task_group_[f] = NULL \/ deferq_task_entry_[f] = NULL
            /\ waitq_[f] # <<>> <=> deferq_task_group_[f] # NULL \/ deferq_task_entry_[f] # NULL
            /\ deferq_task_group_[f] # NULL => GroupPending(f)
            /\ deferq_task_entry_[f] # NULL => EntryPending(f)
        BY <2>1, Zenon DEF NoLostWakeup, GroupPending, EntryPending
      <3> QED BY <1>4, <2>1, <3>1, Zenon
    <2>2. /\ deferq_task_group_'[e] = NULL \/ deferq_task_entry_'[e] = NULL
          /\ waitq_'[e] # <<>> <=> deferq_task_group_'[e] # NULL \/ deferq_task_entry_'[e] # NULL
          /\ deferq_task_group_'[e] # NULL => GroupPending(e)'
          /\ deferq_task_entry_'[e] # NULL => EntryPending(e)'
      BY <1>4, Zenon DEF GroupPending, EntryPending
    <2>3. \A f \in Entries :
             /\ deferq_task_group_'[f] = NULL \/ deferq_task_entry_'[f] = NULL
             /\ waitq_'[f] # <<>> <=> deferq_task_group_'[f] # NULL \/ deferq_task_entry_'[f] # NULL
             /\ deferq_task_group_'[f] # NULL => GroupPending(f)'
             /\ deferq_task_entry_'[f] # NULL => EntryPending(f)'
      BY <2>1, <2>2, Zenon
    <2> QED BY <2>3, Zenon DEF NoLostWakeup, GroupPending, EntryPending
  <1> QED BY <1>3, <1>8, <1>9, Zenon

\* The same when no entry enters or leaves a deferq_ and the first task of each
\* waitq_ stays.
LEMMA DeferSame ==
  ASSUME DeferTypes, DeferQConsistent, NoLostWakeup, UNCHANGED deferVars,
         \A f \in Entries :
            /\ waitq_'[f] = <<>> <=> waitq_[f] = <<>>
            /\ waitq_[f] # <<>> => seqno'[Head(waitq_'[f])] = seqno[Head(waitq_[f])],
         \A f \in Entries :
            /\ deferq_task_group_[f] # NULL /\ GroupPending(f) => GroupPending(f)'
            /\ deferq_task_entry_[f] # NULL /\ EntryPending(f) => EntryPending(f)'
  PROVE  DeferTypes' /\ DeferQConsistent' /\ NoLostWakeup'
  <1>1. /\ deferq_' = deferq_ /\ group_deferq_' = group_deferq_ /\ defer_key' = defer_key
        /\ deferq_task_entry_' = deferq_task_entry_
        /\ deferq_task_group_' = deferq_task_group_
    BY Zenon DEF deferVars
  <1>2. DeferTypes'
    BY <1>1, Zenon DEF DeferTypes
  <1>3. DeferQConsistent'
    BY <1>1 DEF DeferQConsistent
  <1>4. \A f \in Entries :
           /\ deferq_task_group_[f] = NULL \/ deferq_task_entry_[f] = NULL
           /\ waitq_[f] # <<>> <=> deferq_task_group_[f] # NULL \/ deferq_task_entry_[f] # NULL
           /\ deferq_task_group_[f] # NULL => GroupPending(f)
           /\ deferq_task_entry_[f] # NULL => EntryPending(f)
    BY Zenon DEF NoLostWakeup, GroupPending, EntryPending
  <1>5. \A f \in Entries :
           /\ deferq_task_group_'[f] = NULL \/ deferq_task_entry_'[f] = NULL
           /\ waitq_'[f] # <<>> <=> deferq_task_group_'[f] # NULL \/ deferq_task_entry_'[f] # NULL
           /\ deferq_task_group_'[f] # NULL => GroupPending(f)'
           /\ deferq_task_entry_'[f] # NULL => EntryPending(f)'
    BY <1>1, <1>4, Zenon
  <1>6. NoLostWakeup'
    BY <1>5, Zenon DEF NoLostWakeup, GroupPending, EntryPending
  <1> QED BY <1>2, <1>3, <1>6, Zenon

\* An entry other than the one that is handled stays pending: counts of active
\* groups and entries stay positive and the iterators do not pass it.
LEMMA OthersPending ==
  ASSUME DeferTypes, LockTypes', running_' = running_,
         NEW e \in Entries, NEW gq, NEW eq, NEW tg, NEW te, NEW key,
         AddToDeferQ(e, gq, eq, tg, te, key),
         \A h \in Groups : group_run_count_[h] # 0 => group_run_count_'[h] # 0,
         \A h \in Entries : run_count_[h] # 0 => run_count_'[h] # 0,
         NEW f \in Entries, f # e,
         cur # NULL /\ deferq_task_group_[f] = Group(cur) /\ Ahead(git, f) =>
            cur' = cur /\ git' # NULL /\ git' # e /\ defer_key[git'] <= defer_key[f],
         deferq_task_entry_[f] = cur /\ Ahead(eit, f) =>
            cur' = cur /\ eit' # NULL /\ eit' # e /\ defer_key[eit'] <= defer_key[f]
  PROVE  /\ deferq_task_group_'[f] = deferq_task_group_[f]
            /\ deferq_task_group_[f] # NULL /\ GroupPending(f) => GroupPending(f)'
         /\ deferq_task_entry_'[f] = deferq_task_entry_[f]
            /\ deferq_task_entry_[f] # NULL /\ EntryPending(f) => EntryPending(f)'
  <1>1. \A x \in Entries \ {e} : defer_key'[x] = defer_key[x]
    BY Zenon DEF AddToDeferQ, DeferTypes
  <1>2. git' \in Entries \cup {NULL} /\ eit' \in Entries \cup {NULL}
    BY Zenon DEF LockTypes
  <1>3. /\ deferq_task_group_[f] \in Groups \cup {NULL}
        /\ deferq_task_entry_[f] \in Entries \cup {stop_entry, NULL}
    BY Zenon DEF DeferTypes
  <1>4. ASSUME deferq_task_group_'[f] = deferq_task_group_[f],
               deferq_task_group_[f] # NULL, GroupPending(f)
        PROVE  GroupPending(f)'
    <2>1. CASE group_run_count_[deferq_task_group_[f]] # 0
      BY <1>3, <1>4, <2>1, Zenon DEF GroupPending
    <2>2. CASE cur # NULL /\ deferq_task_group_[f] = Group(cur) /\ Ahead(git, f)
      <3>1. cur' = cur /\ git' # NULL /\ defer_key'[git'] <= defer_key'[f]
        BY <1>1, <1>2, <2>2, Zenon
      <3> QED BY <1>4, <2>2, <3>1, Zenon DEF GroupPending, Ahead
    <2> QED BY <1>4, <2>1, <2>2, ZenonT(30) DEF GroupPending
  <1>5. ASSUME deferq_task_entry_'[f] = deferq_task_entry_[f],
               deferq_task_entry_[f] # NULL, EntryPending(f)
        PROVE  EntryPending(f)'
    <2>1. CASE IF deferq_task_entry_[f] = stop_entry THEN ~running_
               ELSE run_count_[deferq_task_entry_[f]] # 0
      BY <1>3, <1>5, <2>1, Zenon DEF EntryPending
    <2>2. CASE deferq_task_entry_[f] = cur /\ Ahead(eit, f)
      <3>1. cur' = cur /\ eit' # NULL /\ defer_key'[eit'] <= defer_key'[f]
        BY <1>1, <1>2, <2>2, Zenon
      <3> QED BY <1>5, <2>2, <3>1, Zenon DEF EntryPending, Ahead
    <2> QED BY <1>5, <2>1, <2>2, Zenon DEF EntryPending
  <1> QED BY <1>4, <1>5, Zenon

-----------------------------------------------------------------------------
(* Steps that leave the tasks alone.                                       *)

\* A step that changes neither tasks nor counts nor queues.
LEMMA QuietInv ==
  ASSUME TaskTypes, RunTypes, SeqnoUnique, RunCountsExact, WaitQOrdered,
         UNCHANGED <<taskVars, waitq_, runVars, exiting>>,
         running_' \in BOOLEAN, task_cancel_' \in [Tasks -> BOOLEAN]
  PROVE  TaskTypes' /\ RunTypes' /\ SeqnoUnique' /\ RunCountsExact' /\ WaitQOrdered'
  <1>1. /\ seqno_' = seqno_ /\ state_' = state_ /\ seqno' = seqno /\ waitq_' = waitq_
        /\ run_count_' = run_count_ /\ run_task_' = run_task_
        /\ group_run_count_' = group_run_count_ /\ exiting' = exiting
    BY Zenon DEF taskVars, runVars
  <1>2. TaskTypes' /\ RunTypes'
    BY <1>1, Zenon DEF TaskTypes, RunTypes
  <1>3. SeqnoUnique'
    BY <1>1, Zenon DEF SeqnoUnique
  <1>4. RunCountsExact'
    BY <1>1 DEF RunCountsExact, Running
  <1>5. WaitQOrdered'
    BY <1>1, Zenon DEF WaitQOrdered
  <1> QED BY <1>2, <1>3, <1>4, <1>5, Zenon

\* The same for the deferq_ trees, if no entry loses what will wake it up.
LEMMA QuietDefer ==
  ASSUME DeferTypes, DeferQConsistent, NoLostWakeup,
         UNCHANGED <<taskVars, waitq_, deferVars>>,
         \A f \in Entries :
            /\ deferq_task_group_[f] # NULL /\ GroupPending(f) => GroupPending(f)'
            /\ deferq_task_entry_[f] # NULL /\ EntryPending(f) => EntryPending(f)'
  PROVE  DeferTypes' /\ DeferQConsistent' /\ NoLostWakeup'
  <1>1. seqno' = seqno /\ waitq_' = waitq_ /\ UNCHANGED deferVars
    BY Zenon DEF taskVars
  <1> QED BY <1>1, DeferSame, Zenon

\* While no walk is on, an entry is pending because of a count or of Stop().
LEMMA IdlePending ==
  ASSUME git = NULL, eit = NULL, NEW f \in Entries,
         UNCHANGED <<runVars, deferVars>>, running_' => running_
  PROVE  /\ deferq_task_group_[f] # NULL /\ GroupPending(f) => GroupPending(f)'
         /\ deferq_task_entry_[f] # NULL /\ EntryPending(f) => EntryPending(f)'
  <1>1. /\ run_count_' = run_count_ /\ group_run_count_' = group_run_count_
        /\ deferq_task_group_' = deferq_task_group_
        /\ deferq_task_entry_' = deferq_task_entry_
    BY Zenon DEF runVars, deferVars
  <1> QED BY <1>1, Zenon DEF GroupPending, EntryPending, Ahead

\* What depends on the policies only is kept by steps that leave them alone.
LEMMA PolicyKept ==
  ASSUME PolicyTypes, PolicySymmetric, RulesInstalled, UNCHANGED policyVars,
         mode # "policy", mode' # "policy"
  PROVE  PolicyTypes' /\ PolicySymmetric' /\ RulesInstalled'
  <1>1. policy_set_' = policy_set_ /\ policy_' = policy_ /\ policyq_' = policyq_
    BY Zenon DEF policyVars
  <1>2. PolicyTypes' /\ PolicySymmetric'
    BY <1>1, Zenon DEF PolicyTypes, PolicySymmetric
  <1>3. \A h, i : Applied(h, i)' => Applied(h, i)
    BY <1>1, SMTT(30) DEF Applied
  <1>4. RulesInstalled'
    BY <1>1, <1>3, Zenon DEF RulesInstalled
  <1> QED BY <1>2, <1>4, Zenon

\* A task that is neither waiting nor running any more leaves the scheduler.
LEMMA ForgetTask ==
  ASSUME TaskTypes, SeqnoUnique, NEW t \in Tasks,
         running_' = running_, seqno_' = seqno_,
         state_' = [state_ EXCEPT ![t] = "INIT"], seqno' = [seqno EXCEPT ![t] = 0],
         task_cancel_' \in [Tasks -> BOOLEAN], waitq_' \in [Entries -> Seq(Tasks)]
  PROVE  TaskTypes' /\ SeqnoUnique'
  <1>1. /\ state_'[t] = "INIT" /\ \A u \in Tasks \ {t} : state_'[u] = state_[u]
        /\ state_' \in [Tasks -> {"INIT", "WAIT", "RUN"}]
    BY Zenon DEF TaskTypes
  <1>2. /\ seqno'[t] = 0 /\ \A u \in Tasks \ {t} : seqno'[u] = seqno[u]
        /\ seqno' \in [Tasks -> 0 .. MaxSeqno]
    BY MaxSeqnoAssumption DEF TaskTypes
  <1>3. TaskTypes'
    BY <1>1, <1>2, Zenon DEF TaskTypes
  <1>4. seqno_ \in Nat /\ 0 <= seqno_
    BY MaxSeqnoAssumption DEF TaskTypes
  <1>5. SeqnoUnique'
    BY <1>1, <1>2, <1>4 DEF SeqnoUnique
  <1> QED BY <1>3, <1>5, Zenon

\* Cancel of a running task and Stop() change one flag.
LEMMA FlagInv ==
  ASSUME IInv, mode = "idle",
         UNCHANGED <<policyVars, taskVars, waitq_, runVars, deferVars, lockVars>>,
         running_' \in BOOLEAN, running_' => running_, task_cancel_' \in [Tasks -> BOOLEAN]
  PROVE  IInv'
  <1>0. /\ PolicyTypes /\ TaskTypes /\ RunTypes /\ DeferTypes /\ LockTypes
        /\ PolicySymmetric /\ RulesInstalled /\ NoConflict /\ SeqnoUnique /\ LockState
        /\ RunCountsExact /\ WaitQOrdered /\ DeferQConsistent /\ NoLostWakeup
    BY Zenon DEF IInv, TypeOK
  <1> USE <1>0
  <1>1. /\ mode' = mode /\ cur' = cur /\ git' = git /\ eit' = eit /\ exiting' = exiting
        /\ recycle' = recycle /\ rule' = rule /\ git = NULL /\ eit = NULL
        /\ cur = NULL /\ exiting = NULL
    BY Zenon DEF lockVars, LockState
  <1>2. TaskTypes' /\ RunTypes' /\ SeqnoUnique' /\ RunCountsExact' /\ WaitQOrdered'
    BY <1>1, QuietInv, Zenon
  <1>3. DeferTypes' /\ DeferQConsistent' /\ NoLostWakeup'
    BY <1>1, QuietDefer, IdlePending, Zenon
  <1>4. PolicyTypes' /\ PolicySymmetric' /\ RulesInstalled'
    BY <1>1, PolicyKept, Zenon
  <1>5. NoConflict' /\ LockTypes'
    BY <1>1, Zenon DEF NoConflict, policyVars, runVars, LockTypes
  <1>6. LockState'
    BY <1>1, Zenon DEF LockState, taskVars
  <1> QED BY <1>2, <1>3, <1>4, <1>5, <1>6, Zenon DEF IInv, TypeOK

LEMMA CancelRunningInv ==
  ASSUME IInv, NEW t \in Tasks, CancelRunning(t)
  PROVE  IInv'
  <1>1. TaskTypes
    BY Zenon DEF IInv, TypeOK
  <1>2. running_' = running_ /\ task_cancel_' \in [Tasks -> BOOLEAN] /\ running_ \in BOOLEAN
    BY <1>1, Zenon DEF CancelRunning, TaskTypes
  <1> QED BY <1>2, FlagInv DEF CancelRunning

LEMMA StopInv ==
  ASSUME IInv, Stop
  PROVE  IInv'
  <1>1. TaskTypes
    BY Zenon DEF IInv, TypeOK
  <1>2. task_cancel_' \in [Tasks -> BOOLEAN] /\ running_' = FALSE
    BY <1>1, Zenon DEF Stop, TaskTypes
  <1> QED BY <1>2, FlagInv, Zenon DEF Stop

LEMMA RunDeferQDoneInv ==
  ASSUME IInv, RunDeferQDone
  PROVE  IInv'
  <1>0. /\ PolicyTypes /\ TaskTypes /\ RunTypes /\ DeferTypes /\ LockTypes
        /\ PolicySymmetric /\ RulesInstalled /\ NoConflict /\ SeqnoUnique /\ LockState
        /\ RunCountsExact /\ WaitQOrdered /\ DeferQConsistent /\ NoLostWakeup
    BY Zenon DEF IInv, TypeOK
  <1> USE <1>0
  <1>1. /\ mode \in {"group", "entry"} /\ git = NULL /\ eit = NULL
        /\ mode' = (IF exiting = NULL THEN "idle" ELSE "exit") /\ cur' = NULL
        /\ UNCHANGED <<policyVars, taskVars, waitq_, runVars, deferVars, exiting>>
        /\ running_' = running_ /\ task_cancel_' = task_cancel_
        /\ git' = git /\ eit' = eit
        /\ exiting' = exiting /\ recycle' = recycle /\ rule' = rule
    BY Zenon DEF RunDeferQDone, LockState
  <1>2. TaskTypes' /\ RunTypes' /\ SeqnoUnique' /\ RunCountsExact' /\ WaitQOrdered'
    BY <1>1, QuietInv, Zenon DEF TaskTypes
  <1>3. DeferTypes' /\ DeferQConsistent' /\ NoLostWakeup'
    BY <1>1, QuietDefer, IdlePending, Zenon
  <1>4. PolicyTypes' /\ PolicySymmetric' /\ RulesInstalled'
    <2>1. mode # "policy" /\ mode' # "policy"
      BY <1>1, Zenon
    <2> QED BY <1>1, <2>1, PolicyKept, Zenon
  <1>5. NoConflict' /\ LockTypes'
    BY <1>1, Zenon DEF NoConflict, policyVars, runVars, LockTypes
  <1>6. LockState'
    BY <1>1, Zenon DEF LockState, taskVars
  <1> QED BY <1>2, <1>3, <1>4, <1>5, <1>6, Zenon DEF IInv, TypeOK

LEMMA StutterInv == IInv /\ UNCHANGED vars => IInv'
  <1> SUFFICES ASSUME IInv, UNCHANGED vars PROVE IInv'
    BY Zenon
  <1>0. /\ PolicyTypes /\ TaskTypes /\ RunTypes /\ DeferTypes /\ LockTypes
        /\ PolicySymmetric /\ RulesInstalled /\ NoConflict /\ SeqnoUnique /\ LockState
        /\ RunCountsExact /\ WaitQOrdered /\ DeferQConsistent /\ NoLostWakeup
    BY Zenon DEF IInv, TypeOK
  <1> USE <1>0
  <1>1. UNCHANGED <<running_, policyVars, taskVars, task_cancel_, waitq_, runVars,
                    deferVars, lockVars>>
    BY Zenon DEF vars
  <1>2. /\ policy_set_' = policy_set_ /\ policy_' = policy_ /\ policyq_' = policyq_
        /\ seqno_' = seqno_ /\ state_' = state_ /\ seqno' = seqno
        /\ run_count_' = run_count_ /\ run_task_' = run_task_
        /\ group_run_count_' = group_run_count_
        /\ deferq_' = deferq_ /\ group_deferq_' = group_deferq_ /\ defer_key' = defer_key
        /\ deferq_task_entry_' = deferq_task_entry_ /\ deferq_task_group_' = deferq_task_group_
        /\ mode' = mode /\ cur' = cur /\ git' = git /\ eit' = eit /\ exiting' = exiting
        /\ recycle' = recycle /\ rule' = rule /\ waitq_' = waitq_
        /\ running_' = running_ /\ task_cancel_' = task_cancel_
    BY <1>1, Zenon DEF policyVars, taskVars, runVars, deferVars, lockVars
  <1>3. TypeOK'
    BY <1>2, ZenonT(30) DEF TypeOK, PolicyTypes, TaskTypes, RunTypes, DeferTypes, LockTypes
  <1>4. PolicySymmetric' /\ RulesInstalled' /\ NoConflict'
    BY <1>2 DEF PolicySymmetric, RulesInstalled, Applied, NoConflict
  <1>5. SeqnoUnique' /\ LockState' /\ WaitQOrdered'
    BY <1>2, Zenon DEF SeqnoUnique, LockState, WaitQOrdered
  <1>6. RunCountsExact'
    BY <1>2, ZenonT(30) DEF RunCountsExact, Running
  <1>7. DeferQConsistent' /\ NoLostWakeup'
    BY <1>2, Zenon DEF DeferQConsistent, NoLostWakeup, Ahead
  <1> QED BY <1>3, <1>4, <1>5, <1>6, <1>7, Zenon DEF IInv

-----------------------------------------------------------------------------
(* SetPolicy.                                                              *)

\* What the steps of SetPolicy leave alone.
LEMMA PolicyStep ==
  ASSUME IInv, mode \in {"idle", "policy"}, mode' \in {"idle", "policy"},
         UNCHANGED <<running_, taskVars, task_cancel_, waitq_, runVars, deferVars,
                     git, eit, exiting, recycle>>,
         mode' = "idle" => cur' = NULL,
         mode' = "policy" =>
            /\ cur' \in Entries /\ Instance(cur') = -1
            /\ policy_set_'[Group(cur')] /\ rule' <= Len(Rules[Group(cur')])
            /\ \A h \in PolicyGroups(Group(cur')) : group_run_count_[h] = 0,
         PolicyTypes', LockTypes', PolicySymmetric', RulesInstalled', NoConflict'
  PROVE  IInv'
  <1>1. /\ TaskTypes /\ RunTypes /\ SeqnoUnique /\ RunCountsExact /\ WaitQOrdered
        /\ DeferTypes /\ DeferQConsistent /\ NoLostWakeup /\ LockState
    BY Zenon DEF IInv, TypeOK
  <1>2. /\ git = NULL /\ eit = NULL /\ exiting = NULL /\ ~recycle
        /\ git' = NULL /\ eit' = NULL /\ exiting' = NULL /\ ~recycle'
        /\ running_' \in BOOLEAN /\ task_cancel_' \in [Tasks -> BOOLEAN] /\ running_' = running_
        /\ group_run_count_' = group_run_count_
    BY <1>1, Zenon DEF LockState, TaskTypes, runVars
  <1>3. TaskTypes' /\ RunTypes' /\ SeqnoUnique' /\ RunCountsExact' /\ WaitQOrdered'
    BY <1>1, <1>2, QuietInv, Zenon
  <1>4. DeferTypes' /\ DeferQConsistent' /\ NoLostWakeup'
    BY <1>1, <1>2, QuietDefer, IdlePending
  <1>5. LockState'
    BY <1>2, Zenon DEF LockState
  <1> QED BY <1>3, <1>4, <1>5, Zenon DEF IInv, TypeOK

\* SetPolicy has applied no rule when it begins, and all when it ends.
LEMMA SetPolicyApplied ==
  ASSUME PolicyTypes, NEW h \in Groups, NEW i \in DOMAIN Rules[h],
         (\E g \in Groups : SetPolicy(g)) \/ SetPolicyDone
  PROVE  Applied(h, i)' <=> Applied(h, i)
  <1>1. i \in Nat /\ i # 0 /\ i <= Len(Rules[h])
    BY RuleFacts, Zenon
  <1>2. ASSUME NEW g \in Groups, SetPolicy(g) PROVE Applied(h, i)' <=> Applied(h, i)
    <2>1. /\ cur' = <<g, -1>> /\ mode = "idle" /\ mode' = "policy" /\ rule' = 0
          /\ ~policy_set_[g] /\ policy_set_' = [policy_set_ EXCEPT ![g] = TRUE]
      BY <1>2, Zenon DEF SetPolicy
    <2>2. Group(cur') = g
      BY <2>1, EntryFacts, Zenon
    <2>3. policy_set_'[h] = IF h = g THEN TRUE ELSE policy_set_[h]
      BY <2>1, Zenon DEF PolicyTypes
    <2> QED BY <1>1, <2>1, <2>2, <2>3 DEF Applied
  <1>3. CASE SetPolicyDone
    BY <1>1, <1>3, Zenon DEF SetPolicyDone, Applied, policyVars
  <1> QED BY <1>2, <1>3, Zenon

\* The lists of the policies stay when SetPolicy begins and when it ends.
LEMMA SetPolicyLists ==
  ASSUME IInv, (\E g \in Groups : SetPolicy(g)) \/ SetPolicyDone
  PROVE  PolicySymmetric' /\ RulesInstalled' /\ NoConflict'
  <1>1. PolicyTypes /\ PolicySymmetric /\ RulesInstalled /\ NoConflict
    BY Zenon DEF IInv, TypeOK
  <1>2. /\ policy_' = policy_ /\ policyq_' = policyq_
        /\ run_count_' = run_count_ /\ group_run_count_' = group_run_count_
    BY Zenon DEF SetPolicy, SetPolicyDone, policyVars, runVars
  <1>3. \A h \in Groups : \A i \in DOMAIN Rules[h] : Applied(h, i)' <=> Applied(h, i)
    BY <1>1, SetPolicyApplied, Zenon
  <1>4. RulesInstalled'
    BY <1>1, <1>2, <1>3, Zenon DEF RulesInstalled
  <1> QED BY <1>1, <1>2, <1>4, Zenon DEF PolicySymmetric, NoConflict

LEMMA SetPolicyInv ==
  ASSUME IInv, NEW g \in Groups, SetPolicy(g)
  PROVE  IInv'
  <1>1. PolicyTypes /\ LockTypes
    BY Zenon DEF IInv, TypeOK
  <1>2. /\ mode = "idle" /\ mode' = "policy" /\ cur' = <<g, -1>> /\ rule' = 0
        /\ policy_set_' = [policy_set_ EXCEPT ![g] = TRUE]
        /\ policy_' = policy_ /\ policyq_' = policyq_
        /\ UNCHANGED <<running_, taskVars, task_cancel_, waitq_, runVars, deferVars,
                       git, eit, exiting, recycle>>
        /\ \A h \in PolicyGroups(g) : group_run_count_[h] = 0
    BY Zenon DEF SetPolicy
  <1>3. /\ cur' \in Entries /\ Instance(cur') = -1 /\ Group(cur') = g
        /\ Len(Rules[g]) \in Nat
    BY <1>2, EntryFacts, RuleFacts, Zenon
  <1>4. PolicyTypes' /\ LockTypes' /\ policy_set_'[g]
    BY <1>1, <1>2, <1>3, Zenon DEF PolicyTypes, LockTypes
  <1>5. rule' <= Len(Rules[g])
    BY <1>2, <1>3
  <1> QED BY <1>2, <1>3, <1>4, <1>5, SetPolicyLists, PolicyStep, Zenon

LEMMA SetPolicyDoneInv ==
  ASSUME IInv, SetPolicyDone
  PROVE  IInv'
  <1>1. PolicyTypes /\ LockTypes
    BY Zenon DEF IInv, TypeOK
  <1>2. /\ mode = "policy" /\ mode' = "idle" /\ cur' = NULL /\ rule' = 0
        /\ UNCHANGED <<policy_set_, policy_, policyq_>>
        /\ UNCHANGED <<running_, taskVars, task_cancel_, waitq_, runVars, deferVars,
                       git, eit, exiting, recycle>>
    BY Zenon DEF SetPolicyDone, policyVars
  <1>3. PolicyTypes' /\ LockTypes'
    BY <1>1, <1>2, Zenon DEF PolicyTypes, LockTypes
  <1> QED BY <1>2, <1>3, SetPolicyLists, PolicyStep, Zenon

\* The pairs that a rule <m, k> of group g adds to the lists of the groups and
\* of the entries.
NewGroups(g, m, k, h, j) == k = -1 /\ ((h = g /\ j = m) \/ (h = m /\ j = g))

NewEntries(g, m, k, x, y) ==
    k # -1 /\ \/ x = <<g, k>> /\ y = <<m, k>>
              \/ x = <<m, k>> /\ y = <<g, k>>
              \/ x = <<g, -1>> /\ y = <<m, k>>
              \/ x = <<m, k>> /\ y = <<g, -1>>

LEMMA AddPolicyLists ==
  ASSUME PolicyTypes, NEW g \in Groups, NEW m \in Groups, NEW k \in Instances \cup {-1},
         cur = <<g, -1>>,
         m = Rules[g][rule + 1].match_id, k = Rules[g][rule + 1].match_instance, AddPolicy
  PROVE  /\ policy_' \in [Groups -> Seq(Groups)]
         /\ policyq_' \in [Entries -> Seq(Entries)]
         /\ \A h, j \in Groups : j \in Elements(policy_'[h]) <=>
               j \in Elements(policy_[h]) \/ NewGroups(g, m, k, h, j)
         /\ \A x, y \in Entries : y \in Elements(policyq_'[x]) <=>
               y \in Elements(policyq_[x]) \/ NewEntries(g, m, k, x, y)
  <1>1. /\ policy_ \in [Groups -> Seq(Groups)] /\ policyq_ \in [Entries -> Seq(Entries)]
        /\ <<g, k>> \in Entries /\ <<m, k>> \in Entries /\ cur \in Entries /\ Group(cur) = g
    BY EntryFacts, Zenon DEF PolicyTypes
  <1>2. CASE k = -1
    <2> DEFINE P == PushPolicy(PushPolicy(policy_, g, m), m, g)
    <2>1. policy_' = P /\ policyq_' = policyq_
      BY <1>1, <1>2, Zenon DEF AddPolicy
    <2>2. Joined(Groups, policy_, P, g, m)
      BY <1>1, PushBoth, Zenon
    <2> HIDE DEF P
    <2> QED BY <1>1, <1>2, <2>1, <2>2, Zenon DEF NewGroups, NewEntries, Joined
  <1>3. CASE k # -1
    <2> DEFINE P == PushPolicy(PushPolicy(policyq_, <<g, k>>, <<m, k>>), <<m, k>>, <<g, k>>)
               Q == PushPolicy(PushPolicy(P, cur, <<m, k>>), <<m, k>>, cur)
    <2>1. policyq_' = Q /\ policy_' = policy_
      BY <1>1, <1>3, Zenon DEF AddPolicy
    <2>2. Joined(Entries, policyq_, P, <<g, k>>, <<m, k>>)
      BY <1>1, PushBoth, Zenon
    <2>3. P \in [Entries -> Seq(Entries)]
      BY <2>2, Zenon DEF Joined
    <2> HIDE DEF P
    <2>4. Joined(Entries, P, Q, cur, <<m, k>>)
      BY <1>1, <2>3, PushBoth, Zenon
    <2> HIDE DEF Q
    <2> QED BY <1>1, <1>3, <2>1, <2>2, <2>4, Zenon DEF NewGroups, NewEntries, Joined
  <1> QED BY <1>2, <1>3, Zenon

\* AddPolicy applies one rule more of the group that SetPolicy is about.
LEMMA AddPolicyApplied ==
  ASSUME LockTypes, NEW g \in Groups, NEW h \in Groups, NEW i \in Nat,
         cur = <<g, -1>>, cur' = cur, mode' = mode, mode = "policy",
         policy_set_' = policy_set_, rule' = rule + 1, Applied(h, i)', ~Applied(h, i)
  PROVE  h = g /\ i = rule + 1
  <1>1. Group(cur) = g /\ Group(cur') = g
    BY EntryFacts, Zenon
  <1> QED BY <1>1 DEF Applied, LockTypes

\* A rule counts as applied once AddPolicy has put its pairs in the lists.
LEMMA AddPolicyRules ==
  ASSUME RulesInstalled, LockTypes, NEW g \in Groups, NEW m, NEW k,
         cur = <<g, -1>>, cur' = cur, mode' = mode, mode = "policy",
         policy_set_' = policy_set_, rule' = rule + 1,
         m = Rules[g][rule + 1].match_id, k = Rules[g][rule + 1].match_instance,
         \A h, j \in Groups : j \in Elements(policy_'[h]) <=>
            j \in Elements(policy_[h]) \/ NewGroups(g, m, k, h, j),
         \A x, y \in Entries : y \in Elements(policyq_'[x]) <=>
            y \in Elements(policyq_[x]) \/ NewEntries(g, m, k, x, y)
  PROVE  RulesInstalled'
  <1> SUFFICES ASSUME NEW h \in Groups, NEW i \in DOMAIN Rules[h], Applied(h, i)',
                      NEW p, p = Rules[h][i].match_id, NEW q, q = Rules[h][i].match_instance
               PROVE  IF q = -1 THEN p \in Elements(policy_'[h])
                      ELSE /\ <<p, q>> \in Elements(policyq_'[<<h, q>>])
                           /\ <<p, q>> \in Elements(policyq_'[<<h, -1>>])
    BY Zenon DEF RulesInstalled, Elements
  <1>2. p \in Groups /\ q \in Instances \cup {-1} /\ i \in Nat
    BY RuleFacts, Zenon
  <1>3. p \in Groups /\ <<p, q>> \in Entries /\ <<h, q>> \in Entries /\ <<h, -1>> \in Entries
    BY <1>2, EntryFacts, Zenon
  <1>4. CASE Applied(h, i)
    <2>1. IF q = -1 THEN p \in Elements(policy_[h])
          ELSE /\ <<p, q>> \in Elements(policyq_[<<h, q>>])
               /\ <<p, q>> \in Elements(policyq_[<<h, -1>>])
      BY <1>4, Zenon DEF RulesInstalled
    <2> QED BY <1>3, <2>1, Zenon
  <1>5. CASE ~Applied(h, i)
    <2>1. h = g /\ i = rule + 1
      BY <1>2, <1>5, AddPolicyApplied, Zenon
    <2> QED BY <1>3, <2>1, Zenon DEF NewGroups, NewEntries
  <1> QED BY <1>4, <1>5, Zenon

\* No task of an entry runs while none of its group does.
IdleGroups == \A e \in Entries : group_run_count_[Group(e)] = 0 => run_count_[e] = 0

LEMMA AddPolicyInv ==
  ASSUME IInv, IdleGroups, AddPolicy
  PROVE  IInv'
  <1>1. /\ PolicyTypes /\ LockTypes /\ LockState
        /\ PolicySymmetric /\ RulesInstalled /\ NoConflict
    BY Zenon DEF IInv, TypeOK
  <1>2. /\ mode = "policy" /\ mode' = mode /\ cur' = cur /\ policy_set_' = policy_set_
        /\ rule < Len(Rules[Group(cur)]) /\ rule' = rule + 1
        /\ UNCHANGED <<running_, taskVars, task_cancel_, waitq_, runVars, deferVars,
                       git, eit, exiting, recycle>>
    BY Zenon DEF AddPolicy
  <1>3. /\ cur \in Entries /\ Instance(cur) = -1 /\ policy_set_[Group(cur)] /\ rule \in Nat
        /\ \A h \in PolicyGroups(Group(cur)) : group_run_count_[h] = 0
    BY <1>1, <1>2, Zenon DEF LockState, LockTypes
  <1>4. PICK g \in Groups : cur = <<g, -1>> /\ Group(cur) = g
    BY <1>3, EntryFacts, Zenon
  <1>5. rule + 1 \in DOMAIN Rules[g] /\ rule' \in Nat /\ rule' <= Len(Rules[g])
    BY <1>2, <1>3, <1>4, RuleFacts, Zenon
  <1>6. PICK m \in Groups, k \in Instances \cup {-1} :
           /\ m = Rules[g][rule + 1].match_id /\ k = Rules[g][rule + 1].match_instance
           /\ k = -1 => m # g
    <2>1. /\ Rules[g][rule + 1].match_id \in Groups
          /\ Rules[g][rule + 1].match_instance \in Instances \cup {-1}
          /\ Rules[g][rule + 1].match_instance = -1 => Rules[g][rule + 1].match_id # g
      BY <1>5, RuleFacts, Zenon
    <2> QED BY <2>1, Zenon
  <1>7. group_run_count_[g] = 0 /\ group_run_count_[m] = 0
    BY <1>3, <1>4, <1>5, <1>6, Zenon DEF PolicyGroups
  <1>8. /\ policy_' \in [Groups -> Seq(Groups)]
        /\ policyq_' \in [Entries -> Seq(Entries)]
        /\ \A h, j \in Groups : j \in Elements(policy_'[h]) <=>
              j \in Elements(policy_[h]) \/ NewGroups(g, m, k, h, j)
        /\ \A x, y \in Entries : y \in Elements(policyq_'[x]) <=>
              y \in Elements(policyq_[x]) \/ NewEntries(g, m, k, x, y)
    BY <1>1, <1>4, <1>6, AddPolicyLists, Zenon
  <1>9. PolicyTypes' /\ LockTypes'
    BY <1>1, <1>2, <1>5, <1>8, Zenon DEF PolicyTypes, LockTypes
  <1>10. /\ \A h, j \in Groups : NewGroups(g, m, k, h, j) =>
               NewGroups(g, m, k, j, h) /\ h # j /\ group_run_count_[h] = 0
         /\ \A x, y \in Entries : NewEntries(g, m, k, x, y) =>
               /\ NewEntries(g, m, k, y, x) /\ group_run_count_[Group(x)] = 0
               /\ x = y => Instance(x) # -1
    BY <1>6, <1>7, EntryFacts DEF NewGroups, NewEntries
  <1>11. PolicySymmetric'
    <2>1. \A h, j \in Groups :
             j \in Elements(policy_'[h]) => h \in Elements(policy_'[j]) /\ h # j
      BY <1>1, <1>8, <1>10, Zenon DEF PolicySymmetric
    <2>2. \A x, y \in Entries :
             y \in Elements(policyq_'[x]) => x \in Elements(policyq_'[y])
      BY <1>1, <1>8, <1>10, Zenon DEF PolicySymmetric
    <2>3. \A x \in Entries : x \in Elements(policyq_'[x]) <=> Instance(x) # -1
      BY <1>1, <1>8, <1>10, Zenon DEF PolicySymmetric
    <2> QED BY <2>1, <2>2, <2>3, Zenon DEF PolicySymmetric, Elements
  <1>12. NoConflict'
    BY <1>1, <1>2, <1>8, <1>10, Zenon DEF NoConflict, IdleGroups, runVars, Elements
  <1>13. RulesInstalled'
    BY <1>1, <1>2, <1>4, <1>6, <1>8, AddPolicyRules, Zenon
  <1> QED BY <1>2, <1>3, <1>4, <1>5, <1>9, <1>11, <1>12, <1>13, PolicyStep, Zenon

-----------------------------------------------------------------------------
(* Cancel of a task that waits.                                            *)

\* waitq_[e] has lost its element i, and the other queues are as they were.
Erased(e, i) ==
    /\ waitq_' \in [Entries -> Seq(Tasks)] /\ WaitQOrdered'
    /\ \A f \in Entries \ {e} :
          /\ waitq_'[f] = waitq_[f]
          /\ waitq_[f] # <<>> => seqno'[Head(waitq_[f])] = seqno[Head(waitq_[f])]
    /\ waitq_[e] # <<>> /\ Len(waitq_[e]) \in Nat
    /\ waitq_'[e] = <<>> <=> Len(waitq_[e]) = 1
    /\ Len(waitq_[e]) > 1 =>
          LET h == IF i = 1 THEN waitq_[e][2] ELSE waitq_[e][1]
          IN  Head(waitq_'[e]) = h /\ seqno'[h] = seqno[h]

\* What Cancel does to the queues.
LEMMA CancelWaitQ ==
  ASSUME TaskTypes, WaitQOrdered, NEW t \in Tasks, NEW e \in Entries, e = EntryOf[t],
         NEW i \in DOMAIN waitq_[e], waitq_[e][i] = t,
         state_' = [state_ EXCEPT ![t] = "INIT"], seqno' = [seqno EXCEPT ![t] = 0],
         waitq_' = [waitq_ EXCEPT ![e] = DeleteFromWaitQ(@, i)]
  PROVE  Erased(e, i)
  <1> DEFINE w == waitq_[e]
             d == DeleteFromWaitQ(w, i)
  <1>1. /\ w \in Seq(Tasks) /\ Len(w) \in Nat /\ w # <<>> /\ i \in DOMAIN w /\ w[i] = t
        /\ \A j \in DOMAIN w : w[j] \in Tasks /\ seqno[w[j]] \in Nat
    BY MaxSeqnoAssumption DEF TaskTypes
  <1>2. \A j, k \in DOMAIN w : j < k => seqno[w[j]] < seqno[w[k]]
    BY Zenon DEF WaitQOrdered
  <1>3. /\ waitq_'[e] = d /\ \A f \in Entries \ {e} : waitq_'[f] = waitq_[f]
        /\ waitq_' = [f \in Entries |-> IF f = e THEN d ELSE waitq_[f]]
    BY Zenon DEF TaskTypes
  <1>4. /\ state_'[t] = "INIT" /\ \A u \in Tasks \ {t} : state_'[u] = state_[u]
        /\ \A u \in Tasks \ {t} : seqno'[u] = seqno[u]
    BY Zenon DEF TaskTypes
  <1>5. /\ \A u \in Tasks : \A f \in Entries :
              u \in Elements(waitq_[f]) <=> state_[u] = "WAIT" /\ f = EntryOf[u]
        /\ \A f \in Entries : \A j, k \in DOMAIN waitq_[f] :
              j < k => seqno[waitq_[f][j]] < seqno[waitq_[f][k]]
    BY Zenon DEF WaitQOrdered
  <1>14. \A f \in Entries :
            /\ \A u \in Elements(waitq_[f]) : u \in Tasks
            /\ waitq_[f] # <<>> => Head(waitq_[f]) \in Elements(waitq_[f])
    <2>1. \A f \in Entries : waitq_[f] \in Seq(Tasks)
      BY Zenon DEF TaskTypes
    <2> QED BY <2>1 DEF Elements
  <1> HIDE DEF w
  <1>6. /\ \A j, k \in DOMAIN w : j # k => w[j] # w[k]
        /\ \A j, k \in DOMAIN d : j < k => seqno[d[j]] < seqno[d[k]]
    BY <1>1, <1>2, DeleteOrdered, Zenon
  <1>7. /\ d \in Seq(Tasks) /\ Elements(d) = Elements(w) \ {t}
        /\ d = <<>> <=> Len(w) = 1
        /\ Len(w) > 1 => Head(d) = IF i = 1 THEN w[2] ELSE w[1]
    BY <1>1, <1>6, DeleteElements
  <1> HIDE DEF d
  <1>8. /\ \A f \in Entries \ {e} : \A u \in Elements(waitq_[f]) : seqno'[u] = seqno[u]
        /\ \A u \in Elements(d) : seqno'[u] = seqno[u]
    BY <1>4, <1>5, <1>7, <1>14 DEF w
  <1>9. waitq_' \in [Entries -> Seq(Tasks)]
    BY <1>3, <1>7, Zenon DEF TaskTypes
  <1>10. \A f \in Entries : \A j, k \in DOMAIN waitq_'[f] :
            j < k => seqno'[waitq_'[f][j]] < seqno'[waitq_'[f][k]]
    BY <1>3, <1>5, <1>6, <1>8 DEF Elements
  <1>11. \A u \in Tasks : \A f \in Entries :
            u \in Elements(waitq_'[f]) <=> state_'[u] = "WAIT" /\ f = EntryOf[u]
    BY <1>3, <1>4, <1>5, <1>7 DEF w
  <1>12. WaitQOrdered'
    BY <1>10, <1>11, Zenon DEF WaitQOrdered
  <1>13. Len(w) > 1 => LET h == IF i = 1 THEN w[2] ELSE w[1]
                       IN  Head(d) = h /\ seqno'[h] = seqno[h]
    <2> SUFFICES ASSUME Len(w) > 1 PROVE Head(d) \in Elements(d)
      BY <1>7, <1>8, Zenon
    <2> QED BY <1>7 DEF Elements
  <1>15. \A f \in Entries \ {e} :
            /\ waitq_'[f] = waitq_[f]
            /\ waitq_[f] # <<>> => seqno'[Head(waitq_[f])] = seqno[Head(waitq_[f])]
    BY <1>3, <1>8, <1>14
  <1>16. waitq_'[e] = <<>> <=> Len(w) = 1
    BY <1>3, <1>7, Zenon
  <1>17. Len(w) > 1 => LET h == IF i = 1 THEN w[2] ELSE w[1]
                       IN  Head(waitq_'[e]) = h /\ seqno'[h] = seqno[h]
    BY <1>3, <1>13, Zenon
  <1> QED BY <1>1, <1>9, <1>12, <1>15, <1>16, <1>17, Zenon DEF w, Erased

LEMMA CancelWaitingInv ==
  ASSUME IInv, NEW t \in Tasks, CancelWaiting(t)
  PROVE  IInv'
  <1> TaskTypes /\ WaitQOrdered /\ LockState /\ DeferTypes /\ NoLostWakeup
    BY Zenon DEF IInv, TypeOK
  <1> DEFINE e == EntryOf[t]
             w == waitq_[e]
             tg == deferq_task_group_[e]
             te == deferq_task_entry_[e]
             gq == IF tg = NULL THEN group_deferq_ ELSE [group_deferq_ EXCEPT ![tg] = @ \ {e}]
             eq == IF te = NULL THEN deferq_ ELSE [deferq_ EXCEPT ![te] = @ \ {e}]
  <1>1. /\ mode = "idle" /\ cur = NULL /\ exiting = NULL /\ git = NULL /\ eit = NULL
        /\ state_[t] = "WAIT"
        /\ state_' = [state_ EXCEPT ![t] = "INIT"] /\ seqno' = [seqno EXCEPT ![t] = 0]
        /\ running_' = running_ /\ UNCHANGED policyVars /\ seqno_' = seqno_
        /\ task_cancel_' = task_cancel_ /\ UNCHANGED runVars
        /\ mode' = mode /\ cur' = cur /\ git' = git /\ eit' = eit /\ exiting' = exiting
        /\ recycle' = recycle /\ rule' = rule
    BY Zenon DEF CancelWaiting, LockState, lockVars
  <1>2. PICK i \in DOMAIN w :
           /\ w[i] = t
           /\ waitq_' = [waitq_ EXCEPT ![e] = DeleteFromWaitQ(@, i)]
           /\ AdjustDeferQ(e, i)
    BY Zenon DEF CancelWaiting
  <1>3. e \in Entries
    BY TasksAssumption, Zenon
  <1>4. /\ waitq_' \in [Entries -> Seq(Tasks)] /\ WaitQOrdered'
        /\ \A f \in Entries \ {e} :
              /\ waitq_'[f] = waitq_[f]
              /\ waitq_[f] # <<>> => seqno'[Head(waitq_[f])] = seqno[Head(waitq_[f])]
        /\ w # <<>> /\ Len(w) \in Nat
        /\ waitq_'[e] = <<>> <=> Len(w) = 1
        /\ Len(w) > 1 => LET h == IF i = 1 THEN w[2] ELSE w[1]
                         IN  Head(waitq_'[e]) = h /\ seqno'[h] = seqno[h]
    <2>1. Erased(e, i)
      BY <1>1, <1>2, <1>3, CancelWaitQ, Zenon
    <2> QED BY <2>1, Zenon DEF Erased
  <1>5. /\ tg \in Groups \cup {NULL} /\ te \in Entries \cup {stop_entry, NULL}
        /\ tg = NULL \/ te = NULL
        /\ tg # NULL \/ te # NULL
        /\ tg # NULL => group_run_count_[tg] # 0
        /\ te # NULL => IF te = stop_entry THEN ~running_ ELSE run_count_[te] # 0
    BY <1>1, <1>3, <1>4, Zenon DEF NoLostWakeup, DeferTypes, Ahead
  <1>6. TreesWithout(e, gq, eq)
    BY <1>3, <1>5, TakenOut, Zenon DEF IInv
  <1>7. \/ /\ Len(w) = 1
           /\ AddToDeferQ(e, gq, eq, NULL, NULL, 0)
        \/ /\ Len(w) > 1 /\ i = 1
           /\ AddToDeferQ(e, gq, eq, tg, te, seqno[w[2]])
        \/ /\ Len(w) > 1 /\ i # 1
           /\ UNCHANGED deferVars
    BY <1>2, Zenon DEF AdjustDeferQ
  <1> HIDE DEF gq, eq, tg, te
  <1>8. TaskTypes' /\ SeqnoUnique'
    BY <1>1, <1>4, ForgetTask, Zenon DEF IInv, TaskTypes
  <1>9. /\ run_count_' = run_count_ /\ run_task_' = run_task_
        /\ group_run_count_' = group_run_count_
    BY <1>1, Zenon DEF runVars
  <1>10. RunTypes' /\ NoConflict'
    BY <1>1, <1>9, Zenon DEF IInv, TypeOK, RunTypes, NoConflict, policyVars
  <1>11. RunCountsExact'
    <2>1. \A u \in Tasks : Running(u)' <=> Running(u)
      BY <1>1, Zenon DEF Running, TaskTypes
    <2> QED BY <1>1, <2>1, SameCounts, Zenon DEF IInv
  <1> HIDE DEF w, e
  <1>12. ASSUME NEW tgp, NEW tep, NEW key, AddToDeferQ(e, gq, eq, tgp, tep, key),
                Deferral(e, tgp, tep, key)
         PROVE  DeferTypes' /\ DeferQConsistent' /\ NoLostWakeup'
    <2>1. LockTypes' /\ \A f : ~Ahead(git, f) /\ ~Ahead(eit, f)
      BY <1>1, Zenon DEF IInv, TypeOK, LockTypes, Ahead
    <2>2. \A f \in Entries \ {e} :
          /\ deferq_task_group_'[f] = deferq_task_group_[f]
             /\ deferq_task_group_[f] # NULL /\ GroupPending(f) => GroupPending(f)'
          /\ deferq_task_entry_'[f] = deferq_task_entry_[f]
             /\ deferq_task_entry_[f] # NULL /\ EntryPending(f) => EntryPending(f)'
      BY <1>1, <1>3, <1>9, <1>12, <2>1, OthersPending, Zenon DEF IInv, TypeOK
    <2>3. OthersKept(e)
      BY <1>4, <2>2, Zenon DEF OthersKept
    <2> QED BY <1>3, <1>6, <1>8, <1>12, <2>3, DeferStep, Zenon DEF IInv
  <1>13. DeferTypes' /\ DeferQConsistent' /\ NoLostWakeup'
    <2>1. CASE Len(w) = 1 /\ AddToDeferQ(e, gq, eq, NULL, NULL, 0)
      <3>1. Deferral(e, NULL, NULL, 0)
        BY <1>4, <2>1, Zenon DEF Deferral
      <3> QED BY <1>12, <2>1, <3>1, Zenon
    <2>2. CASE Len(w) > 1 /\ i = 1 /\ AddToDeferQ(e, gq, eq, tg, te, seqno[w[2]])
      <3>1. Deferral(e, tg, te, seqno[w[2]])
        <4>1. Len(w) # 1
          BY <2>2
        <4>2. waitq_'[e] # <<>> /\ seqno[w[2]] = seqno'[Head(waitq_'[e])]
          BY <1>4, <2>2, <4>1, Zenon
        <4> QED BY <1>1, <1>5, <1>9, <4>2, Zenon DEF Deferral
      <3> QED BY <1>12, <2>2, <3>1, Zenon
    <2>3. CASE Len(w) > 1 /\ i # 1 /\ UNCHANGED deferVars
      <3>1. Head(w) = w[1] /\ waitq_'[e] # <<>>
        BY <1>4, <2>3
      <3>2. \A f \in Entries :
               /\ waitq_'[f] = <<>> <=> waitq_[f] = <<>>
               /\ waitq_[f] # <<>> => seqno'[Head(waitq_'[f])] = seqno[Head(waitq_[f])]
        BY <1>4, <2>3, <3>1, Zenon DEF w
      <3>3. \A f \in Entries :
               /\ deferq_task_group_[f] # NULL /\ GroupPending(f) => GroupPending(f)'
               /\ deferq_task_entry_[f] # NULL /\ EntryPending(f) => EntryPending(f)'
        BY <1>1, <2>3, IdlePending, Zenon
      <3> QED BY <2>3, <3>2, <3>3, DeferSame, Zenon DEF IInv
    <2> QED BY <1>7, <2>1, <2>2, <2>3, Zenon
  <1>14. PolicyTypes' /\ PolicySymmetric' /\ RulesInstalled'
    BY <1>1, PolicyKept, Zenon DEF IInv, TypeOK
  <1>15. LockTypes' /\ LockState'
    BY <1>1, Zenon DEF IInv, TypeOK, LockTypes, LockState
  <1> QED BY <1>4, <1>8, <1>10, <1>11, <1>13, <1>14, <1>15, Zenon DEF IInv, TypeOK

-----------------------------------------------------------------------------
(* Tasks of an entry start in the order of their Enqueues.                 *)

\* An entry in a tree has a task waiting.
LEMMA DeferredWaits ==
  ASSUME IInv, NEW e \in Entries
  PROVE  /\ (\E g \in Groups : e \in group_deferq_[g]) => waitq_[e] # <<>>
         /\ (\E f \in Entries \cup {stop_entry} : e \in deferq_[f]) => waitq_[e] # <<>>
  <1>1. DeferQConsistent /\ NoLostWakeup
    BY Zenon DEF IInv
  <1>2. (\E g \in Groups : e \in group_deferq_[g]) => deferq_task_group_[e] # NULL
    BY <1>1, EntryFacts DEF DeferQConsistent
  <1>3. (\E f \in Entries \cup {stop_entry} : e \in deferq_[f]) => deferq_task_entry_[e] # NULL
    BY <1>1, EntryFacts DEF DeferQConsistent
  <1> QED BY <1>1, <1>2, <1>3, Zenon DEF NoLostWakeup

\* A walk is at an entry with a task waiting.
LEMMA IteratorWaits ==
  ASSUME IInv
  PROVE  /\ git # NULL /\ mode \in {"combined", "group"} => git \in Entries /\ waitq_[git] # <<>>
         /\ eit # NULL /\ mode \in {"combined", "entry"} => eit \in Entries /\ waitq_[eit] # <<>>
  <1>1. LockTypes /\ LockState
    BY Zenon DEF IInv, TypeOK
  <1>2. git # NULL /\ mode \in {"combined", "group"} =>
           git \in Entries /\ Group(cur) \in Groups /\ git \in group_deferq_[Group(cur)]
    BY <1>1, EntryFacts, Zenon DEF LockTypes, LockState
  <1>3. eit # NULL /\ mode \in {"combined", "entry"} =>
           eit \in Entries /\ cur \in Entries \cup {stop_entry} /\ eit \in deferq_[cur]
    BY <1>1, EntryFacts, Zenon DEF LockTypes, LockState
  <1> QED BY <1>2, <1>3, DeferredWaits, Zenon

\* A turn of a walk starts the oldest waiting tasks of an entry.
LEMMA TurnInOrder ==
  ASSUME IInv, NEW x \in Entries, NEW gq, NEW eq, waitq_[x] # <<>>,
         RunDeferEntry(x, gq, eq), seqno' = seqno
  PROVE  InOrder
  <1> TaskTypes /\ WaitQOrdered
    BY Zenon DEF IInv, TypeOK
  <1> SUFFICES ASSUME NEW t \in Tasks, NEW u \in Tasks, EntryOf[t] = EntryOf[u], u # t,
                      state_[t] = "WAIT", state_[u] # "RUN", state_'[u] = "RUN",
                      state_'[t] = "WAIT"
               PROVE  seqno'[t] > seqno'[u]
    BY ZenonT(30) DEF InOrder
  <1>1. RunTasks(x, Runnable(x))
    BY Zenon DEF RunDeferEntry
  <1>2. u \in Elements(Runnable(x)) /\ t \notin Elements(Runnable(x))
    BY <1>1, Zenon DEF RunTasks
  <1> DEFINE w == waitq_[x]
  <1>3. w \in Seq(Tasks) /\ w # <<>> /\ DOMAIN w = 1 .. Len(w) /\ Len(w) \in Nat
    BY DEF TaskTypes
  <1>4. \A v : v \in Elements(w) <=> v \in Elements(Runnable(x)) \/ v \in Elements(Remaining(x))
    BY RunnableFacts, ZenonT(30)
  <1>5. u \in Elements(w) /\ EntryOf[u] = x /\ t \in Elements(w)
    BY <1>2, <1>4, TasksAssumption, Zenon DEF WaitQOrdered
  <1>6. Runnable(x) = <<w[1]>>
    BY <1>2, <1>3, <1>5, SMTT(30) DEF Runnable
  <1>7. u = w[1]
    BY <1>2, <1>6 DEF Elements
  <1>8. PICK i \in DOMAIN w : t = w[i]
    BY <1>5 DEF Elements
  <1>9. 1 < i /\ 1 \in DOMAIN w
    BY <1>3, <1>7, <1>8, SMTT(30)
  <1>10. seqno[w[1]] < seqno[w[i]]
    BY <1>9, Zenon DEF WaitQOrdered
  <1>11. seqno[w[1]] \in Nat /\ seqno[w[i]] \in Nat
    BY <1>7, <1>8, MaxSeqnoAssumption, SMTT(30) DEF TaskTypes
  <1> QED BY <1>7, <1>8, <1>10, <1>11, Zenon

\* A task that is enqueued starts at once only if no task of its entry waits.
LEMMA EnqueueInOrder ==
  ASSUME IInv, NEW v \in Tasks, EnqueueUnLocked(v)
  PROVE  InOrder
  <1> TaskTypes /\ WaitQOrdered
    BY Zenon DEF IInv, TypeOK
  <1> SUFFICES ASSUME NEW t \in Tasks, NEW u \in Tasks, EntryOf[t] = EntryOf[u], u # t,
                      state_[t] = "WAIT", state_[u] # "RUN", state_'[u] = "RUN"
               PROVE  FALSE
    BY Zenon DEF InOrder
  <1>1. t \in Elements(waitq_[EntryOf[t]])
    BY TasksAssumption, Zenon DEF WaitQOrdered
  <1>2. waitq_[EntryOf[t]] # <<>>
    BY <1>1, TasksAssumption, WaitQTasks, Zenon
  <1>3. \/ state_' = [state_ EXCEPT ![v] = "WAIT"]
        \/ waitq_[EntryOf[v]] = <<>> /\ RunTasks(EntryOf[v], <<v>>)
    BY Zenon DEF EnqueueUnLocked
  <1>4. CASE state_' = [state_ EXCEPT ![v] = "WAIT"]
    BY <1>4, Zenon DEF TaskTypes
  <1>5. CASE waitq_[EntryOf[v]] = <<>> /\ RunTasks(EntryOf[v], <<v>>)
    <2>1. u = v
      BY <1>5 DEF RunTasks, Elements
    <2> QED BY <1>2, <1>5, <2>1, Zenon
  <1> QED BY <1>3, <1>4, <1>5, Zenon

LEMMA NextInOrder == IInv /\ [Next]_vars => [InOrder]_vars
  <1> SUFFICES ASSUME IInv, Next PROVE InOrder
    BY Zenon
  <1> TaskTypes /\ LockTypes /\ LockState
    BY Zenon DEF IInv, TypeOK
  <1>1. ASSUME \A u \in Tasks : state_'[u] = "RUN" => state_[u] = "RUN"
        PROVE  InOrder
    BY <1>1, Zenon DEF InOrder
  <1>2. CASE \E g \in Groups : SetPolicy(g)
    BY <1>1, <1>2, Zenon DEF SetPolicy, taskVars
  <1>3. ASSUME NEW t \in Tasks, Enqueue(t) PROVE InOrder
    BY <1>3, EnqueueInOrder, Zenon DEF Enqueue
  <1>4. ASSUME NEW t \in Tasks, CancelRunning(t) PROVE InOrder
    BY <1>1, <1>4, Zenon DEF CancelRunning, taskVars
  <1>5. ASSUME NEW t \in Tasks, CancelWaiting(t) PROVE InOrder
    BY <1>1, <1>5, Zenon DEF CancelWaiting, TaskTypes
  <1>6. ASSUME NEW t \in Tasks, NEW complete \in BOOLEAN, OnTaskExit(t, complete) PROVE InOrder
    BY <1>1, <1>6, Zenon DEF OnTaskExit, taskVars
  <1>7. CASE Stop \/ Start
    BY <1>1, <1>7, SMTT(30) DEF Stop, Start, taskVars
  <1>8. ASSUME git # NULL, mode \in {"combined", "group"}, GroupTurn, TurnUnchanged
        PROVE  InOrder
    <2>1. git \in Entries /\ waitq_[git] # <<>>
      BY <1>8, IteratorWaits, Zenon
    <2>2. seqno' = seqno
      BY <1>8, Zenon DEF TurnUnchanged
    <2> QED BY <1>8, <2>1, <2>2, TurnInOrder, Zenon DEF GroupTurn
  <1>9. ASSUME eit # NULL, mode \in {"combined", "entry"}, EntryTurn, TurnUnchanged
        PROVE  InOrder
    <2>1. eit \in Entries /\ waitq_[eit] # <<>>
      BY <1>9, IteratorWaits, Zenon
    <2>2. seqno' = seqno
      BY <1>9, Zenon DEF TurnUnchanged
    <2> QED BY <1>9, <2>1, <2>2, TurnInOrder, Zenon DEF EntryTurn
  <1>10. CASE AddPolicy \/ SetPolicyDone \/ RunCombinedDeferQRest \/ RunDeferQDone
    BY <1>1, <1>10, Zenon
       DEF AddPolicy, SetPolicyDone, RunCombinedDeferQRest, RunDeferQDone, taskVars
  <1>11. CASE RunCombinedDeferQ
    BY <1>8, <1>9, <1>11, Zenon DEF RunCombinedDeferQ
  <1>12. CASE GroupRunDeferQ \/ RunDeferQ
    BY <1>8, <1>9, <1>12, Zenon DEF GroupRunDeferQ, RunDeferQ
  <1>13. CASE OnTaskExitDone
    <2>1. exiting \in Tasks
      BY <1>13, Zenon DEF OnTaskExitDone, LockState, LockTypes
    <2>2. CASE EnqueueUnLocked(exiting)
      BY <2>1, <2>2, EnqueueInOrder, Zenon
    <2>3. CASE state_' = [state_ EXCEPT ![exiting] = "INIT"]
      BY <1>1, <2>1, <2>3, Zenon DEF TaskTypes
    <2> QED BY <1>13, <2>2, <2>3, ZenonT(30) DEF OnTaskExitDone
  <1> QED BY <1>2, <1>3, <1>4, <1>5, <1>6, <1>7, <1>10, <1>11, <1>12, <1>13, Zenon
             DEF Next, Locked

-----------------------------------------------------------------------------
(* task.cc implements ExclusiveExecution: every step is a step of it, or   *)
(* changes nothing that it sees.                                           *)

\* The three variables of ExclusiveExecution, as functions of those of task.cc.
RunningTasks == {t \in Tasks : Running(t)}
ExcludedPairs == {p \in Entries \X Entries : Excluded(p[1], p[2])}

\* A step that leaves the waitq_, the running tasks and the rules applied alone.
LEMMA Stutter ==
  ASSUME waitq_' = waitq_, RunningTasks' = RunningTasks, ExcludedPairs' = ExcludedPairs
  PROVE  UNCHANGED Abstract!absVars
  BY Zenon DEF Abstract!absVars, RunningTasks, ExcludedPairs

\* The exclusion is a function of which rules are applied.
LEMMA SameRules ==
  ASSUME \A g \in Groups : \A i \in DOMAIN Rules[g] : Applied(g, i)' <=> Applied(g, i)
  PROVE  ExcludedPairs' = ExcludedPairs
  <1>1. ASSUME NEW e \in Entries, NEW f \in Entries PROVE Excluded(e, f)' <=> Excluded(e, f)
    <2>1. Group(e) \in Groups
      BY EntryFacts, Zenon
    <2> QED BY <2>1, Zenon DEF Excluded
  <1>2. ASSUME NEW p \in Entries \X Entries
        PROVE  Excluded(p[1], p[2])' <=> Excluded(p[1], p[2])
    BY <1>1, Zenon
  <1> QED BY <1>2, Zenon DEF ExcludedPairs

\* A step of a thread that is not in SetPolicy applies no rule.
LEMMA SamePolicies ==
  ASSUME policy_set_' = policy_set_,
         \/ mode # "policy" /\ mode' # "policy"
         \/ UNCHANGED <<mode, cur, rule>>
  PROVE  ExcludedPairs' = ExcludedPairs
  <1>1. \A g \in Groups : \A i \in DOMAIN Rules[g] : Applied(g, i)' <=> Applied(g, i)
    BY Zenon DEF Applied
  <1> QED BY <1>1, SameRules, Zenon

\* Tasks that run together are compatible, before and after a step.
LEMMA RunningCompatible == MutualExclusion => Abstract!Compatible(RunningTasks)
  BY Zenon DEF MutualExclusion, RunningTasks, Abstract!Compatible

LEMMA RunningCompatibleAfter == MutualExclusion' => Abstract!Compatible(RunningTasks)'
  BY RunningCompatible, PTL

\* EnqueueUnLocked adds the task behind those of its entry, or starts it.
LEMMA EnqueueRefines ==
  ASSUME IInv, MutualExclusion', NEW v \in Tasks, EnqueueUnLocked(v), ~Running(v), state_[v] # "WAIT",
         exiting \in {v, NULL}, exiting' = NULL, ExcludedPairs' = ExcludedPairs
  PROVE  Abstract!Arrive(v) \/ Abstract!StartAtOnce(v)
  <1> DEFINE e == EntryOf[v]
  <1>1. TaskTypes /\ WaitQOrdered /\ NULL \notin Tasks
    BY NullAssumption, Zenon DEF IInv, TypeOK
  <1>2. e \in Entries
    BY TasksAssumption, Zenon
  <1>3. \A i \in DOMAIN waitq_[e] : waitq_[e][i] # v
    <2>1. v \notin Elements(waitq_[e])
      BY <1>1, <1>2, Zenon DEF WaitQOrdered
    <2> QED BY <2>1, Zenon DEF Elements
  <1>4. v \notin RunningTasks
    BY Zenon DEF RunningTasks
  <1>5. CASE /\ waitq_' = [waitq_ EXCEPT ![e] = Append(@, v)]
             /\ state_' = [state_ EXCEPT ![v] = "WAIT"]
    <2>1. \A t \in Tasks : Running(t)' <=> Running(t)
      BY <1>1, <1>5, Zenon DEF Running, TaskTypes
    <2>2. RunningTasks' = RunningTasks
      BY <2>1, Zenon DEF RunningTasks
    <2> QED BY <1>3, <1>4, <1>5, <2>2, Zenon DEF Abstract!Arrive, RunningTasks, ExcludedPairs
  <1>6. CASE waitq_[e] = <<>> /\ waitq_' = waitq_ /\ RunTasks(e, <<v>>)
    <2>1. \A t \in Tasks : state_'[t] = IF t = v THEN "RUN" ELSE state_[t]
      BY <1>6 DEF RunTasks, Elements
    <2>2. \A t \in Tasks : Running(t)' <=> Running(t) \/ t = v
      BY <1>1, <2>1, Zenon DEF Running
    <2>3. RunningTasks' = RunningTasks \cup {v}
      BY <2>2, Zenon DEF RunningTasks
    <2>4. Abstract!Compatible(RunningTasks')
      BY RunningCompatibleAfter, Zenon DEF Abstract!Compatible, ExcludedPairs
    <2> QED BY <1>4, <1>6, <2>3, <2>4, Zenon DEF Abstract!StartAtOnce, RunningTasks, ExcludedPairs
  <1> QED BY <1>5, <1>6, Zenon DEF EnqueueUnLocked

\* A turn of a walk starts the first or all waiting tasks of an entry, or none.
LEMMA TurnRefines ==
  ASSUME IInv, MutualExclusion', NEW x \in Entries, NEW gq, NEW eq, waitq_[x] # <<>>,
         RunDeferEntry(x, gq, eq), exiting' = exiting, ExcludedPairs' = ExcludedPairs
  PROVE  \/ UNCHANGED Abstract!absVars
         \/ Abstract!StartFirst(x)
         \/ Abstract!StartAll(x)
  <1>1. TaskTypes /\ WaitQOrdered /\ LockState /\ NULL \notin Tasks
    BY NullAssumption, Zenon DEF IInv, TypeOK
  <1>2. CASE state_' = state_ /\ waitq_' = waitq_
    <2>1. RunningTasks' = RunningTasks
      BY <1>2, Zenon DEF RunningTasks, Running
    <2> QED BY <1>2, <2>1, Stutter, Zenon
  <1>3. CASE /\ RunTasks(x, Runnable(x))
             /\ waitq_' = [waitq_ EXCEPT ![x] = Remaining(x)]
    <2>1. \A v \in Elements(Runnable(x)) : v \in Elements(waitq_[x])
      BY <1>1, RunnableFacts, Zenon
    <2>2. \A v \in Elements(Runnable(x)) : v \in Tasks /\ state_[v] = "WAIT" /\ v # exiting
      BY <1>1, <2>1, WaitQTasks, Zenon DEF LockState
    <2>3. \A t \in Tasks : Running(t)' <=> Running(t) \/ t \in Elements(Runnable(x))
      BY <1>3, <2>2, Zenon DEF Running, RunTasks
    <2>4. RunningTasks' = RunningTasks \cup Elements(Runnable(x))
      BY <2>2, <2>3, Zenon DEF RunningTasks
    <2>5. Abstract!Compatible(RunningTasks')
      BY RunningCompatibleAfter, Zenon DEF Abstract!Compatible, ExcludedPairs
    <2>6. CASE Instance(x) = -1
      <3>1. /\ waitq_' = [waitq_ EXCEPT ![x] = <<>>]
            /\ Elements(Runnable(x)) = {waitq_[x][i] : i \in DOMAIN waitq_[x]}
        BY <1>3, <2>6, Zenon DEF Runnable, Remaining, Elements
      <3> QED BY <2>4, <2>5, <3>1, Zenon DEF Abstract!StartAll, RunningTasks, ExcludedPairs
    <2>7. CASE Instance(x) # -1
      <3>1. /\ waitq_' = [waitq_ EXCEPT ![x] = Tail(@)]
            /\ Elements(Runnable(x)) = {Head(waitq_[x])}
        BY <1>3, <2>7 DEF Runnable, Remaining, Elements
      <3> QED BY <2>4, <2>5, <3>1, Zenon DEF Abstract!StartFirst, RunningTasks, ExcludedPairs
    <2> QED BY <2>6, <2>7, ZenonT(30)
  <1> QED BY <1>2, <1>3, Zenon DEF RunDeferEntry

\* Cancel of a waiting task withdraws it.
LEMMA CancelRefines ==
  ASSUME IInv, NEW t \in Tasks, CancelWaiting(t)
  PROVE  Abstract!Withdraw(EntryOf[t])
  <1>1. TaskTypes /\ LockState
    BY Zenon DEF IInv, TypeOK
  <1>2. \A u \in Tasks : Running(u)' <=> Running(u)
    BY <1>1, Zenon DEF CancelWaiting, Running, TaskTypes, lockVars
  <1>3. RunningTasks' = RunningTasks
    BY <1>2, Zenon DEF RunningTasks
  <1>4. ExcludedPairs' = ExcludedPairs
    BY SamePolicies, Zenon DEF CancelWaiting, policyVars, lockVars
  <1>5. \E i \in DOMAIN waitq_[EntryOf[t]] :
           waitq_' = [waitq_ EXCEPT ![EntryOf[t]] = Abstract!Without(@, i)]
    BY Zenon DEF CancelWaiting, DeleteFromWaitQ, Abstract!Without
  <1> QED BY <1>3, <1>4, <1>5, Zenon DEF Abstract!Withdraw, RunningTasks, ExcludedPairs

\* A task ends when OnTaskExit takes it out of the counts.
LEMMA ExitRefines ==
  ASSUME IInv, NEW t \in Tasks, NEW complete \in BOOLEAN, OnTaskExit(t, complete)
  PROVE  Abstract!Finish(t)
  <1>1. LockState /\ NULL \notin Tasks
    BY NullAssumption, Zenon DEF IInv
  <1>2. exiting = NULL /\ state_' = state_ /\ exiting' = t /\ waitq_' = waitq_ /\ state_[t] = "RUN"
    BY <1>1, Zenon DEF OnTaskExit, LockState, taskVars
  <1>3. \A u \in Tasks : Running(u)' <=> Running(u) /\ u # t
    BY <1>1, <1>2, Zenon DEF Running
  <1>4. t \in RunningTasks /\ RunningTasks' = RunningTasks \ {t}
    <2>1. Running(t)
      BY <1>1, <1>2, Zenon DEF Running
    <2> QED BY <1>3, <2>1, Zenon DEF RunningTasks
  <1>5. ExcludedPairs' = ExcludedPairs
    <2>1. mode # "policy" /\ mode' # "policy" /\ policy_set_' = policy_set_
      BY Zenon DEF OnTaskExit, policyVars
    <2> QED BY <2>1, SamePolicies, Zenon
  <1> QED BY <1>2, <1>4, <1>5, Zenon DEF Abstract!Finish, RunningTasks, ExcludedPairs

\* One more rule of SetPolicy is in force, and no running tasks violate it.
LEMMA AddPolicyRefines ==
  ASSUME IInv, MutualExclusion', AddPolicy
  PROVE  Abstract!Restrict
  <1>1. \A g \in Groups : \A i \in DOMAIN Rules[g] : Applied(g, i) => Applied(g, i)'
    <2>1. LockTypes /\ \A g \in Groups : Rules[g] \in Seq(TaskExclusion)
      BY RulesAssumption, Zenon DEF IInv, TypeOK
    <2>2. rule \in Nat /\ rule' = rule + 1 /\ mode' = mode /\ cur' = cur /\ policy_set_' = policy_set_
      BY <2>1, Zenon DEF LockTypes, AddPolicy
    <2>3. ASSUME NEW g \in Groups, NEW i \in DOMAIN Rules[g], Applied(g, i) PROVE Applied(g, i)'
      <3>1. i \in Nat
        <4>1. Rules[g] \in Seq(TaskExclusion)
          BY <2>1, Zenon
        <4> QED BY <4>1
      <3> QED BY <2>2, <2>3, <3>1 DEF Applied
    <2> QED BY <2>3, Zenon
  <1>2. ASSUME NEW e \in Entries, NEW f \in Entries, Excluded(e, f) PROVE Excluded(e, f)'
    <2>1. Group(e) \in Groups
      BY EntryFacts, Zenon
    <2> QED BY <1>1, <1>2, <2>1, Zenon DEF Excluded
  <1>3. ExcludedPairs \subseteq ExcludedPairs'
    <2>1. ASSUME NEW p \in Entries \X Entries, Excluded(p[1], p[2]) PROVE Excluded(p[1], p[2])'
      BY <1>2, <2>1, Zenon
    <2> QED BY <2>1, Zenon DEF ExcludedPairs
  <1>4. RunningTasks' = RunningTasks /\ waitq_' = waitq_
    BY Zenon DEF AddPolicy, RunningTasks, Running, taskVars
  <1>5. Abstract!Compatible(RunningTasks)'
    BY RunningCompatibleAfter, Zenon
  <1> QED BY <1>3, <1>4, <1>5, Zenon
             DEF Abstract!Restrict, Abstract!Compatible, RunningTasks, ExcludedPairs

\* SetPolicy has applied no rule when it begins and all when it ends.
LEMMA SetPolicyRefines ==
  ASSUME IInv, (\E g \in Groups : SetPolicy(g)) \/ SetPolicyDone
  PROVE  UNCHANGED Abstract!absVars
  <1>1. PolicyTypes
    BY Zenon DEF IInv, TypeOK
  <1>2. waitq_' = waitq_ /\ RunningTasks' = RunningTasks
    BY Zenon DEF SetPolicy, SetPolicyDone, RunningTasks, Running, taskVars
  <1>3. \A h \in Groups : \A i \in DOMAIN Rules[h] : Applied(h, i)' <=> Applied(h, i)
    BY <1>1, SetPolicyApplied, Zenon
  <1> QED BY <1>2, <1>3, SameRules, Stutter, Zenon

\* Steps that only move the holder of mutex_, or set running_ or task_cancel_.
LEMMA QuietRefines ==
  ASSUME IInv,
         \/ \E t \in Tasks : CancelRunning(t)
         \/ Stop \/ Start \/ RunCombinedDeferQRest \/ RunDeferQDone
  PROVE  UNCHANGED Abstract!absVars
  <1>1. waitq_' = waitq_ /\ state_' = state_ /\ exiting' = exiting
    BY Zenon
       DEF CancelRunning, Stop, Start, RunCombinedDeferQRest, RunDeferQDone, taskVars, lockVars
  <1>2. RunningTasks' = RunningTasks
    BY <1>1, Zenon DEF RunningTasks, Running
  <1>3. /\ policy_set_' = policy_set_
        /\ mode # "policy" /\ mode' # "policy"
    BY Zenon
       DEF CancelRunning, Stop, Start, RunCombinedDeferQRest, RunDeferQDone, policyVars,
           lockVars
  <1> QED BY <1>1, <1>2, <1>3, SamePolicies, Stutter, Zenon

LEMMA InitRefines == Init => Abstract!Init
  <1> SUFFICES ASSUME Init PROVE Abstract!Init
    BY Zenon
  <1>1. RunningTasks = {}
    BY Zenon DEF Init, RunningTasks, Running
  <1>2. ExcludedPairs \subseteq Entries \X Entries
    BY Zenon DEF ExcludedPairs
  <1> QED BY <1>1, <1>2, Zenon DEF Init, Abstract!Init, RunningTasks, ExcludedPairs

LEMMA NextRefines == IInv /\ MutualExclusion' /\ [Next]_vars => [Abstract!Next]_(Abstract!absVars)
  <1> SUFFICES ASSUME IInv, MutualExclusion', [Next]_vars
               PROVE  Abstract!Next \/ UNCHANGED Abstract!absVars
    BY Zenon
  <1>0. TaskTypes /\ LockTypes /\ LockState /\ NULL \notin Tasks
    BY NullAssumption, Zenon DEF IInv, TypeOK
  <1>1. ASSUME NEW t \in Tasks, Enqueue(t) PROVE Abstract!Next
    <2>1. exiting = NULL /\ exiting' = NULL /\ state_[t] = "INIT"
      BY <1>0, <1>1, Zenon DEF Enqueue, LockState, lockVars
    <2>2. ExcludedPairs' = ExcludedPairs
      BY <1>1, SamePolicies, Zenon DEF Enqueue, policyVars, lockVars
    <2>3. ~Running(t) /\ state_[t] # "WAIT" /\ EnqueueUnLocked(t)
      BY <1>1, <2>1, Zenon DEF Running, Enqueue
    <2> QED BY <2>1, <2>2, <2>3, EnqueueRefines, ZenonT(30) DEF Abstract!Next
  <1>2. ASSUME NEW t \in Tasks, CancelWaiting(t) PROVE Abstract!Next
    BY <1>2, CancelRefines, TasksAssumption, Zenon DEF Abstract!Next
  <1>3. ASSUME NEW t \in Tasks, NEW complete \in BOOLEAN, OnTaskExit(t, complete)
        PROVE  Abstract!Next
    BY <1>3, ExitRefines, Zenon DEF Abstract!Next
  <1>4. ASSUME TurnUnchanged, mode # "policy" PROVE ExcludedPairs' = ExcludedPairs /\ exiting' = exiting
    BY <1>4, SamePolicies, Zenon DEF TurnUnchanged, policyVars
  <1>5. ASSUME git # NULL, mode \in {"combined", "group"}, GroupTurn, TurnUnchanged
        PROVE  Abstract!Next \/ UNCHANGED Abstract!absVars
    <2>1. git \in Entries /\ waitq_[git] # <<>>
      BY <1>5, IteratorWaits, Zenon
    <2>2. RunDeferEntry(git, [group_deferq_ EXCEPT ![Group(cur)] = @ \ {git}], deferq_)
      BY <1>5, Zenon DEF GroupTurn
    <2> QED BY <1>4, <1>5, <2>1, <2>2, TurnRefines, Zenon DEF Abstract!Next
  <1>6. ASSUME eit # NULL, mode \in {"combined", "entry"}, EntryTurn, TurnUnchanged
        PROVE  Abstract!Next \/ UNCHANGED Abstract!absVars
    <2>1. eit \in Entries /\ waitq_[eit] # <<>>
      BY <1>6, IteratorWaits, Zenon
    <2>2. RunDeferEntry(eit, group_deferq_, [deferq_ EXCEPT ![cur] = @ \ {eit}])
      BY <1>6, Zenon DEF EntryTurn
    <2> QED BY <1>4, <1>6, <2>1, <2>2, TurnRefines, Zenon DEF Abstract!Next
  <1>7. CASE RunCombinedDeferQ \/ GroupRunDeferQ \/ RunDeferQ
    BY <1>5, <1>6, <1>7, Zenon DEF RunCombinedDeferQ, GroupRunDeferQ, RunDeferQ
  <1>8. CASE OnTaskExitDone
    <2>1. /\ exiting \in Tasks /\ exiting' = NULL /\ ~Running(exiting) /\ state_[exiting] # "WAIT"
          /\ mode # "policy" /\ mode' # "policy" /\ policy_set_' = policy_set_
      BY <1>0, <1>8, Zenon DEF OnTaskExitDone, LockState, LockTypes, Running, policyVars
    <2>2. ExcludedPairs' = ExcludedPairs
      BY <2>1, SamePolicies, Zenon
    <2>3. CASE EnqueueUnLocked(exiting)
      BY <2>1, <2>2, <2>3, EnqueueRefines, Zenon DEF Abstract!Next
    <2>4. CASE state_' = [state_ EXCEPT ![exiting] = "INIT"] /\ waitq_' = waitq_
      <3>1. \A u \in Tasks : Running(u)' <=> Running(u)
        BY <1>0, <2>1, <2>4, Zenon DEF Running, TaskTypes
      <3>2. RunningTasks' = RunningTasks
        BY <3>1, Zenon DEF RunningTasks
      <3> QED BY <2>2, <2>4, <3>2, Stutter, ZenonT(30)
    <2> QED BY <1>8, <2>3, <2>4, Zenon DEF OnTaskExitDone
  <1>9. CASE AddPolicy
    BY <1>9, AddPolicyRefines, Zenon DEF Abstract!Next
  <1>10. CASE UNCHANGED vars
    <2>1. waitq_' = waitq_ /\ state_' = state_ /\ exiting' = exiting
      BY <1>10, Zenon DEF vars, taskVars, lockVars
    <2>2. RunningTasks' = RunningTasks
      BY <2>1, Zenon DEF RunningTasks, Running
    <2>3. policy_set_' = policy_set_ /\ UNCHANGED <<mode, cur, rule>>
      BY <1>10, Zenon DEF vars, policyVars, lockVars
    <2> QED BY <2>1, <2>2, <2>3, SamePolicies, Stutter, Zenon
  <1> QED BY <1>1, <1>2, <1>3, <1>7, <1>8, <1>9, <1>10, SetPolicyRefines, QuietRefines, Zenon
             DEF Next, Locked
=============================================================================
