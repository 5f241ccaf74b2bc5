---------------------------- MODULE ConfigProofs ----------------------------
(***************************************************************************)
(* The configuration client of config-client-mgr, for every set of         *)
(* partitions, of objects and of callers and all bounds: the bulk sync is  *)
(* accounted for in every generation, the cache follows the database, and  *)
(* a reinit destroys clients that are idle.                                *)
(***************************************************************************)
EXTENDS ConfigClient, TLAPS

-----------------------------------------------------------------------------
(* Every lemma but the last ones is proved from the facts about numbers and *)
(* finite sets it needs, given a name here, and LibraryFacts at the end     *)
(* takes them from the libraries.  So the library's theorems are no part of *)
(* the context of the long proofs.                                          *)

NatOrder == \A S \in SUBSET Nat : S # {} => \E m \in S : \A n \in S : m <= n

Counting ==
  /\ IsFiniteSet({})
  /\ \A S : IsFiniteSet(S) =>
        /\ Cardinality(S) \in Nat /\ (Cardinality(S) = 0 <=> S = {})
        /\ \A T \in SUBSET S : IsFiniteSet(T)
        /\ \A x \in S : Cardinality(S \ {x}) = Cardinality(S) - 1
        /\ \A x : x \notin S => Cardinality(S \cup {x}) = Cardinality(S) + 1

Premises == Configured /\ NatOrder /\ Counting

\* The conjuncts of the invariant, which the proofs name one by one.
LEMMA InvParts ==
  ASSUME IInv
  PROVE  /\ TypeOK /\ NoStrandedRequest /\ SyncAccounted /\ RequestTypes /\ GenerationState /\ TaskState
         /\ ClientState /\ EndState /\ ReaderState /\ DeletesFollowed /\ CacheState
  BY Zenon DEF IInv, SyncState

LEMMA InvNext ==
  ASSUME TypeOK', NoStrandedRequest', SyncAccounted', RequestTypes', GenerationState', TaskState',
         ClientState', EndState', ReaderState', DeletesFollowed', CacheState'
  PROVE  IInv'
  BY Zenon DEF IInv, SyncState

LEMMA StutterInv == ASSUME IInv, UNCHANGED vars PROVE IInv'
  <1> /\ TypeOK /\ NoStrandedRequest /\ SyncAccounted /\ RequestTypes /\ GenerationState /\ TaskState
      /\ ClientState /\ EndState /\ ReaderState /\ DeletesFollowed /\ CacheState
    BY InvParts, Zenon
  <1> USE DEF vars, mgrVars, callVars, amqpVars, fqVars, partVars, dbVars
  <1>1. \A p \in Partitions : EndPending(p)' <=> EndPending(p)
    BY Zenon DEF EndPending
  <1>2. {p \in Partitions : EndPending(p)'} = {p \in Partitions : EndPending(p)}
    BY <1>1, Zenon
  <1>3. TypeOK' /\ NoStrandedRequest'
    BY DEF TypeOK, NoStrandedRequest
  <1>4. SyncAccounted'
    BY <1>2, Zenon DEF SyncAccounted
  <1>5. RequestTypes' /\ GenerationState' /\ EndState' /\ ReaderState'
    BY DEF RequestTypes, GenerationState, EndState, EndPending, ReaderState, ReaderRunning
  <1>6. TaskState' /\ ClientState'
    BY Zenon
       DEF TaskState, ClientState, Fresh, AmqpRunning, InitRunning, FQNameReaderRunning,
           ReaderRunning
  <1>7. \A u \in UUIDs : /\ RequestOf(u)' = RequestOf(u) /\ QueueOf(u)' = QueueOf(u)
                         /\ (Queued(u)' <=> Queued(u)) /\ (Announced(u)' <=> Announced(u))
                         /\ (Unscanned(u)' <=> Unscanned(u)) /\ (InStep(u)' <=> InStep(u))
    BY Zenon DEF RequestOf, QueueOf, Queued, Announced, Unscanned, InStep, Unnamed
  <1>8. DeletesFollowed' /\ CacheState'
    BY <1>7 DEF DeletesFollowed, CacheState
  <1> QED BY <1>3, <1>4, <1>5, <1>6, <1>8, InvNext, Zenon

LEMMA DeletesFrame ==
  ASSUME DeletesFollowed, UNCHANGED <<db, messages, publishing, reinit_triggered_>>,
         \A v \in UUIDs : /\ QueueOf(v)' = QueueOf(v) /\ (Queued(v) => Queued(v)') /\ (Announced(v) => Announced(v)')
                         /\ (RequestOf(v)' = "DELETE" => RequestOf(v) = "DELETE")
  PROVE  DeletesFollowed'
  BY DEF DeletesFollowed

LEMMA AppendIs ==
  ASSUME NEW R, NEW q \in Seq(R), NEW r \in R
  PROVE  /\ Append(q, r) \in Seq(R)
         /\ DOMAIN Append(q, r) = 1 .. Len(q) + 1 /\ Append(q, r)[Len(q) + 1] = r
         /\ DOMAIN q = 1 .. Len(q) /\ Len(q) \in Nat
         /\ \A i \in DOMAIN q : i \in DOMAIN Append(q, r) /\ Append(q, r)[i] = q[i] /\ i < Len(q) + 1
         /\ \A i \in DOMAIN Append(q, r) : i \in DOMAIN q \/ i = Len(q) + 1
  OBVIOUS

LEMMA AppendCases ==
  ASSUME NEW R, NEW q \in Seq(R), NEW r \in R
  PROVE  \A i \in DOMAIN Append(q, r) : (i \in DOMAIN q /\ Append(q, r)[i] = q[i]) \/ Append(q, r)[i] = r
  BY AppendIs

LEMMA WiderQueues ==
  ASSUME NEW R, NEW T, R \subseteq T, NEW P, NEW f \in [P -> Seq(R)]
  PROVE  f \in [P -> Seq(T)]
  OBVIOUS

LEMMA NotBothWays == \A n \in Nat : \A i, j \in 1 .. n : ~(j > i /\ j <= i)
  OBVIOUS

Readers == [pc : {"none", "queued", "scan"}, it : Keys \cup {-1}, bunch : SUBSET UUIDs, handled : Nat]

\* What the steps of a partition leave alone.
others == <<reinit_triggered_, generation_number_, init, callVars, bound, messages, fqVars, dbVars>>

LEMMA TypesFrame ==
  ASSUME TypeOK, UNCHANGED <<others, amqp>>,
         bulk_sync_status_' \in 0 .. Cardinality(Partitions), end_of_rib_computed_' \in BOOLEAN,
         fq_name_cache_' \in [UUIDs -> {"none", "present", "deleted"}],
         obj_process_queue_' \in [Partitions -> Seq(Requests)],
         uuid_read_set_' \in [Partitions -> [Keys -> Opers]],
         config_reader_' \in [Partitions -> Readers], object_cache_map_' \in [UUIDs -> Nat]
  PROVE  TypeOK'
  BY DEF TypeOK, Readers, others, callVars, fqVars, dbVars

LEMMA LeastNat ==
  ASSUME Premises, NEW S, S \subseteq Nat, S # {}
  PROVE  \E m \in S : \A n \in S : m <= n
  BY Zenon DEF Premises, NatOrder

LEMMA EmptyCount ==
  ASSUME Premises
  PROVE  Cardinality({}) = 0
  BY Zenon DEF Premises, Counting

LEMMA SubsetFinite ==
  ASSUME Premises, NEW S, IsFiniteSet(S), NEW T, T \subseteq S
  PROVE  IsFiniteSet(T)
  BY Zenon DEF Premises, Counting

LEMMA Count ==
  ASSUME Premises, NEW S, IsFiniteSet(S)
  PROVE  /\ Cardinality(S) \in Nat /\ (Cardinality(S) = 0 <=> S = {})
         /\ \A x \in S : Cardinality(S \ {x}) = Cardinality(S) - 1
         /\ \A x : x \notin S => Cardinality(S \cup {x}) = Cardinality(S) + 1
  BY Zenon DEF Premises, Counting

LEMMA GreatestNat ==
  ASSUME Premises, NEW S, S \subseteq Nat, S # {}, NEW b \in Nat, \A n \in S : n <= b
  PROVE  \E m \in S : \A n \in S : n <= m
  <1> DEFINE D == {b - n : n \in S}
  <1>1. D \subseteq Nat /\ D # {}
    <2>1. \A n \in S : b - n \in Nat
      OBVIOUS
    <2>2. PICK n \in S : TRUE
      BY Zenon
    <2>3. b - n \in D
      BY <2>2, Zenon
    <2> QED BY <2>1, <2>3, Zenon
  <1>2. PICK d \in D : \A e \in D : d <= e
    BY <1>1, LeastNat, Zenon
  <1>3. PICK m \in S : d = b - m
    BY <1>2, Zenon
  <1>4. \A n \in S : b - m <= b - n
    BY <1>2, <1>3, Zenon
  <1> QED BY <1>3, <1>4

-----------------------------------------------------------------------------
(* Keys, the first request of a set, the requests of a batch.              *)

LEMMA KeysNat ==
  ASSUME Premises
  PROVE  /\ UUIDs \subseteq Nat /\ 0 \notin UUIDs /\ Keys \subseteq Nat /\ EndUUID \in Keys
         /\ UUIDs \subseteq Keys /\ EndUUID \notin UUIDs /\ \A k \in Keys : k \in UUIDs \/ k = EndUUID
         /\ EndUUID = 0
  BY DEF Premises, Configured, Keys, EndUUID

LEMMA KeysPositive ==
  ASSUME Premises
  PROVE  \A k \in Keys : ~(k <= -1)
  BY KeysNat

LEMMA EmptyDomain == DOMAIN <<>> = {}
  OBVIOUS

LEMMA ReaderInt ==
  ASSUME Premises
  PROVE  \A x \in Readers : x.it \in Int
  BY KeysNat DEF Readers

LEMMA MinIs ==
  ASSUME Premises, NEW S, S \subseteq Nat, S # {}
  PROVE  /\ Min(S) \in S /\ Min(S) \in Nat
         /\ \A n \in S : Min(S) <= n
  <1>1. \E m \in S : \A n \in S : m <= n
    BY LeastNat, Zenon
  <1> QED BY <1>1, Zenon DEF Min

LEMMA MaxIs ==
  ASSUME Premises, NEW S, S \subseteq Nat, S # {}, NEW b \in Nat, \A n \in S : n <= b
  PROVE  Max(S) \in S /\ \A n \in S : n <= Max(S)
  <1>1. \E m \in S : \A n \in S : n <= m
    BY GreatestNat, Zenon
  <1> QED BY <1>1, Zenon DEF Max

LEMMA FrontIs ==
  ASSUME NEW R, NEW q \in Seq(R), NEW n \in 1 .. Len(q)
  PROVE  DOMAIN SubSeq(q, 1, n) = 1 .. n /\ \A i \in 1 .. n : SubSeq(q, 1, n)[i] = q[i]
  OBVIOUS

\* A WorkQueue task handles some requests from the front of its queue, and the
\* last one for a key stays.
LastStays(q, n, old, new, k) ==
    \/ /\ \A i \in 1 .. n : q[i].uuid # k
       /\ new[k] = old[k]
    \/ \E i \in 1 .. n :
          /\ q[i].uuid = k /\ \A j \in 1 .. n : q[j].uuid = k => j <= i
          /\ new[k] = q[i].oper

LEMMA BatchIs ==
  ASSUME Premises, NEW R, NEW q \in Seq(R), q # <<>>, NEW set, NEW k \in Keys,
         NEW n, n = Min({MaxIterations, Len(q)})
  PROVE  /\ n \in 1 .. Len(q)
         /\ LastStays(q, n, set, AddUUIDToRequestList(set, SubSeq(q, 1, n)), k)
  <1>1. n \in 1 .. Len(q)
    <2>1. {MaxIterations, Len(q)} \subseteq Nat /\ {MaxIterations, Len(q)} # {}
      BY DEF Premises, Configured
    <2>2. n \in {MaxIterations, Len(q)} /\ n <= Len(q)
      BY <2>1, MinIs, Zenon
    <2>3. Len(q) \in Nat \ {0} /\ MaxIterations \in Nat \ {0}
      BY DEF Premises, Configured
    <2> QED BY <2>2, <2>3
  <1> DEFINE b == SubSeq(q, 1, n)
             S == ForKey(b, k)
  <1>2. DOMAIN b = 1 .. n /\ \A i \in 1 .. n : b[i] = q[i]
    BY <1>1, FrontIs, Zenon
  <1>3. S = {i \in 1 .. n : q[i].uuid = k}
    BY <1>2, Zenon DEF ForKey
  <1>4. AddUUIDToRequestList(set, b)[k] = IF S = {} THEN set[k] ELSE b[Max(S)].oper
    BY Zenon DEF AddUUIDToRequestList
  <1>5. CASE S = {}
    BY <1>1, <1>3, <1>4, <1>5, Zenon DEF LastStays
  <1>6. CASE S # {}
    <2> HIDE DEF S, b
    <2>1. S \subseteq Nat /\ n \in Nat /\ \A i \in S : i <= n
      BY <1>1, <1>3
    <2>2. Max(S) \in S /\ \A i \in S : i <= Max(S)
      BY <1>6, <2>1, MaxIs, Zenon
    <2>3. b[Max(S)] = q[Max(S)]
      BY <1>2, <1>3, <2>2, Zenon
    <2>4. AddUUIDToRequestList(set, b)[k] = q[Max(S)].oper
      BY <1>4, <1>6, <2>3, Zenon
    <2>5. Max(S) \in 1 .. n /\ q[Max(S)].uuid = k /\ \A j \in 1 .. n : q[j].uuid = k => j <= Max(S)
      BY <1>3, <2>2, Zenon
    <2> QED BY <1>1, <2>4, <2>5, Zenon DEF b, LastStays
  <1> QED BY <1>5, <1>6, Zenon

\* What is left of the queue.
LEMMA RestIs ==
  ASSUME NEW R, NEW q \in Seq(R), NEW n \in 1 .. Len(q)
  PROVE  /\ SubSeq(q, n + 1, Len(q)) \in Seq(R)
         /\ DOMAIN SubSeq(q, n + 1, Len(q)) = 1 .. Len(q) - n
         /\ \A i \in 1 .. Len(q) - n : SubSeq(q, n + 1, Len(q))[i] = q[i + n]
  OBVIOUS

-----------------------------------------------------------------------------
(* Steps that move tasks along and leave the data alone.                   *)

data == <<messages, publishing, obj_process_queue_, uuid_read_set_, config_reader_,
          object_cache_map_, db, column_name, fq_name_cache_, bulk_sync_status_,
          end_of_rib_computed_>>

\* The bulk sync of a client whose RabbitMQReader runs is under way or has ended.
Ended == ~reinit_triggered_ /\ init = "none" /\ bulk_sync_status_ = 0 => end_of_rib_computed_

LEMMA EndedNext == TypeOK' /\ TaskState' /\ ClientState' => Ended'
  <1>1. TypeOK /\ TaskState /\ ClientState => Ended
    BY Zenon DEF TypeOK, TaskState, ClientState, AmqpRunning, Ended
  <1> QED BY <1>1, PTL

LEMMA ControlStep ==
  ASSUME Premises, IInv, UNCHANGED data,
         reinit_triggered_ => reinit_triggered_',
         ~reinit_triggered_' =>
            /\ fq_name_reader_' # "none" <=> fq_name_reader_ # "none"
            /\ \A u \in UUIDs : Unscanned(u)' <=> Unscanned(u)
            /\ amqp' # "none" => amqp # "none",
         TypeOK', TaskState', ClientState', GenerationState'
  PROVE  IInv'
  <1> /\ NoStrandedRequest /\ SyncAccounted /\ RequestTypes /\ EndState /\ ReaderState
      /\ DeletesFollowed /\ CacheState
    BY InvParts, Zenon
  <1>1. RequestTypes'
    BY Zenon DEF RequestTypes, data
  <1>2. NoStrandedRequest' /\ ReaderState'
    BY Zenon DEF NoStrandedRequest, ReaderState, ReaderRunning, Empty, data
  <1>3. \A p \in Partitions : EndPending(p)' <=> EndPending(p)
    BY Zenon DEF EndPending, data
  <1>4. SyncAccounted'
    <2>1. {p \in Partitions : EndPending(p)'} = {p \in Partitions : EndPending(p)}
      BY <1>3, Zenon
    <2>2. ~reinit_triggered_' =>
             (init' = "none" /\ bulk_sync_status_' = 0 => end_of_rib_computed_')
      BY EndedNext, Zenon DEF Ended
    <2>3. end_of_rib_computed_' => bulk_sync_status_' = 0
      BY Zenon DEF SyncAccounted, data
    <2>4. ~reinit_triggered_' =>
             bulk_sync_status_' = IF fq_name_reader_' # "none" THEN Cardinality(Partitions)
                                  ELSE Cardinality({p \in Partitions : EndPending(p)'})
      BY <2>1, Zenon DEF SyncAccounted, data
    <2> QED BY <2>2, <2>3, <2>4, Zenon DEF SyncAccounted
  <1>5. EndState'
    BY <1>3, Zenon DEF EndState, data
  <1>6. \A u \in UUIDs : /\ Announced(u)' <=> Announced(u)
                         /\ Queued(u)' <=> Queued(u)
                         /\ RequestOf(u)' = RequestOf(u) /\ QueueOf(u)' = QueueOf(u)
                         /\ InStep(u)' <=> InStep(u)
    BY Zenon DEF Announced, Queued, RequestOf, QueueOf, InStep, Unnamed, data
  <1>7. DeletesFollowed'
    BY <1>6 DEF DeletesFollowed, data
  <1>8. CacheState'
    BY <1>6, Zenon DEF CacheState, data
  <1> QED BY <1>1, <1>2, <1>4, <1>5, <1>7, <1>8, InvNext, Zenon

USE DEF mgrVars, callVars, amqpVars, fqVars, partVars, dbVars

LEMMA PartitionsCount ==
  ASSUME Premises
  PROVE  Cardinality(Partitions) \in Nat /\ Cardinality(Partitions) > 0
  <1>1. IsFiniteSet(Partitions) /\ Partitions # {}
    BY Zenon DEF Premises, Configured
  <1> QED BY <1>1, Count

Flagged == {c \in Callers : caller[c] = "flag"}

LEMMA FlaggedFinite ==
  ASSUME Premises
  PROVE  IsFiniteSet(Flagged) /\ Cardinality(Flagged) \in Nat
  <1>1. IsFiniteSet(Callers) /\ Flagged \subseteq Callers
    BY Zenon DEF Premises, Configured, Flagged
  <1>2. IsFiniteSet(Flagged)
    BY <1>1, SubsetFinite, Zenon
  <1> QED BY <1>2, Count, Zenon

LEMMA FreshFrame ==
  ASSUME UNCHANGED data
  PROVE  fq_name_reader_' = fq_name_reader_ => (Fresh' <=> Fresh)
  BY Zenon DEF Fresh, Empty, data

LEMMA InitStartInv ==
  ASSUME Premises, IInv, InitStart
  PROVE  IInv'
  <1> /\ TypeOK /\ SyncAccounted /\ GenerationState /\ TaskState /\ ClientState
    BY InvParts, Zenon
  <1>1. UNCHANGED data /\ (reinit_triggered_ => reinit_triggered_')
    BY Zenon DEF InitStart, InitMayStart, data
  <1>2. TypeOK'
    BY DEF TypeOK, InitStart, InitMayStart
  <1>3. TaskState'
    BY Zenon
       DEF TaskState, TypeOK, AmqpRunning, InitRunning, FQNameReaderRunning, ReaderRunning,
           InitStart, InitMayStart
  <1>4. ClientState'
    <2>1. Fresh' <=> Fresh
      BY <1>1, FreshFrame, Zenon DEF InitStart, InitMayStart
    <2> QED BY <2>1, Zenon
               DEF ClientState, TaskState, SyncAccounted, TypeOK, AmqpRunning, InitRunning,
                   InitStart, InitMayStart
  <1>5. GenerationState'
    BY Zenon DEF GenerationState, InitStart, InitMayStart
  <1>6. ~reinit_triggered_' =>
            /\ fq_name_reader_' # "none" <=> fq_name_reader_ # "none"
            /\ \A u \in UUIDs : Unscanned(u)' <=> Unscanned(u)
            /\ amqp' # "none" => amqp # "none"
    BY Zenon DEF TypeOK, Unscanned, InitStart, InitMayStart
  <1> QED BY <1>1, <1>2, <1>3, <1>4, <1>5, <1>6, ControlStep, Zenon

LEMMA InitReturnsInv ==
  ASSUME Premises, IInv, InitReturns
  PROVE  IInv'
  <1> /\ TypeOK /\ SyncAccounted /\ GenerationState /\ TaskState /\ ClientState
    BY InvParts, Zenon
  <1>1. UNCHANGED data /\ (reinit_triggered_ => reinit_triggered_')
    BY Zenon DEF InitReturns, InitExit, data
  <1>2. TypeOK'
    BY DEF TypeOK, InitReturns, InitExit
  <1>3. TaskState'
    BY Zenon
       DEF TaskState, TypeOK, AmqpRunning, InitRunning, FQNameReaderRunning, ReaderRunning,
           InitReturns, InitExit
  <1>4. ClientState'
    <2>1. Fresh' <=> Fresh
      BY <1>1, FreshFrame, Zenon DEF InitReturns, InitExit
    <2> QED BY <2>1, Zenon
               DEF ClientState, TaskState, SyncAccounted, TypeOK, AmqpRunning, InitRunning,
                   InitReturns, InitExit
  <1>5. GenerationState'
    BY Zenon DEF GenerationState, InitReturns, InitExit
  <1>6. ~reinit_triggered_' =>
            /\ fq_name_reader_' # "none" <=> fq_name_reader_ # "none"
            /\ \A u \in UUIDs : Unscanned(u)' <=> Unscanned(u)
            /\ amqp' # "none" => amqp # "none"
    BY Zenon DEF TypeOK, Unscanned, InitReturns, InitExit
  <1> QED BY <1>1, <1>2, <1>3, <1>4, <1>5, <1>6, ControlStep, Zenon

LEMMA InitResetInv ==
  ASSUME Premises, IInv, InitReset
  PROVE  IInv'
  <1> /\ TypeOK /\ SyncAccounted /\ GenerationState /\ TaskState /\ ClientState
    BY InvParts, Zenon
  <1>1. UNCHANGED data /\ (reinit_triggered_ => reinit_triggered_')
    BY Zenon DEF InitReset, InitExit, data
  <1>2. TypeOK'
    BY Zenon DEF TypeOK, InitReset, InitExit
  <1>3. TaskState'
    BY Zenon
       DEF TaskState, TypeOK, AmqpRunning, InitRunning, FQNameReaderRunning, ReaderRunning,
           InitReset, InitExit
  <1>4. ClientState'
    <2>1. Fresh' <=> Fresh
      BY <1>1, FreshFrame, Zenon DEF InitReset, InitExit
    <2>2. ~reinit_triggered_ => bulk_sync_status_ # 0
      BY PartitionsCount DEF ClientState, SyncAccounted, InitReset
    <2> QED BY <2>1, <2>2, Zenon
               DEF ClientState, TaskState, SyncAccounted, TypeOK, AmqpRunning, InitRunning,
                   InitReset, InitExit
  <1>5. GenerationState'
    BY Zenon DEF GenerationState, InitReset, InitExit
  <1>6. ~reinit_triggered_' =>
            /\ fq_name_reader_' # "none" <=> fq_name_reader_ # "none"
            /\ \A u \in UUIDs : Unscanned(u)' <=> Unscanned(u)
            /\ amqp' # "none" => amqp # "none"
    BY Zenon DEF TypeOK, Unscanned, InitReset, InitExit
  <1> QED BY <1>1, <1>2, <1>3, <1>4, <1>5, <1>6, ControlStep, Zenon

LEMMA AmqpRunInv ==
  ASSUME Premises, IInv, AmqpRun
  PROVE  IInv'
  <1> /\ TypeOK /\ SyncAccounted /\ GenerationState /\ TaskState /\ ClientState
    BY InvParts, Zenon
  <1>1. UNCHANGED data /\ (reinit_triggered_ => reinit_triggered_')
    BY Zenon DEF AmqpRun, data
  <1>2. TypeOK'
    BY DEF TypeOK, AmqpRun
  <1>3. TaskState'
    BY Zenon
       DEF TaskState, TypeOK, AmqpRunning, InitRunning, FQNameReaderRunning, ReaderRunning,
           AmqpRun
  <1>4. ClientState'
    <2>1. Fresh' <=> Fresh
      BY <1>1, FreshFrame, Zenon DEF AmqpRun
    <2> QED BY <2>1, Zenon
               DEF ClientState, TaskState, SyncAccounted, TypeOK, AmqpRunning, InitRunning,
                   AmqpRun
  <1>5. GenerationState'
    BY Zenon DEF GenerationState, AmqpRun
  <1>6. ~reinit_triggered_' =>
            /\ fq_name_reader_' # "none" <=> fq_name_reader_ # "none"
            /\ \A u \in UUIDs : Unscanned(u)' <=> Unscanned(u)
            /\ amqp' # "none" => amqp # "none"
    BY Zenon DEF TypeOK, Unscanned, AmqpRun
  <1> QED BY <1>1, <1>2, <1>3, <1>4, <1>5, <1>6, ControlStep, Zenon

LEMMA WaitForEndOfConfigInv ==
  ASSUME Premises, IInv, WaitForEndOfConfig
  PROVE  IInv'
  <1> /\ TypeOK /\ SyncAccounted /\ GenerationState /\ TaskState /\ ClientState
    BY InvParts, Zenon
  <1>1. UNCHANGED data /\ (reinit_triggered_ => reinit_triggered_')
    BY Zenon DEF WaitForEndOfConfig, data
  <1>2. TypeOK'
    BY DEF TypeOK, WaitForEndOfConfig
  <1>3. TaskState'
    BY Zenon
       DEF TaskState, TypeOK, AmqpRunning, InitRunning, FQNameReaderRunning, ReaderRunning,
           WaitForEndOfConfig
  <1>4. ClientState'
    <2>1. Fresh' <=> Fresh
      BY <1>1, FreshFrame, Zenon DEF WaitForEndOfConfig
    <2> QED BY <2>1, Zenon
               DEF ClientState, TaskState, SyncAccounted, TypeOK, AmqpRunning, InitRunning,
                   WaitForEndOfConfig
  <1>5. GenerationState'
    BY Zenon DEF GenerationState, WaitForEndOfConfig
  <1>6. ~reinit_triggered_' =>
            /\ fq_name_reader_' # "none" <=> fq_name_reader_ # "none"
            /\ \A u \in UUIDs : Unscanned(u)' <=> Unscanned(u)
            /\ amqp' # "none" => amqp # "none"
    BY Zenon DEF TypeOK, Unscanned, WaitForEndOfConfig
  <1> QED BY <1>1, <1>2, <1>3, <1>4, <1>5, <1>6, ControlStep, Zenon

LEMMA AmqpStopsInv ==
  ASSUME Premises, IInv, AmqpStops
  PROVE  IInv'
  <1> /\ TypeOK /\ SyncAccounted /\ GenerationState /\ TaskState /\ ClientState
    BY InvParts, Zenon
  <1>1. UNCHANGED data /\ (reinit_triggered_ => reinit_triggered_')
    BY Zenon DEF AmqpStops, data
  <1>2. TypeOK'
    BY Zenon DEF TypeOK, AmqpStops
  <1>3. TaskState'
    BY Zenon
       DEF TaskState, TypeOK, AmqpRunning, InitRunning, FQNameReaderRunning, ReaderRunning,
           AmqpStops
  <1>4. ClientState'
    <2>1. Fresh' <=> Fresh
      BY <1>1, FreshFrame, Zenon DEF AmqpStops
    <2> QED BY <2>1, Zenon
               DEF ClientState, TaskState, SyncAccounted, TypeOK, AmqpRunning, InitRunning,
                   AmqpStops
  <1>5. GenerationState'
    BY Zenon DEF GenerationState, AmqpStops
  <1>6. ~reinit_triggered_' =>
            /\ fq_name_reader_' # "none" <=> fq_name_reader_ # "none"
            /\ \A u \in UUIDs : Unscanned(u)' <=> Unscanned(u)
            /\ amqp' # "none" => amqp # "none"
    BY Zenon DEF TypeOK, Unscanned, AmqpStops
  <1> QED BY <1>1, <1>2, <1>3, <1>4, <1>5, <1>6, ControlStep, Zenon

LEMMA FQNameReaderStartInv ==
  ASSUME Premises, IInv, FQNameReaderStart
  PROVE  IInv'
  <1> /\ TypeOK /\ GenerationState /\ TaskState /\ ClientState
    BY InvParts, Zenon
  <1>1. UNCHANGED data /\ (reinit_triggered_ => reinit_triggered_')
    BY Zenon DEF FQNameReaderStart, FQNameReaderMayStart, data
  <1>2. TypeOK'
    BY DEF TypeOK, FQNameReaderStart, FQNameReaderMayStart
  <1>3. TaskState'
    BY Zenon
       DEF TaskState, TypeOK, AmqpRunning, InitRunning, FQNameReaderRunning, ReaderRunning,
           FQNameReaderStart, FQNameReaderMayStart
  <1>4. ClientState'
    BY Zenon
       DEF ClientState, TaskState, TypeOK, AmqpRunning, InitRunning, FQNameReaderRunning,
           Fresh, Empty, FQNameReaderStart, FQNameReaderMayStart
  <1>5. GenerationState'
    BY Zenon DEF GenerationState, FQNameReaderStart, FQNameReaderMayStart
  <1>6. ~reinit_triggered_' =>
            /\ fq_name_reader_' # "none" <=> fq_name_reader_ # "none"
            /\ \A u \in UUIDs : Unscanned(u)' <=> Unscanned(u)
            /\ amqp' # "none" => amqp # "none"
    BY Zenon DEF TypeOK, Unscanned, FQNameReaderStart, FQNameReaderMayStart
  <1> QED BY <1>1, <1>2, <1>3, <1>4, <1>5, <1>6, ControlStep, Zenon

LEMMA FQNameReaderAbortsInv ==
  ASSUME Premises, IInv, FQNameReaderAborts
  PROVE  IInv'
  <1> /\ TypeOK /\ GenerationState /\ TaskState /\ ClientState
    BY InvParts, Zenon
  <1>1. UNCHANGED data /\ (reinit_triggered_ => reinit_triggered_')
    BY Zenon DEF FQNameReaderAborts, data
  <1>2. TypeOK'
    BY DEF TypeOK, FQNameReaderAborts
  <1>3. TaskState'
    BY Zenon
       DEF TaskState, TypeOK, AmqpRunning, InitRunning, FQNameReaderRunning, ReaderRunning,
           FQNameReaderAborts
  <1>4. ClientState'
    BY Zenon
       DEF ClientState, TaskState, TypeOK, AmqpRunning, InitRunning, FQNameReaderRunning,
           Fresh, Empty, FQNameReaderAborts
  <1>5. GenerationState'
    BY Zenon DEF GenerationState, FQNameReaderAborts
  <1>6. ~reinit_triggered_' =>
            /\ fq_name_reader_' # "none" <=> fq_name_reader_ # "none"
            /\ \A u \in UUIDs : Unscanned(u)' <=> Unscanned(u)
            /\ amqp' # "none" => amqp # "none"
    BY Zenon DEF TypeOK, Unscanned, FQNameReaderAborts
  <1> QED BY <1>1, <1>2, <1>3, <1>4, <1>5, <1>6, ControlStep, Zenon

LEMMA ReinitNotifyInv ==
  ASSUME Premises, IInv, NEW c \in Callers, ReinitNotify(c)
  PROVE  IInv'
  <1> /\ TypeOK /\ SyncAccounted /\ GenerationState /\ TaskState /\ ClientState
    BY InvParts, Zenon
  <1>1. UNCHANGED data /\ (reinit_triggered_ => reinit_triggered_')
    BY Zenon DEF ReinitNotify, CallStep, Notified, data
  <1>2. TypeOK'
    <2>1. reinits' \in 0 .. MaxReinits
      BY DEF TypeOK, ReinitNotify, Premises, Configured
    <2>2. caller' \in [Callers -> {"idle", "flag", "set"}]
      BY Zenon DEF TypeOK, ReinitNotify, CallStep
    <2>3. amqp' \in {"none", "queued", "run", "enter", "waiting", "woken", "loop"}
      BY Zenon DEF TypeOK, ReinitNotify, Notified
    <2> QED BY <2>1, <2>2, <2>3 DEF TypeOK, ReinitNotify
  <1>3. TaskState'
    BY Zenon
       DEF TaskState, TypeOK, AmqpRunning, InitRunning, FQNameReaderRunning, ReaderRunning,
           ReinitNotify, CallStep, Notified
  <1>4. ClientState'
    <2>1. Fresh' <=> Fresh
      BY <1>1, FreshFrame, Zenon DEF ReinitNotify, CallStep, Notified
    <2> QED BY <2>1, Zenon
               DEF ClientState, TaskState, SyncAccounted, TypeOK, AmqpRunning, InitRunning,
                   ReinitNotify, CallStep, Notified
  <1>5. GenerationState'
    <2>1. Flagged' = Flagged \cup {c} /\ c \notin Flagged
      BY Zenon DEF Flagged, ReinitNotify, CallStep, TypeOK
    <2>2. Cardinality(Flagged') = Cardinality(Flagged) + 1
      BY <2>1, FlaggedFinite, Count, Zenon
    <2>3. reinits \in Nat /\ generation_number_ \in Nat
      BY DEF TypeOK
    <2> QED BY <2>2, <2>3, FlaggedFinite DEF GenerationState, ReinitNotify, Flagged
  <1>6. ~reinit_triggered_' =>
            /\ fq_name_reader_' # "none" <=> fq_name_reader_ # "none"
            /\ \A u \in UUIDs : Unscanned(u)' <=> Unscanned(u)
            /\ amqp' # "none" => amqp # "none"
    BY Zenon DEF TypeOK, Unscanned, ReinitNotify, CallStep, Notified
  <1> QED BY <1>1, <1>2, <1>3, <1>4, <1>5, <1>6, ControlStep, Zenon

LEMMA ReinitFlagInv ==
  ASSUME Premises, IInv, NEW c \in Callers, ReinitFlag(c)
  PROVE  IInv'
  <1> /\ TypeOK /\ SyncAccounted /\ GenerationState /\ TaskState /\ ClientState
    BY InvParts, Zenon
  <1>1. UNCHANGED data /\ (reinit_triggered_ => reinit_triggered_')
    BY Zenon DEF ReinitFlag, CallStep, data
  <1>2. TypeOK'
    BY DEF TypeOK, ReinitFlag, CallStep
  <1>3. TaskState'
    BY Zenon
       DEF TaskState, TypeOK, AmqpRunning, InitRunning, FQNameReaderRunning, ReaderRunning,
           ReinitFlag, CallStep
  <1>4. ClientState'
    <2>1. Fresh' <=> Fresh
      BY <1>1, FreshFrame, Zenon DEF ReinitFlag, CallStep
    <2> QED BY <2>1, Zenon
               DEF ClientState, TaskState, SyncAccounted, TypeOK, AmqpRunning, InitRunning,
                   ReinitFlag, CallStep
  <1>5. GenerationState'
    <2>1. Flagged' = Flagged \ {c} /\ c \in Flagged
      BY Zenon DEF Flagged, ReinitFlag, CallStep, TypeOK
    <2>2. Cardinality(Flagged') = Cardinality(Flagged) - 1
      BY <2>1, FlaggedFinite, Count, Zenon
    <2>3. reinits \in Nat /\ generation_number_ \in Nat
      BY DEF TypeOK
    <2> QED BY <2>2, <2>3, FlaggedFinite DEF GenerationState, ReinitFlag, Flagged
  <1>6. ~reinit_triggered_' =>
            /\ fq_name_reader_' # "none" <=> fq_name_reader_ # "none"
            /\ \A u \in UUIDs : Unscanned(u)' <=> Unscanned(u)
            /\ amqp' # "none" => amqp # "none"
    BY Zenon DEF TypeOK, Unscanned, ReinitFlag, CallStep
  <1> QED BY <1>1, <1>2, <1>3, <1>4, <1>5, <1>6, ControlStep, Zenon

LEMMA ReinitSetInv ==
  ASSUME Premises, IInv, NEW c \in Callers, ReinitSet(c)
  PROVE  IInv'
  <1> /\ TypeOK /\ SyncAccounted /\ GenerationState /\ TaskState /\ ClientState
    BY InvParts, Zenon
  <1>1. UNCHANGED data /\ (reinit_triggered_ => reinit_triggered_')
    BY Zenon DEF ReinitSet, CallStep, SetInitTrigger, data
  <1>2. TypeOK'
    BY DEF TypeOK, ReinitSet, CallStep, SetInitTrigger
  <1>3. TaskState'
    BY Zenon
       DEF TaskState, TypeOK, AmqpRunning, InitRunning, FQNameReaderRunning, ReaderRunning,
           ReinitSet, CallStep, SetInitTrigger
  <1>4. ClientState'
    <2>1. Fresh' <=> Fresh
      BY <1>1, FreshFrame, Zenon DEF ReinitSet, CallStep, SetInitTrigger
    <2> QED BY <2>1, Zenon
               DEF ClientState, TaskState, SyncAccounted, TypeOK, AmqpRunning, InitRunning,
                   ReinitSet, CallStep, SetInitTrigger
  <1>5. GenerationState'
    BY DEF GenerationState, ReinitSet, CallStep, SetInitTrigger
  <1>6. ~reinit_triggered_' =>
            /\ fq_name_reader_' # "none" <=> fq_name_reader_ # "none"
            /\ \A u \in UUIDs : Unscanned(u)' <=> Unscanned(u)
            /\ amqp' # "none" => amqp # "none"
    BY Zenon DEF TypeOK, Unscanned, ReinitSet, CallStep, SetInitTrigger
  <1> QED BY <1>1, <1>2, <1>3, <1>4, <1>5, <1>6, ControlStep, Zenon

-----------------------------------------------------------------------------
(* The Init task.                                                          *)

\* No RabbitMQReader is left when the Init task runs.
LEMMA NoAmqpIs ==
  ASSUME IInv, init \in {"check", "start", "connect"}
  PROVE  amqp = "none"
  <1> /\ TypeOK /\ TaskState
    BY InvParts, Zenon
  <1> QED BY Zenon DEF TaskState, TypeOK, AmqpRunning

LEMMA PostShutdownInv ==
  ASSUME Premises, IInv, InitConfigClient, PostShutdown, reinit_triggered_, init' = "start", amqp' = amqp
  PROVE  IInv'
  <1> /\ TypeOK /\ NoStrandedRequest /\ SyncAccounted /\ RequestTypes /\ GenerationState
      /\ TaskState /\ ClientState /\ EndState /\ ReaderState /\ DeletesFollowed /\ CacheState
    BY InvParts, Zenon
  <1>0. amqp = "none" /\ amqp' = "none"
    BY NoAmqpIs, Zenon DEF InitConfigClient
  <1>1. UNCHANGED <<messages, publishing, db, writes, caller, reinits, bound>>
    BY Zenon DEF InitConfigClient
  <1>2. TypeOK'
    <2>1. generation_number_' \in 0 .. MaxReinits
      <3>1. generation_number_ \in Nat /\ reinits \in 0 .. MaxReinits /\ MaxReinits \in Nat
        BY DEF TypeOK, Premises, Configured
      <3> QED BY <3>1, FlaggedFinite DEF GenerationState, PostShutdown, Flagged
    <2>2. bulk_sync_status_' \in 0 .. Cardinality(Partitions)
      BY PartitionsCount DEF PostShutdown, FreshClient
    <2>3. obj_process_queue_' \in [Partitions -> Seq(Requests)]
      BY DEF PostShutdown, FreshClient
    <2>4. uuid_read_set_' \in [Partitions -> [Keys -> Opers]]
      BY Zenon DEF PostShutdown, FreshClient, Opers
    <2>5. config_reader_' \in [Partitions -> [pc : {"none", "queued", "scan"}, it : Keys \cup {-1},
                                              bunch : SUBSET UUIDs, handled : Nat]]
      BY Zenon DEF PostShutdown, FreshClient, NotRunning
    <2>6. object_cache_map_' \in [UUIDs -> Nat] /\ fq_name_cache_' \in [UUIDs -> {"none", "present", "deleted"}]
      BY Zenon DEF PostShutdown, FreshClient
    <2> QED BY <1>0, <1>1, <2>1, <2>2, <2>3, <2>4, <2>5, <2>6, Zenon
               DEF TypeOK, PostShutdown, FreshClient
  <1>3. /\ ~reinit_triggered_' /\ ~end_of_rib_computed_' /\ bulk_sync_status_' = 0
        /\ fq_name_reader_' = "none"
        /\ \A p \in Partitions :
              /\ obj_process_queue_'[p] = <<>> /\ config_reader_'[p] = NotRunning
              /\ \A k \in Keys : uuid_read_set_'[p][k] = "none"
        /\ \A u \in UUIDs : object_cache_map_'[u] = 0
    BY Zenon DEF PostShutdown, FreshClient
  <1>4. obj_process_queue_' \in [Partitions -> Seq(ObjectRequests \cup {EndRequest})]
    BY DEF PostShutdown, FreshClient
  <1>5. RequestTypes'
    BY <1>1, <1>3, <1>4, KeysNat DEF RequestTypes
  <1>6. NoStrandedRequest' /\ ReaderState'
    <2>1. NotRunning.pc = "none" /\ NotRunning.it = -1 /\ NotRunning.bunch = {}
      BY Zenon DEF NotRunning
    <2> QED BY <1>3, <2>1, Zenon DEF NoStrandedRequest, ReaderState, ReaderRunning, Empty
  <1>7. \A p \in Partitions : ~EndPending(p)'
    BY <1>3, KeysNat DEF EndPending
  <1>8. SyncAccounted'
    <2>1. {p \in Partitions : EndPending(p)'} = {}
      BY <1>7, Zenon
    <2>2. Cardinality({p \in Partitions : EndPending(p)'}) = 0
      BY <2>1, EmptyCount, Zenon
    <2> QED BY <1>3, <2>2, Zenon DEF SyncAccounted
  <1>9. GenerationState'
    <2>1. reinits \in Nat /\ generation_number_ \in Nat
      BY DEF TypeOK
    <2> QED BY <1>1, <2>1, FlaggedFinite DEF GenerationState, PostShutdown, Flagged
  <1>10. TaskState'
    BY <1>0, <1>3
       DEF TaskState, AmqpRunning, InitRunning, FQNameReaderRunning, ReaderRunning, NotRunning
  <1>11. ClientState'
    BY <1>0, <1>1, <1>3 DEF ClientState, Fresh, Empty, AmqpRunning, NotRunning
  <1>12. EndState'
    BY <1>3, <1>7 DEF EndState
  <1>13. \A u \in UUIDs : RequestOf(u)' = "none" /\ QueueOf(u)' = <<>>
    BY <1>3, KeysNat, Zenon DEF RequestOf, QueueOf, Premises, Configured
  <1>14. DeletesFollowed'
    BY <1>1, <1>13 DEF DeletesFollowed
  <1>15. CacheState'
    BY <1>0, <1>3, Zenon DEF CacheState, Unscanned
  <1> QED BY <1>2, <1>5, <1>6, <1>8, <1>9, <1>10, <1>11, <1>12, <1>14, <1>15, InvNext, Zenon

LEMMA InitConfigClientInv ==
  ASSUME Premises, IInv, InitConfigClient
  PROVE  IInv'
  <1> /\ TypeOK /\ GenerationState /\ TaskState /\ ClientState
    BY InvParts, Zenon
  <1>0. amqp = "none" /\ init = "check"
    BY NoAmqpIs, Zenon DEF InitConfigClient
  <1>1. CASE reinit_triggered_ /\ ~IsTaskTriggered /\ PostShutdown /\ init' = "start" /\ UNCHANGED amqp
    BY <1>1, PostShutdownInv, Zenon
  <1>2. CASE /\ UNCHANGED data /\ amqp' = "none" /\ UNCHANGED <<mgrVars, callVars, bound, writes, fqVars>>
             /\ \/ ~reinit_triggered_ /\ init' = "start"
                \/ reinit_triggered_ /\ init' = "queued"
    <2>1. TypeOK'
      BY <1>2, Zenon DEF TypeOK, data
    <2>2. TaskState'
      BY <1>0, <1>2, Zenon
         DEF TaskState, AmqpRunning, InitRunning, FQNameReaderRunning, ReaderRunning, data
    <2>3. ClientState'
      <3>1. Fresh' <=> Fresh
        BY <1>2, FreshFrame, Zenon
      <3> QED BY <1>0, <1>2, <3>1, Zenon DEF ClientState, AmqpRunning, data
    <2>4. GenerationState'
      BY <1>2, Zenon DEF GenerationState
    <2>5. ~reinit_triggered_' =>
            /\ fq_name_reader_' # "none" <=> fq_name_reader_ # "none"
            /\ \A u \in UUIDs : Unscanned(u)' <=> Unscanned(u)
            /\ amqp' # "none" => amqp # "none"
      BY <1>0, <1>2, Zenon DEF Unscanned, data
    <2> QED BY <1>2, <2>1, <2>2, <2>3, <2>4, <2>5, ControlStep, Zenon
  <1> QED BY <1>0, <1>1, <1>2, Zenon DEF InitConfigClient, InitExit, data

LEMMA ConnectInv ==
  ASSUME Premises, IInv, StartRabbitMQReader, ~reinit_triggered_, init = "connect"
  PROVE  IInv'
  <1> /\ TypeOK /\ NoStrandedRequest /\ SyncAccounted /\ RequestTypes /\ GenerationState
      /\ TaskState /\ ClientState /\ EndState /\ ReaderState /\ DeletesFollowed /\ CacheState
    BY InvParts, Zenon
  <1>1. /\ UNCHANGED <<mgrVars, callVars, bulk_sync_status_, fqVars, fq_name_cache_, partVars, dbVars>>
        /\ init' = "db" /\ amqp' = "queued" /\ bound' = TRUE /\ messages' = <<>>
    BY Zenon DEF StartRabbitMQReader
  <1>2. Fresh /\ Fresh'
    BY <1>1, Zenon DEF ClientState, Fresh, Empty
  <1>3. TypeOK'
    BY <1>1 DEF TypeOK
  <1>4. RequestTypes'
    BY <1>1 DEF RequestTypes
  <1>5. NoStrandedRequest' /\ ReaderState'
    BY <1>1, Zenon DEF NoStrandedRequest, ReaderState, ReaderRunning, Empty
  <1>6. SyncAccounted'
    <2>1. {p \in Partitions : EndPending(p)'} = {p \in Partitions : EndPending(p)}
      BY <1>1, Zenon DEF EndPending
    <2>2. init' # "none"
      BY <1>1, Zenon
    <2> QED BY <1>1, <2>1, <2>2, Zenon DEF SyncAccounted
  <1>7. GenerationState'
    BY <1>1, Zenon DEF GenerationState
  <1>8. TaskState'
    BY <1>1, Zenon DEF TaskState, AmqpRunning, InitRunning, FQNameReaderRunning, ReaderRunning
  <1>9. ClientState'
    BY <1>1, <1>2, Zenon DEF ClientState, AmqpRunning
  <1>10. EndState'
    BY <1>1, <1>2 DEF EndState, Fresh
  <1>11. \A u \in UUIDs : RequestOf(u)' = "none" /\ QueueOf(u)' = <<>> /\ object_cache_map_'[u] = 0
    BY <1>2, KeysNat, Zenon DEF RequestOf, QueueOf, Premises, Configured, Fresh, Empty
  <1>12. DeletesFollowed'
    BY <1>1, <1>11 DEF DeletesFollowed
  <1>13. CacheState'
    BY <1>1, <1>11 DEF CacheState, Unscanned, Queued
  <1> QED BY <1>3, <1>4, <1>5, <1>6, <1>7, <1>8, <1>9, <1>10, <1>12, <1>13, InvNext, Zenon

LEMMA StartRabbitMQReaderInv ==
  ASSUME Premises, IInv, StartRabbitMQReader
  PROVE  IInv'
  <1> /\ TypeOK /\ GenerationState /\ TaskState /\ ClientState
    BY InvParts, Zenon
  <1>0. amqp = "none"
    BY NoAmqpIs, Zenon DEF StartRabbitMQReader
  <1>1. CASE ~reinit_triggered_ /\ init = "connect"
    BY <1>1, ConnectInv, Zenon
  <1>2. CASE /\ UNCHANGED data /\ UNCHANGED <<mgrVars, callVars, bound, writes, fqVars>>
             /\ \/ reinit_triggered_ /\ init \in {"start", "connect"} /\ init' = "db" /\ amqp' \in {"none", "queued"}
                \/ ~reinit_triggered_ /\ init = "start" /\ init' = "connect" /\ amqp' = "none"
    <2>1. TypeOK'
      BY <1>2, Zenon DEF TypeOK, data
    <2>2. TaskState'
      BY <1>0, <1>2, Zenon
         DEF TaskState, AmqpRunning, InitRunning, FQNameReaderRunning, ReaderRunning, data
    <2>3. ClientState'
      <3>1. Fresh' <=> Fresh
        BY <1>2, FreshFrame, Zenon
      <3> QED BY <1>0, <1>2, <3>1, Zenon DEF ClientState, AmqpRunning, data
    <2>4. GenerationState'
      BY <1>2, Zenon DEF GenerationState
    <2>5. ~reinit_triggered_' =>
            /\ fq_name_reader_' # "none" <=> fq_name_reader_ # "none"
            /\ \A u \in UUIDs : Unscanned(u)' <=> Unscanned(u)
            /\ amqp' # "none" => amqp # "none"
      BY <1>0, <1>2, Zenon DEF Unscanned, data
    <2> QED BY <1>2, <2>1, <2>2, <2>3, <2>4, <2>5, ControlStep, Zenon
  <1> QED BY <1>0, <1>1, <1>2, Zenon DEF StartRabbitMQReader, data

LEMMA BulkDataSyncInv ==
  ASSUME Premises, IInv, InitDatabase, bulk_sync_status_' = Cardinality(Partitions),
         fq_name_reader_' = "queued", column_name' = 0
  PROVE  IInv'
  <1> /\ TypeOK /\ NoStrandedRequest /\ SyncAccounted /\ RequestTypes /\ GenerationState
      /\ TaskState /\ ClientState /\ EndState /\ ReaderState /\ DeletesFollowed /\ CacheState
    BY InvParts, Zenon
  <1>0. Fresh /\ init = "db" /\ init' = "final" /\ UNCHANGED <<mgrVars, callVars, amqpVars, fq_name_cache_, partVars, dbVars>>
    BY Zenon DEF ClientState, InitDatabase
  <1>1. ~AmqpRunning
    BY <1>0, Zenon DEF TaskState
  <1>2. TypeOK'
    <2>1. bulk_sync_status_' \in 0 .. Cardinality(Partitions)
      BY PartitionsCount
    <2> QED BY <1>0, <2>1, Zenon DEF TypeOK
  <1>3. RequestTypes'
    BY <1>0, Zenon DEF RequestTypes
  <1>4. NoStrandedRequest' /\ ReaderState'
    BY <1>0, Zenon DEF NoStrandedRequest, ReaderState, ReaderRunning, Empty
  <1>5. \A p \in Partitions : ~EndPending(p)'
    BY <1>0, KeysNat DEF EndPending, Fresh, Empty
  <1>6. SyncAccounted'
    BY <1>0, Zenon DEF SyncAccounted, Fresh
  <1>7. GenerationState'
    BY <1>0, Zenon DEF GenerationState
  <1>8. TaskState'
    BY <1>0, <1>1, Zenon
       DEF TaskState, AmqpRunning, InitRunning, FQNameReaderRunning, ReaderRunning
  <1>9. ClientState'
    BY <1>0, <1>1, Zenon DEF ClientState, AmqpRunning
  <1>10. EndState'
    BY <1>0, <1>5, Zenon DEF EndState, Fresh
  <1>11. \A u \in UUIDs : RequestOf(u)' = "none" /\ QueueOf(u)' = <<>> /\ object_cache_map_'[u] = 0
    BY <1>0, KeysNat, Zenon DEF RequestOf, QueueOf, Premises, Configured, Fresh, Empty
  <1>12. DeletesFollowed'
    BY <1>0, <1>11 DEF DeletesFollowed
  <1>13. CacheState'
    <2>1. \A u \in UUIDs : u > 0
      BY KeysNat
    <2> QED BY <1>0, <1>11, <2>1 DEF CacheState, Unscanned, Queued
  <1> QED BY <1>2, <1>3, <1>4, <1>6, <1>7, <1>8, <1>9, <1>10, <1>12, <1>13, InvNext, Zenon

LEMMA InitDatabaseInv ==
  ASSUME Premises, IInv, InitDatabase
  PROVE  IInv'
  <1> /\ TypeOK /\ GenerationState /\ TaskState /\ ClientState
    BY InvParts, Zenon
  <1>0. fq_name_reader_ = "none" /\ init = "db"
    BY Zenon DEF ClientState, Fresh, InitDatabase
  <1>1. CASE bulk_sync_status_' = Cardinality(Partitions) /\ column_name' = 0 /\ fq_name_reader_' = "queued"
    BY <1>1, BulkDataSyncInv, Zenon
  <1>2. CASE reinit_triggered_ /\ UNCHANGED <<bulk_sync_status_, fqVars>>
    <2>0. UNCHANGED data /\ UNCHANGED <<mgrVars, callVars, amqpVars, writes, fqVars>> /\ init' = "final"
      BY <1>2, Zenon DEF InitDatabase, data
    <2>1. TypeOK'
      BY <2>0 DEF TypeOK, data
    <2>2. TaskState'
      BY <1>0, <2>0, Zenon
         DEF TaskState, AmqpRunning, InitRunning, FQNameReaderRunning, ReaderRunning, data
    <2>3. ClientState'
      <3>1. Fresh' <=> Fresh
        BY <2>0, FreshFrame, Zenon
      <3> QED BY <1>0, <1>2, <2>0, <3>1, Zenon DEF ClientState, AmqpRunning, data
    <2>4. GenerationState'
      BY <2>0, Zenon DEF GenerationState
    <2> QED BY <1>2, <2>0, <2>1, <2>2, <2>3, <2>4, ControlStep, Zenon
  <1> QED BY <1>0, <1>1, <1>2, Zenon DEF InitDatabase

LEMMA InitTaskInv ==
  ASSUME Premises, IInv, InitTask
  PROVE  IInv'
  BY InitStartInv, InitConfigClientInv, StartRabbitMQReaderInv, InitDatabaseInv,
     InitReturnsInv, InitResetInv, Zenon DEF InitTask

LEMMA ReinitInv ==
  ASSUME Premises, IInv, NEW c \in Callers, Reinit(c)
  PROVE  IInv'
  BY ReinitNotifyInv, ReinitFlagInv, ReinitSetInv, Zenon DEF Reinit

-----------------------------------------------------------------------------
(* The writer of the database.                                             *)

\* The manager, the tasks and the partitions.
rest == <<mgrVars, init, callVars, amqp, bound, bulk_sync_status_, fqVars, fq_name_cache_, partVars>>

\* A step of the writer leaves all of the client alone.
LEMMA WriterStep ==
  ASSUME Premises, IInv, UNCHANGED rest, messages' # <<>> => bound,
         TypeOK', RequestTypes', DeletesFollowed', CacheState'
  PROVE  IInv'
  <1> /\ NoStrandedRequest /\ SyncAccounted /\ GenerationState /\ TaskState /\ ClientState
      /\ EndState /\ ReaderState
    BY InvParts, Zenon
  <1>1. NoStrandedRequest' /\ ReaderState'
    BY Zenon DEF NoStrandedRequest, ReaderState, ReaderRunning, Empty, rest
  <1>2. \A p \in Partitions : EndPending(p)' <=> EndPending(p)
    BY Zenon DEF EndPending, rest
  <1>3. SyncAccounted'
    <2>1. {p \in Partitions : EndPending(p)'} = {p \in Partitions : EndPending(p)}
      BY <1>2, Zenon
    <2> QED BY <2>1, Zenon DEF SyncAccounted, rest
  <1>4. GenerationState'
    BY Zenon DEF GenerationState, rest
  <1>5. TaskState'
    BY Zenon DEF TaskState, AmqpRunning, InitRunning, FQNameReaderRunning, ReaderRunning, rest
  <1>6. ClientState'
    BY Zenon DEF ClientState, Fresh, Empty, AmqpRunning, rest
  <1>7. EndState'
    BY <1>2, Zenon DEF EndState, rest
  <1> QED BY <1>1, <1>3, <1>4, <1>5, <1>6, <1>7, InvNext, Zenon

LEMMA WriteObjectInv ==
  ASSUME Premises, IInv, NEW u \in UUIDs, WriteObject(u)
  PROVE  IInv'
  <1> /\ TypeOK /\ RequestTypes /\ ClientState /\ DeletesFollowed /\ CacheState
    BY InvParts, Zenon
  <1>1. /\ UNCHANGED rest /\ messages' = messages /\ publishing = NoRequest
        /\ writes' \in 0 .. MaxWrites /\ writes' = writes + 1
        /\ \A v \in UUIDs : v # u => db'[v] = db[v]
        /\ publishing' \in Changes /\ publishing'.uuid = u
        /\ publishing'.oper = "DELETE" => db'[u] = 0
        /\ db' \in [UUIDs -> Nat]
    <2>1. writes \in 0 .. MaxWrites /\ MaxWrites \in Nat /\ db \in [UUIDs -> Nat]
      BY Zenon DEF TypeOK, Premises, Configured
    <2>2. writes' \in 0 .. MaxWrites /\ writes' = writes + 1
      BY <2>1 DEF WriteObject
    <2>3. writes + 2 \in Nat
      BY <2>1
    <2>4. CASE db' = [db EXCEPT ![u] = writes + 2] /\ publishing' = [oper |-> "UPDATE", uuid |-> u]
      BY <2>1, <2>2, <2>3, <2>4, Zenon DEF WriteObject, rest, Changes
    <2>5. CASE db' = [db EXCEPT ![u] = 0] /\ publishing' = [oper |-> "DELETE", uuid |-> u]
      BY <2>1, <2>2, <2>5, Zenon DEF WriteObject, rest, Changes
    <2> QED BY <2>4, <2>5, Zenon DEF WriteObject
  <1>2. RequestTypes'
    BY <1>1 DEF RequestTypes, rest
  <1>3. TypeOK'
    <2>1. publishing' \in Requests
      BY <1>1, KeysNat, Zenon DEF Changes, Requests, Opers
    <2> QED BY <1>1, <2>1, SMTT(30) DEF TypeOK, rest
  <1>4. \A v \in UUIDs : /\ Announced(v) => Announced(v)'
                         /\ (Queued(v)' <=> Queued(v))
                         /\ RequestOf(v)' = RequestOf(v) /\ QueueOf(v)' = QueueOf(v)
                         /\ (Unscanned(v)' <=> Unscanned(v))
                         /\ v # u => (InStep(v)' <=> InStep(v))
    <2>1. publishing.uuid \notin UUIDs
      BY <1>1, KeysNat, Zenon DEF NoRequest
    <2> QED BY <1>1, <2>1, Zenon
               DEF Announced, Queued, RequestOf, QueueOf, InStep, Unnamed, Unscanned, rest
  <1>5. Announced(u)'
    BY <1>1, Zenon DEF Announced
  <1>6. DeletesFollowed'
    <2>1. publishing'.oper = "DELETE" => db'[publishing'.uuid] = 0
      BY <1>1, Zenon
    <2>2. \A i \in DOMAIN messages' :
             messages'[i].oper = "DELETE" =>
                \/ db'[messages'[i].uuid] = 0 \/ publishing'.uuid = messages'[i].uuid
                \/ \E j \in DOMAIN messages' : j > i /\ messages'[j].uuid = messages'[i].uuid
      <3> TAKE i \in DOMAIN messages'
      <3>1. messages[i].uuid \in UUIDs
        <4>1. messages \in Seq(Changes) /\ i \in DOMAIN messages
          BY <1>1, Zenon DEF RequestTypes
        <4>2. messages[i] \in Changes
          BY <4>1
        <4> QED BY <4>2, Zenon DEF Changes
      <3>2. publishing.uuid # messages[i].uuid
        BY <1>1, <3>1, KeysNat, ZenonT(60) DEF NoRequest
      <3> QED BY <1>1, <3>1, <3>2 DEF DeletesFollowed
    <2>3. ~reinit_triggered_' => \A v \in UUIDs :
          /\ RequestOf(v)' = "DELETE" => db'[v] = 0 \/ Announced(v)' \/ Queued(v)'
          /\ \A i \in DOMAIN QueueOf(v)' :
                QueueOf(v)'[i].uuid = v /\ QueueOf(v)'[i].oper = "DELETE" =>
                   \/ db'[v] = 0 \/ Announced(v)'
                   \/ \E j \in DOMAIN QueueOf(v)' : j > i /\ QueueOf(v)'[j].uuid = v
      BY <1>1, <1>4, <1>5 DEF DeletesFollowed, rest
    <2> QED BY <2>1, <2>2, <2>3, Zenon DEF DeletesFollowed
  <1>7. CacheState'
    BY <1>1, <1>4, <1>5, Zenon DEF CacheState, rest
  <1>8. messages' # <<>> => bound
    BY <1>1, Zenon DEF ClientState
  <1> QED BY <1>1, <1>2, <1>3, <1>6, <1>7, <1>8, WriterStep, Zenon

LEMMA PublishInv ==
  ASSUME Premises, IInv, Publish
  PROVE  IInv'
  <1> /\ TypeOK /\ RequestTypes /\ ClientState /\ DeletesFollowed /\ CacheState
    BY InvParts, Zenon
  <1>1. /\ UNCHANGED <<rest, db, writes>> /\ publishing # NoRequest /\ publishing' = NoRequest
        /\ messages' = IF bound THEN Append(messages, publishing) ELSE messages
    BY Zenon DEF Publish, rest
  <1>2. messages \in Seq(Changes) /\ publishing \in Changes
    BY <1>1, Zenon DEF RequestTypes
  <1>3. messages' \in Seq(Changes)
    BY <1>1, <1>2
  <1>4. RequestTypes'
    BY <1>1, <1>3, Zenon DEF RequestTypes, rest
  <1>5. TypeOK'
    <2>1. publishing' \in Requests /\ Changes \subseteq Requests
      BY <1>1, KeysNat, Zenon DEF Changes, NoRequest, Requests, Opers
    <2>2. messages' \in Seq(Requests)
      BY <1>3, <2>1
    <2> QED BY <1>1, <2>1, <2>2 DEF TypeOK, rest
  <1>6. NoRequest.uuid = EndUUID /\ NoRequest.oper = "none"
    BY Zenon DEF NoRequest
  <1>7. \A v \in UUIDs : /\ (Queued(v)' <=> Queued(v))
                         /\ RequestOf(v)' = RequestOf(v) /\ QueueOf(v)' = QueueOf(v)
                         /\ (Unscanned(v)' <=> Unscanned(v))
                         /\ (InStep(v)' <=> InStep(v))
    BY <1>1, Zenon DEF Queued, RequestOf, QueueOf, InStep, Unnamed, Unscanned, rest
  <1>8. CASE bound
    <2>1. /\ DOMAIN messages' = 1 .. Len(messages) + 1 /\ messages'[Len(messages) + 1] = publishing
          /\ \A i \in DOMAIN messages : i \in DOMAIN messages' /\ messages'[i] = messages[i]
          /\ DOMAIN messages = 1 .. Len(messages) /\ Len(messages) \in Nat
      BY <1>1, <1>2, <1>8
    <2>2. \A v \in UUIDs : Announced(v) => Announced(v)'
      BY <2>1 DEF Announced
    <2>3. DeletesFollowed'
      <3>1. \A i \in DOMAIN messages' :
             messages'[i].oper = "DELETE" =>
                \/ db[messages'[i].uuid] = 0
                \/ \E j \in DOMAIN messages' : j > i /\ messages'[j].uuid = messages'[i].uuid
        <4> TAKE i \in DOMAIN messages'
        <4>1. CASE i = Len(messages) + 1
          BY <2>1, <4>1, Zenon DEF DeletesFollowed
        <4>2. CASE i # Len(messages) + 1
          <5>1. i \in DOMAIN messages /\ i < Len(messages) + 1
            BY <2>1, <4>2
          <5> QED BY <2>1, <5>1 DEF DeletesFollowed
        <4> QED BY <4>1, <4>2, Zenon
      <3>2. publishing'.oper # "DELETE"
        BY <1>1, <1>6, Zenon
      <3>3. ~reinit_triggered_' => \A v \in UUIDs :
          /\ RequestOf(v)' = "DELETE" => db[v] = 0 \/ Announced(v)' \/ Queued(v)'
          /\ \A i \in DOMAIN QueueOf(v)' :
                QueueOf(v)'[i].uuid = v /\ QueueOf(v)'[i].oper = "DELETE" =>
                   \/ db[v] = 0 \/ Announced(v)'
                   \/ \E j \in DOMAIN QueueOf(v)' : j > i /\ QueueOf(v)'[j].uuid = v
        BY <1>1, <1>7, <2>2 DEF DeletesFollowed, rest
      <3> QED BY <1>1, <3>1, <3>2, <3>3 DEF DeletesFollowed
    <2>4. CacheState'
      BY <1>1, <1>7, <2>2, Zenon DEF CacheState, rest
    <2> QED BY <1>1, <1>4, <1>5, <1>8, <2>3, <2>4, WriterStep, Zenon
  <1>9. CASE ~bound
    <2>1. messages = <<>> /\ messages' = <<>>
      BY <1>1, <1>9, Zenon DEF ClientState
    <2>2. ~reinit_triggered_ => amqp = "none" /\ Fresh
      BY <1>9, Zenon DEF ClientState
    <2>3. ~reinit_triggered_ => \A v \in UUIDs : RequestOf(v) = "none" /\ QueueOf(v) = <<>>
      BY <2>2, KeysNat, Zenon DEF RequestOf, QueueOf, Premises, Configured, Fresh, Empty
    <2>4. DeletesFollowed'
      BY <1>1, <1>6, <1>7, <2>1, <2>3 DEF DeletesFollowed, rest
    <2>5. CacheState'
      BY <1>1, <1>7, <2>2, Zenon DEF CacheState, rest
    <2> QED BY <1>1, <1>4, <1>5, <2>1, <2>4, <2>5, WriterStep, Zenon
  <1> QED BY <1>8, <1>9, Zenon

-----------------------------------------------------------------------------
(* The RabbitMQReader and the FQNameReader enqueue requests.               *)

AllRequests == ObjectRequests \cup {EndRequest}

LEMMA RequestIs ==
  ASSUME Premises
  PROVE  /\ Changes \subseteq ObjectRequests /\ ObjectRequests \subseteq AllRequests
         /\ AllRequests \subseteq Requests
         /\ \A r \in ObjectRequests : r.uuid \in UUIDs /\ r.oper # "EndOfConfig" /\ r.oper # "none" /\ r.oper \in Opers
         /\ \A r \in AllRequests : r.oper = "EndOfConfig" <=> r.uuid = EndUUID
         /\ \A r \in AllRequests : r.uuid \in Keys /\ r.oper \in Opers /\ r.oper # "none"
         /\ EndRequest.oper = "EndOfConfig" /\ EndRequest.uuid = EndUUID /\ EndRequest \in AllRequests
  BY KeysNat DEF Changes, ObjectRequests, AllRequests, EndRequest, Requests, Opers, Reads

LEMMA TailIs ==
  ASSUME NEW R, NEW q \in Seq(R), q # <<>>
  PROVE  /\ Tail(q) \in Seq(R) /\ Head(q) \in R /\ Head(q) = q[1] /\ 1 \in DOMAIN q
         /\ DOMAIN q = 1 .. Len(q) /\ DOMAIN Tail(q) = 1 .. Len(q) - 1 /\ Len(q) \in Nat
         /\ \A i \in 1 .. Len(q) - 1 : Tail(q)[i] = q[i + 1]
  OBVIOUS

LEMMA QueueIs ==
  ASSUME Premises, IInv
  PROVE  /\ obj_process_queue_ \in [Partitions -> Seq(AllRequests)]
         /\ \A p \in Partitions : obj_process_queue_[p] \in Seq(AllRequests)
         /\ \A u \in UUIDs : HashUUID[u] \in Partitions /\ QueueOf(u) \in Seq(AllRequests)
  <1> /\ RequestTypes
    BY InvParts, Zenon
  <1> QED BY Zenon DEF RequestTypes, AllRequests, QueueOf, Premises, Configured

EnqueueRequest(r) ==
    obj_process_queue_' = [obj_process_queue_ EXCEPT ![HashUUID[r.uuid]] = Append(@, r)]

\* A request that is appended to the queue of its partition.
LEMMA EnqueueIs ==
  ASSUME Premises, IInv, NEW r \in ObjectRequests, EnqueueRequest(r)
  PROVE  /\ obj_process_queue_' \in [Partitions -> Seq(AllRequests)]
         /\ \A p \in Partitions : p # HashUUID[r.uuid] => obj_process_queue_'[p] = obj_process_queue_[p]
         /\ obj_process_queue_'[HashUUID[r.uuid]] = Append(obj_process_queue_[HashUUID[r.uuid]], r)
         /\ HashUUID[r.uuid] \in Partitions
  <1>1. HashUUID[r.uuid] \in Partitions /\ r \in AllRequests
    BY RequestIs, Zenon DEF Premises, Configured
  <1>2. Append(obj_process_queue_[HashUUID[r.uuid]], r) \in Seq(AllRequests)
    BY <1>1, QueueIs, AppendIs, Zenon
  <1> QED BY <1>1, <1>2, QueueIs, Zenon DEF EnqueueRequest

LEMMA EnqueueRouted ==
  ASSUME Premises, IInv, NEW r \in ObjectRequests, EnqueueRequest(r), uuid_read_set_' = uuid_read_set_,
         messages' \in Seq(Changes), publishing' = publishing
  PROVE  RequestTypes'
  <1> /\ RequestTypes
    BY InvParts, Zenon
  <1> DEFINE h == HashUUID[r.uuid]
  <1>1. \A p \in Partitions : \A u \in UUIDs : \A i \in DOMAIN obj_process_queue_'[p] :
           obj_process_queue_'[p][i].uuid = u => HashUUID[u] = p
    <2> SUFFICES ASSUME NEW p \in Partitions, NEW u \in UUIDs, NEW i \in DOMAIN obj_process_queue_'[p],
                        obj_process_queue_'[p][i].uuid = u
                 PROVE  HashUUID[u] = p
      BY Zenon
    <2>1. CASE p # h
      BY <2>1, EnqueueIs DEF RequestTypes
    <2>2. CASE p = h
      <3>1. obj_process_queue_[h] \in Seq(AllRequests) /\ r \in AllRequests
        BY <2>2, QueueIs, RequestIs, Zenon
      <3>2. obj_process_queue_'[h] = Append(obj_process_queue_[h], r)
        BY EnqueueIs, Zenon
      <3>3. CASE i = Len(obj_process_queue_[h]) + 1
        BY <2>2, <3>1, <3>2, <3>3, AppendIs
      <3>4. CASE i \in DOMAIN obj_process_queue_[h]
        <4>1. obj_process_queue_'[h][i] = obj_process_queue_[h][i]
          BY <3>1, <3>2, <3>4, AppendIs
        <4> QED BY <2>2, <3>4, <4>1, Zenon DEF RequestTypes
      <3> QED BY <2>2, <3>1, <3>2, <3>3, <3>4, AppendIs
    <2> QED BY <2>1, <2>2, Zenon
  <1> QED BY <1>1, EnqueueIs, Zenon DEF RequestTypes, AllRequests

LEMMA EnqueueEnds ==
  ASSUME Premises, IInv, NEW r \in ObjectRequests, EnqueueRequest(r), uuid_read_set_' = uuid_read_set_
  PROVE  /\ \A p \in Partitions : EndPending(p)' <=> EndPending(p)
         /\ UNCHANGED reinit_triggered_ /\ (fq_name_reader_' # "none" => fq_name_reader_ # "none") => EndState'
  <1> /\ EndState
    BY InvParts, Zenon
  <1> DEFINE h == HashUUID[r.uuid]
  <1>1. obj_process_queue_[h] \in Seq(AllRequests) /\ r \in AllRequests /\ h \in Partitions
    BY QueueIs, RequestIs, EnqueueIs, Zenon
  <1>2. obj_process_queue_'[h] = Append(obj_process_queue_[h], r)
    BY EnqueueIs, Zenon
  <1>3. r.oper # "EndOfConfig"
    BY RequestIs, Zenon
  <1>4. \A p \in Partitions : \A i \in DOMAIN obj_process_queue_'[p] :
           obj_process_queue_'[p][i].oper = "EndOfConfig" =>
              i \in DOMAIN obj_process_queue_[p] /\ obj_process_queue_[p][i].oper = "EndOfConfig"
    <2>1. \A i \in DOMAIN obj_process_queue_'[h] :
             \/ i \in DOMAIN obj_process_queue_[h] /\ obj_process_queue_'[h][i] = obj_process_queue_[h][i]
             \/ obj_process_queue_'[h][i] = r
      BY <1>1, <1>2, AppendCases
    <2> QED BY <1>3, <2>1, EnqueueIs, Zenon
  <1>5. \A p \in Partitions : \A i \in DOMAIN obj_process_queue_[p] :
           i \in DOMAIN obj_process_queue_'[p] /\ obj_process_queue_'[p][i] = obj_process_queue_[p][i]
    <2>1. \A i \in DOMAIN obj_process_queue_[h] :
             i \in DOMAIN obj_process_queue_'[h] /\ obj_process_queue_'[h][i] = obj_process_queue_[h][i]
      BY <1>1, <1>2, AppendIs
    <2> QED BY <2>1, EnqueueIs, Zenon
  <1>6. \A p \in Partitions : EndPending(p)' <=> EndPending(p)
    BY <1>4, <1>5, Zenon DEF EndPending
  <1>7. ASSUME UNCHANGED reinit_triggered_, fq_name_reader_' # "none" => fq_name_reader_ # "none"
        PROVE  EndState'
    BY <1>4, <1>6, <1>7 DEF EndState
  <1> QED BY <1>6, <1>7, Zenon

LEMMA EnqueueObjects ==
  ASSUME Premises, IInv, NEW r \in ObjectRequests, EnqueueRequest(r)
  PROVE  /\ Queued(r.uuid)'
         /\ \A v \in UUIDs : /\ Queued(v) => Queued(v)'
                             /\ v # r.uuid => (Queued(v)' => Queued(v))
                             /\ \A i \in DOMAIN QueueOf(v) :
                                   i \in DOMAIN QueueOf(v)' /\ QueueOf(v)'[i] = QueueOf(v)[i]
                             /\ \A i \in DOMAIN QueueOf(v)' :
                                   \/ i \in DOMAIN QueueOf(v)
                                   \/ QueueOf(v)'[i] = r /\ \A j \in DOMAIN QueueOf(v) : j < i
  <1> DEFINE h == HashUUID[r.uuid]
  <1>1. obj_process_queue_[h] \in Seq(AllRequests) /\ r \in AllRequests /\ h \in Partitions /\ r.uuid \in UUIDs
    BY QueueIs, RequestIs, EnqueueIs, Zenon
  <1>2. obj_process_queue_'[h] = Append(obj_process_queue_[h], r)
    BY EnqueueIs, Zenon
  <1>3. \A v \in UUIDs : \/ QueueOf(v)' = QueueOf(v) /\ v # r.uuid
                         \/ QueueOf(v)' = Append(QueueOf(v), r)
    BY <1>2, EnqueueIs, QueueIs, Zenon DEF QueueOf
  <1>4. ASSUME NEW v \in UUIDs
        PROVE  /\ \A i \in DOMAIN QueueOf(v) :
                     i \in DOMAIN QueueOf(v)' /\ QueueOf(v)'[i] = QueueOf(v)[i]
               /\ \A i \in DOMAIN QueueOf(v)' :
                     \/ i \in DOMAIN QueueOf(v)
                     \/ QueueOf(v)'[i] = r /\ \A j \in DOMAIN QueueOf(v) : j < i
    <2>1. QueueOf(v) \in Seq(AllRequests)
      BY QueueIs
    <2>2. CASE QueueOf(v)' = QueueOf(v)
      BY <2>2
    <2>3. CASE QueueOf(v)' = Append(QueueOf(v), r)
      BY <1>1, <2>1, <2>3, AppendIs
    <2> QED BY <1>3, <2>2, <2>3, Zenon
  <1>5. Queued(r.uuid)'
    <2>1. QueueOf(r.uuid)' = Append(QueueOf(r.uuid), r) /\ QueueOf(r.uuid) \in Seq(AllRequests)
      BY <1>1, <1>3, QueueIs, Zenon
    <2>2. Len(QueueOf(r.uuid)) + 1 \in DOMAIN QueueOf(r.uuid)' /\ QueueOf(r.uuid)'[Len(QueueOf(r.uuid)) + 1] = r
      BY <1>1, <2>1, AppendIs
    <2> QED BY <2>2, Zenon DEF Queued
  <1>6. \A v \in UUIDs : (Queued(v) => Queued(v)') /\ (v # r.uuid => (Queued(v)' => Queued(v)))
    BY <1>4, Zenon DEF Queued
  <1> QED BY <1>4, <1>5, <1>6, Zenon

\* A RabbitMQReader that receives belongs to a client whose bulk sync has ended.
LEMMA ReceivingIs ==
  ASSUME Premises, IInv, amqp = "loop", ~reinit_triggered_
  PROVE  /\ fq_name_reader_ = "none" /\ init \in {"none", "queued"} /\ bound
         /\ \A u \in UUIDs : ~Unscanned(u)
  <1> /\ SyncAccounted /\ TaskState /\ ClientState
    BY InvParts, Zenon
  <1>1. end_of_rib_computed_ /\ bulk_sync_status_ = 0 /\ bound
    BY Zenon DEF ClientState, SyncAccounted
  <1>2. fq_name_reader_ = "none"
    BY <1>1, PartitionsCount DEF SyncAccounted
  <1>3. init \in {"none", "queued"}
    BY Zenon DEF TaskState, AmqpRunning
  <1> QED BY <1>1, <1>2, <1>3, Zenon DEF Unscanned

LEMMA ReceiveRabbitMessagesInv ==
  ASSUME Premises, IInv, ReceiveRabbitMessages
  PROVE  IInv'
  <1> /\ TypeOK /\ NoStrandedRequest /\ SyncAccounted /\ RequestTypes /\ GenerationState
      /\ TaskState /\ ClientState /\ EndState /\ ReaderState /\ DeletesFollowed /\ CacheState
    BY InvParts, Zenon
  <1> DEFINE m == Head(messages)
  <1>1. /\ amqp = "loop" /\ ~reinit_triggered_ /\ messages # <<>>
        /\ messages' \in {Tail(messages), messages}
        /\ UNCHANGED <<mgrVars, init, callVars, amqp, bound, bulk_sync_status_, fqVars,
                       uuid_read_set_, config_reader_, object_cache_map_, dbVars>>
    BY Zenon DEF ReceiveRabbitMessages, AckOrReconnect
  <1>2. messages \in Seq(Changes) /\ m \in Changes /\ messages' \in Seq(Changes)
    <2>1. messages \in Seq(Changes)
      BY Zenon DEF RequestTypes
    <2> QED BY <1>1, <2>1, TailIs
  <1>3. m \in ObjectRequests /\ m.uuid \in UUIDs
    BY <1>2, RequestIs, Zenon
  <1>4. EnqueueRequest(m)
    BY Zenon DEF ReceiveRabbitMessages, ProcessMessage, EnqueueRequest
  <1>5. fq_name_cache_' \in [UUIDs -> {"none", "present", "deleted"}]
        /\ \A v \in UUIDs : v # m.uuid => fq_name_cache_'[v] = fq_name_cache_[v]
    <2>1. fq_name_cache_ \in [UUIDs -> {"none", "present", "deleted"}]
      BY Zenon DEF TypeOK
    <2>2. PICK x \in {"none", "present", "deleted"} : fq_name_cache_' = [fq_name_cache_ EXCEPT ![m.uuid] = x]
      BY <1>3, <2>1, Zenon DEF ReceiveRabbitMessages, ProcessMessage
    <2> QED BY <2>1, <2>2, Zenon
  <1> HIDE DEF m
  <1>6. RequestTypes'
    BY <1>1, <1>2, <1>3, <1>4, EnqueueRouted
  <1>7. TypeOK'
    <2>1. obj_process_queue_' \in [Partitions -> Seq(AllRequests)] /\ AllRequests \subseteq Requests
      BY <1>3, <1>4, EnqueueIs, RequestIs, Zenon
    <2>2. obj_process_queue_' \in [Partitions -> Seq(Requests)]
      BY <2>1
    <2>3. messages' \in Seq(Requests)
      <3>1. Changes \subseteq Requests
        BY RequestIs, Zenon
      <3> QED BY <1>2, <3>1
    <2> QED BY <1>1, <1>5, <2>2, <2>3 DEF TypeOK
  <1>8. NoStrandedRequest' /\ ReaderState'
    BY <1>1, Zenon DEF NoStrandedRequest, ReaderState, ReaderRunning, Empty
  <1>9. (\A p \in Partitions : EndPending(p)' <=> EndPending(p)) /\ EndState'
    BY <1>1, <1>3, <1>4, EnqueueEnds, Zenon
  <1>10. SyncAccounted'
    <2>1. {p \in Partitions : EndPending(p)'} = {p \in Partitions : EndPending(p)}
      BY <1>9, Zenon
    <2> QED BY <1>1, <2>1, Zenon DEF SyncAccounted
  <1>11. GenerationState'
    BY <1>1, Zenon DEF GenerationState
  <1>12. TaskState'
    BY <1>1, Zenon DEF TaskState, AmqpRunning, InitRunning, FQNameReaderRunning, ReaderRunning
  <1>13. ClientState'
    BY <1>1, ReceivingIs, Zenon DEF ClientState, AmqpRunning
  <1>14. \A v \in UUIDs : v # m.uuid => (Announced(v) => Announced(v)')
    <2> SUFFICES ASSUME NEW v \in UUIDs, v # m.uuid, NEW i \in DOMAIN messages, messages[i].uuid = v
                 PROVE  \E j \in DOMAIN messages' : messages'[j].uuid = v
      BY <1>1, Zenon DEF Announced
    <2>1. CASE messages' = messages
      BY <2>1, Zenon
    <2>2. CASE messages' = Tail(messages)
      <3>1. i # 1
        BY <1>1, <1>2, TailIs, Zenon DEF m
      <3>2. i - 1 \in DOMAIN messages' /\ messages'[i - 1] = messages[i]
        BY <1>1, <1>2, <2>2, <3>1, TailIs
      <3> QED BY <3>2, Zenon
    <2> QED BY <1>1, <2>1, <2>2, Zenon
  <1>15. \A v \in UUIDs : /\ RequestOf(v)' = RequestOf(v)
                          /\ (Unscanned(v)' <=> Unscanned(v))
                          /\ v # m.uuid => (InStep(v)' <=> InStep(v))
    BY <1>1, <1>5, Zenon DEF RequestOf, Unscanned, InStep, Unnamed
  <1>16. CacheState'
    <2>1. \A v \in UUIDs : ~Unscanned(v)'
      BY <1>1, <1>15, ReceivingIs, Zenon
    <2>2. \A v \in UUIDs : RequestOf(v)' # "none" \/ Queued(v)' \/ Announced(v)' \/ InStep(v)'
      <3> TAKE v \in UUIDs
      <3>1. Unscanned(v) \/ RequestOf(v) # "none" \/ Queued(v) \/ Announced(v) \/ InStep(v)
        BY <1>1, Zenon DEF CacheState
      <3>2. v = m.uuid => Queued(v)'
        BY <1>3, <1>4, EnqueueObjects
      <3>3. Queued(v) => Queued(v)'
        BY <1>3, <1>4, EnqueueObjects, Zenon
      <3> QED BY <1>14, <1>15, <2>1, <3>1, <3>2, <3>3, Zenon
    <2> QED BY <2>1, <2>2, Zenon DEF CacheState
  <1>17. DeletesFollowed'
    <2>1. publishing'.oper = "DELETE" => db'[publishing'.uuid] = 0
      BY <1>1, Zenon DEF DeletesFollowed
    <2>2. \A i \in DOMAIN messages' :
             messages'[i].oper = "DELETE" =>
                \/ db'[messages'[i].uuid] = 0 \/ publishing'.uuid = messages'[i].uuid
                \/ \E j \in DOMAIN messages' : j > i /\ messages'[j].uuid = messages'[i].uuid
      <3>1. CASE messages' = messages
        BY <1>1, <3>1 DEF DeletesFollowed
      <3>2. CASE messages' = Tail(messages)
        <4> SUFFICES ASSUME NEW i \in DOMAIN messages', messages'[i].oper = "DELETE",
                            db[messages'[i].uuid] # 0, publishing.uuid # messages'[i].uuid
                     PROVE  \E j \in DOMAIN messages' : j > i /\ messages'[j].uuid = messages'[i].uuid
          BY <1>1, Zenon
        <4>1. i \in Nat /\ i + 1 \in DOMAIN messages /\ messages'[i] = messages[i + 1]
          BY <1>1, <1>2, <3>2, TailIs
        <4>2. PICK j \in DOMAIN messages : j > i + 1 /\ messages[j].uuid = messages[i + 1].uuid
          BY <4>1, Zenon DEF DeletesFollowed
        <4>3. j - 1 \in DOMAIN messages' /\ messages'[j - 1] = messages[j] /\ j - 1 > i
          BY <1>1, <1>2, <3>2, <4>1, <4>2, TailIs
        <4> QED BY <4>1, <4>2, <4>3, Zenon
      <3> QED BY <1>1, <3>1, <3>2, Zenon
    <2>3. ASSUME NEW v \in UUIDs, RequestOf(v)' = "DELETE"
          PROVE  db'[v] = 0 \/ Announced(v)' \/ Queued(v)'
      <3>1. db[v] = 0 \/ Announced(v) \/ Queued(v)
        BY <1>1, <1>15, <2>3, Zenon DEF DeletesFollowed
      <3> QED BY <1>1, <1>3, <1>4, <1>14, <3>1, EnqueueObjects
    <2>4. ASSUME NEW v \in UUIDs, NEW i \in DOMAIN QueueOf(v)', QueueOf(v)'[i].uuid = v, QueueOf(v)'[i].oper = "DELETE"
          PROVE  \/ db'[v] = 0 \/ Announced(v)'
                 \/ \E j \in DOMAIN QueueOf(v)' : j > i /\ QueueOf(v)'[j].uuid = v
      <3>1. CASE i \in DOMAIN QueueOf(v)
        <4>1. QueueOf(v)'[i] = QueueOf(v)[i]
          BY <1>3, <1>4, <3>1, EnqueueObjects, Zenon
        <4>2. \/ db[v] = 0 \/ Announced(v)
              \/ \E j \in DOMAIN QueueOf(v) : j > i /\ QueueOf(v)[j].uuid = v
          BY <1>1, <2>4, <3>1, <4>1 DEF DeletesFollowed
        <4>3. CASE \E j \in DOMAIN QueueOf(v) : j > i /\ QueueOf(v)[j].uuid = v
          BY <1>3, <1>4, <4>3, EnqueueObjects, Zenon
        <4>4. CASE v = m.uuid
          <5>1. QueueOf(v) \in Seq(AllRequests) /\ m \in AllRequests
            BY <1>3, QueueIs, RequestIs, Zenon
          <5>2. QueueOf(v)' = Append(QueueOf(v), m)
            BY <1>3, <1>4, <4>4, EnqueueIs, Zenon DEF QueueOf
          <5>3. Len(QueueOf(v)) + 1 \in DOMAIN QueueOf(v)' /\ QueueOf(v)'[Len(QueueOf(v)) + 1] = m /\ Len(QueueOf(v)) + 1 > i
            BY <3>1, <5>1, <5>2, AppendIs
          <5> QED BY <4>4, <5>3, Zenon
        <4> QED BY <1>1, <1>14, <4>2, <4>3, <4>4, Zenon
      <3>2. CASE QueueOf(v)'[i] = m
        <4>1. v = m.uuid /\ m.oper = "DELETE" /\ messages[1] = m /\ 1 \in DOMAIN messages
          BY <1>1, <1>2, <2>4, <3>2, TailIs, Zenon DEF m
        <4>2. \/ db[v] = 0 \/ publishing.uuid = v
              \/ \E j \in DOMAIN messages : j > 1 /\ messages[j].uuid = v
          BY <4>1, Zenon DEF DeletesFollowed
        <4>3. ASSUME NEW j \in DOMAIN messages, j > 1, messages[j].uuid = v
              PROVE  Announced(v)'
          <5>1. CASE messages' = messages
            BY <4>3, <5>1, Zenon DEF Announced
          <5>2. CASE messages' = Tail(messages)
            <6>1. j - 1 \in DOMAIN messages' /\ messages'[j - 1] = messages[j]
              BY <1>1, <1>2, <4>3, <5>2, TailIs
            <6> QED BY <4>3, <6>1, Zenon DEF Announced
          <5> QED BY <1>1, <5>1, <5>2, Zenon
        <4> QED BY <1>1, <4>2, <4>3, Zenon DEF Announced
      <3> QED BY <1>3, <1>4, <3>1, <3>2, EnqueueObjects
    <2> QED BY <2>1, <2>2, <2>3, <2>4, Zenon DEF DeletesFollowed
  <1> QED BY <1>6, <1>7, <1>8, <1>9, <1>10, <1>11, <1>12, <1>13, <1>16, <1>17, InvNext, Zenon

LEMMA AmqpTaskInv ==
  ASSUME Premises, IInv, AmqpTask
  PROVE  IInv'
  BY AmqpRunInv, WaitForEndOfConfigInv, AmqpStopsInv, ReceiveRabbitMessagesInv, Zenon DEF AmqpTask

\* While the FQNameReader runs the Init task does not, and the client is a
\* started one.
LEMMA ScanningIs ==
  ASSUME IInv, FQNameReaderRunning
  PROVE  /\ init \in {"none", "queued"} /\ \A p \in Partitions : ~ReaderRunning(p)
         /\ ~reinit_triggered_ => amqp # "none"
         /\ fq_name_reader_ # "none"
  <1> /\ TypeOK /\ TaskState /\ ClientState
    BY InvParts, Zenon
  <1> QED BY Zenon DEF TaskState, ClientState, Fresh, FQNameReaderRunning, InitRunning, TypeOK

\* An object that the FQNameReader leaves out is neither stored nor cached.
LEMMA PassedOver ==
  ASSUME Premises, IInv, ~reinit_triggered_, fq_name_reader_ = "read", NEW v \in UUIDs,
         v > column_name, v \notin Unread, UNCHANGED <<db, object_cache_map_>>
  PROVE  InStep(v)'
  <1> /\ CacheState
    BY InvParts, Zenon
  <1>1. object_cache_map_[v] = 0
    BY Zenon DEF CacheState, Unscanned
  <1>2. db[v] = 0
    BY Zenon DEF Unread
  <1> QED BY <1>1, <1>2, Zenon DEF InStep

LEMMA FQNameReaderInv ==
  ASSUME Premises, IInv, FQNameReader
  PROVE  IInv'
  <1> /\ TypeOK /\ NoStrandedRequest /\ SyncAccounted /\ RequestTypes /\ GenerationState
      /\ TaskState /\ ClientState /\ EndState /\ ReaderState /\ DeletesFollowed /\ CacheState
    BY InvParts, Zenon
  <1> DEFINE u == Min(Unread)
             r == [oper |-> "CREATE", uuid |-> u]
  <1>1. /\ fq_name_reader_ = "read" /\ ~reinit_triggered_ /\ Unread # {}
        /\ column_name' = u /\ fq_name_reader_' \in {"read", "end"}
        /\ fq_name_reader_' = "end" => Unread = {u}
        /\ fq_name_cache_' = [fq_name_cache_ EXCEPT ![u] = IF @ = "none" THEN "present" ELSE @]
        /\ UNCHANGED <<mgrVars, init, callVars, amqpVars, bulk_sync_status_,
                       uuid_read_set_, config_reader_, object_cache_map_, dbVars>>
    BY Zenon DEF FQNameReader
  <1>2. u \in Unread /\ \A v \in Unread : u <= v
    <2>1. Unread \subseteq Nat
      BY KeysNat, Zenon DEF Unread
    <2> QED BY <1>1, <2>1, MinIs, Zenon
  <1>3. u \in UUIDs /\ u > column_name /\ u \in Nat /\ column_name \in Nat /\ UUIDs \subseteq Nat
    BY <1>2, KeysNat, Zenon DEF Unread, TypeOK
  <1>4. r \in ObjectRequests /\ r.uuid = u /\ EnqueueRequest(r) /\ r.oper # "DELETE"
    BY <1>3, Zenon DEF ObjectRequests, Reads, FQNameReader, EnqueueRequest
  <1> HIDE DEF u, r
  <1>5. FQNameReaderRunning /\ FQNameReaderRunning'
    BY <1>1, Zenon DEF FQNameReaderRunning
  <1>6. RequestTypes'
    <2>1. messages' \in Seq(Changes)
      BY <1>1, Zenon DEF RequestTypes
    <2> QED BY <1>1, <1>4, <2>1, EnqueueRouted, Zenon
  <1>7. TypeOK'
    <2>1. obj_process_queue_' \in [Partitions -> Seq(AllRequests)] /\ AllRequests \subseteq Requests
      BY <1>4, EnqueueIs, RequestIs, Zenon
    <2>2. obj_process_queue_' \in [Partitions -> Seq(Requests)]
      BY <2>1
    <2>3. fq_name_cache_' \in [UUIDs -> {"none", "present", "deleted"}]
      BY <1>1, <1>3, Zenon DEF TypeOK
    <2> QED BY <1>1, <1>3, <2>2, <2>3, SMTT(30) DEF TypeOK
  <1>8. NoStrandedRequest' /\ ReaderState'
    BY <1>1, Zenon DEF NoStrandedRequest, ReaderState, ReaderRunning, Empty
  <1>9. (\A p \in Partitions : EndPending(p)' <=> EndPending(p)) /\ EndState'
    BY <1>1, <1>4, EnqueueEnds, Zenon
  <1>10. SyncAccounted'
    BY <1>1, Zenon DEF SyncAccounted
  <1>11. GenerationState'
    BY <1>1, Zenon DEF GenerationState
  <1>12. TaskState'
    BY <1>1, <1>5, ScanningIs, Zenon DEF TaskState, AmqpRunning, InitRunning, ReaderRunning
  <1>13. ClientState'
    BY <1>1, <1>5, ScanningIs, Zenon DEF ClientState, AmqpRunning
  <1>14. \A v \in UUIDs : /\ RequestOf(v)' = RequestOf(v) /\ (Announced(v)' <=> Announced(v))
                          /\ v # u => (InStep(v)' <=> InStep(v))
                          /\ (Unscanned(v)' <=> fq_name_reader_' = "read" /\ v > u)
                          /\ (Unscanned(v) <=> v > column_name)
    <2>1. \A v \in UUIDs : v # u => fq_name_cache_'[v] = fq_name_cache_[v]
      BY <1>1, Zenon DEF TypeOK
    <2>2. \A v \in UUIDs : /\ RequestOf(v)' = RequestOf(v) /\ (Announced(v)' <=> Announced(v))
                           /\ v # u => (InStep(v)' <=> InStep(v))
      BY <1>1, <2>1, Zenon DEF RequestOf, Announced, InStep, Unnamed
    <2>3. init # "db" /\ init' # "db"
      BY <1>1, <1>5, ScanningIs, Zenon
    <2> QED BY <1>1, <2>2, <2>3, Zenon DEF Unscanned
  <1>15. CacheState'
    <2> SUFFICES ASSUME NEW v \in UUIDs
                 PROVE  /\ Unscanned(v)' => object_cache_map_'[v] = 0 /\ RequestOf(v)' = "none" /\ ~Queued(v)'
                        /\ Unscanned(v)' \/ RequestOf(v)' # "none" \/ Queued(v)' \/ Announced(v)' \/ InStep(v)'
      BY Zenon DEF CacheState
    <2>0. v \in Nat
      BY <1>3, Zenon
    <2>1. CASE v = u
      <3>1. Queued(v)'
        BY <1>4, <2>1, EnqueueObjects, Zenon
      <3>2. ~Unscanned(v)'
        BY <1>3, <1>14, <2>1
      <3> QED BY <3>1, <3>2, Zenon
    <2>2. CASE v # u /\ v <= column_name
      <3>1. ~Unscanned(v) /\ ~Unscanned(v)'
        BY <1>3, <1>14, <2>0, <2>2
      <3>2. amqp # "none"
        BY <1>1, <1>5, ScanningIs, Zenon
      <3>3. RequestOf(v) # "none" \/ Queued(v) \/ Announced(v) \/ InStep(v)
        BY <1>1, <3>1, <3>2, Zenon DEF CacheState
      <3>4. Queued(v) => Queued(v)'
        BY <1>4, EnqueueObjects, Zenon
      <3> QED BY <1>14, <2>2, <3>1, <3>3, <3>4, Zenon
    <2>3. CASE v > column_name /\ v \notin Unread
      <3>1. InStep(v)'
        BY <1>1, <2>3, PassedOver, Zenon
      <3>2. /\ Unscanned(v) /\ object_cache_map_[v] = 0 /\ RequestOf(v) = "none" /\ ~Queued(v)
        BY <1>1, <1>14, <2>3, Zenon DEF CacheState
      <3>3. v # u
        BY <1>2, <2>3, Zenon
      <3>4. ~Queued(v)'
        BY <1>4, <3>2, <3>3, EnqueueObjects, Zenon
      <3> QED BY <1>1, <1>14, <3>1, <3>2, <3>4, Zenon
    <2>4. CASE v > column_name /\ v \in Unread /\ v # u
      <3>1. Unread # {u} /\ v > u
        BY <1>2, <1>3, <2>0, <2>4
      <3>2. Unscanned(v)'
        BY <1>1, <1>14, <3>1, Zenon
      <3>3. /\ Unscanned(v) /\ object_cache_map_[v] = 0 /\ RequestOf(v) = "none" /\ ~Queued(v)
        BY <1>1, <1>14, <2>4, Zenon DEF CacheState
      <3>4. ~Queued(v)'
        BY <1>4, <2>4, <3>3, EnqueueObjects, ZenonT(60)
      <3> QED BY <1>1, <1>14, <3>2, <3>3, <3>4, Zenon
    <2> QED BY <1>3, <2>0, <2>1, <2>2, <2>3, <2>4
  <1>16. DeletesFollowed'
    <2>1. ASSUME NEW v \in UUIDs, RequestOf(v)' = "DELETE"
          PROVE  db'[v] = 0 \/ Announced(v)' \/ Queued(v)'
      <3>1. db[v] = 0 \/ Announced(v) \/ Queued(v)
        BY <1>1, <1>14, <2>1, Zenon DEF DeletesFollowed
      <3> QED BY <1>1, <1>4, <1>14, <3>1, EnqueueObjects, Zenon
    <2>2. ASSUME NEW v \in UUIDs, NEW i \in DOMAIN QueueOf(v)', QueueOf(v)'[i].uuid = v, QueueOf(v)'[i].oper = "DELETE"
          PROVE  \/ db'[v] = 0 \/ Announced(v)'
                 \/ \E j \in DOMAIN QueueOf(v)' : j > i /\ QueueOf(v)'[j].uuid = v
      <3>1. i \in DOMAIN QueueOf(v)
        BY <1>4, <2>2, EnqueueObjects
      <3>2. QueueOf(v)'[i] = QueueOf(v)[i]
        BY <1>4, <3>1, EnqueueObjects, Zenon
      <3>3. \/ db[v] = 0 \/ Announced(v)
            \/ \E j \in DOMAIN QueueOf(v) : j > i /\ QueueOf(v)[j].uuid = v
        BY <1>1, <2>2, <3>1, <3>2 DEF DeletesFollowed
      <3> QED BY <1>1, <1>4, <1>14, <3>3, EnqueueObjects, Zenon
    <2> QED BY <1>1, <2>1, <2>2 DEF DeletesFollowed
  <1> QED BY <1>6, <1>7, <1>8, <1>9, <1>10, <1>11, <1>12, <1>13, <1>15, <1>16, InvNext, Zenon

LEMMA FQNameReaderNoMoreInv ==
  ASSUME Premises, IInv, FQNameReaderNoMore
  PROVE  IInv'
  <1> /\ TypeOK /\ NoStrandedRequest /\ SyncAccounted /\ RequestTypes /\ GenerationState
      /\ TaskState /\ ClientState /\ EndState /\ ReaderState /\ DeletesFollowed /\ CacheState
    BY InvParts, Zenon
  <1>1. /\ fq_name_reader_ = "read" /\ ~reinit_triggered_ /\ Unread = {} /\ fq_name_reader_' = "end"
        /\ UNCHANGED <<mgrVars, init, callVars, amqpVars, bulk_sync_status_, column_name,
                       fq_name_cache_, partVars, dbVars>>
    BY Zenon DEF FQNameReaderNoMore
  <1>2. FQNameReaderRunning /\ FQNameReaderRunning'
    BY <1>1, Zenon DEF FQNameReaderRunning
  <1>3. TypeOK'
    BY <1>1 DEF TypeOK
  <1>4. RequestTypes'
    BY <1>1, Zenon DEF RequestTypes
  <1>5. NoStrandedRequest' /\ ReaderState'
    BY <1>1, Zenon DEF NoStrandedRequest, ReaderState, ReaderRunning, Empty
  <1>6. SyncAccounted'
    BY <1>1, Zenon DEF SyncAccounted
  <1>7. GenerationState'
    BY <1>1, Zenon DEF GenerationState
  <1>8. TaskState'
    BY <1>1, <1>2, ScanningIs, Zenon DEF TaskState, AmqpRunning, InitRunning, ReaderRunning
  <1>9. ClientState'
    BY <1>1, <1>2, ScanningIs, Zenon DEF ClientState, AmqpRunning
  <1>10. EndState'
    BY <1>1, Zenon DEF EndState, EndPending
  <1>11. \A v \in UUIDs : /\ RequestOf(v)' = RequestOf(v) /\ (Announced(v)' <=> Announced(v))
                          /\ QueueOf(v)' = QueueOf(v) /\ (Queued(v)' <=> Queued(v))
                          /\ (InStep(v)' <=> InStep(v)) /\ ~Unscanned(v)'
                          /\ (Unscanned(v) <=> v > column_name)
    <2>1. init # "db" /\ init' # "db"
      BY <1>1, <1>2, ScanningIs, Zenon
    <2> QED BY <1>1, <2>1, Zenon
               DEF RequestOf, Announced, QueueOf, Queued, InStep, Unnamed, Unscanned
  <1>12. DeletesFollowed'
    BY <1>1, <1>11, DeletesFrame, Zenon
  <1>13. CacheState'
    <2>1. \A v \in UUIDs : Unscanned(v) => InStep(v)'
      BY <1>1, <1>11, PassedOver, Zenon
    <2>2. amqp # "none"
      BY <1>1, <1>2, ScanningIs, Zenon
    <2> QED BY <1>1, <1>11, <2>1, <2>2, Zenon DEF CacheState
  <1> QED BY <1>3, <1>4, <1>5, <1>6, <1>7, <1>8, <1>9, <1>10, <1>12, <1>13, InvNext, Zenon

LEMMA FQNameReaderEndsInv ==
  ASSUME Premises, IInv, FQNameReaderEnds
  PROVE  IInv'
  <1> /\ TypeOK /\ NoStrandedRequest /\ SyncAccounted /\ RequestTypes /\ GenerationState
      /\ TaskState /\ ClientState /\ EndState /\ ReaderState /\ DeletesFollowed /\ CacheState
    BY InvParts, Zenon
  <1>1. /\ fq_name_reader_ = "end" /\ fq_name_reader_' = "none"
        /\ obj_process_queue_' = [p \in Partitions |-> Append(obj_process_queue_[p], EndRequest)]
        /\ UNCHANGED <<mgrVars, init, callVars, amqpVars, bulk_sync_status_, column_name,
                       fq_name_cache_, uuid_read_set_, config_reader_, object_cache_map_, dbVars>>
    BY Zenon DEF FQNameReaderEnds, Enqueue, EndRequest
  <1>2. FQNameReaderRunning /\ ~FQNameReaderRunning'
    BY <1>1, Zenon DEF FQNameReaderRunning
  <1>3. \A p \in Partitions :
           LET q == obj_process_queue_[p] IN
           LET r == obj_process_queue_'[p] IN
           /\ r \in Seq(AllRequests)
           /\ DOMAIN r = 1 .. Len(q) + 1 /\ r[Len(q) + 1] = EndRequest
           /\ DOMAIN q = 1 .. Len(q) /\ Len(q) \in Nat
           /\ \A i \in DOMAIN q : i \in DOMAIN r /\ r[i] = q[i]
           /\ \A i \in DOMAIN r : i \in DOMAIN q \/ i = Len(q) + 1
    <2> SUFFICES ASSUME NEW p \in Partitions
                 PROVE  LET q == obj_process_queue_[p] IN
                        LET r == obj_process_queue_'[p] IN
                        /\ r \in Seq(AllRequests)
                        /\ DOMAIN r = 1 .. Len(q) + 1 /\ r[Len(q) + 1] = EndRequest
                        /\ DOMAIN q = 1 .. Len(q) /\ Len(q) \in Nat
                        /\ \A i \in DOMAIN q : i \in DOMAIN r /\ r[i] = q[i]
                        /\ \A i \in DOMAIN r : i \in DOMAIN q \/ i = Len(q) + 1
      BY Zenon
    <2>1. obj_process_queue_[p] \in Seq(AllRequests) /\ EndRequest \in AllRequests
      BY QueueIs, RequestIs, Zenon
    <2>2. obj_process_queue_'[p] = Append(obj_process_queue_[p], EndRequest)
      BY <1>1, Zenon
    <2> QED BY <2>1, <2>2, AppendIs
  <1>4. obj_process_queue_' \in [Partitions -> Seq(AllRequests)]
    BY <1>1, <1>3, Zenon
  <1>5. RequestTypes'
    <2>1. \A p \in Partitions : \A v \in UUIDs : \A i \in DOMAIN obj_process_queue_'[p] :
             obj_process_queue_'[p][i].uuid = v => HashUUID[v] = p
      <3> SUFFICES ASSUME NEW p \in Partitions, NEW v \in UUIDs, NEW i \in DOMAIN obj_process_queue_'[p],
                          obj_process_queue_'[p][i].uuid = v
                   PROVE  HashUUID[v] = p
        BY Zenon
      <3>1. EndRequest.uuid # v
        BY RequestIs, KeysNat, Zenon
      <3>2. i \in DOMAIN obj_process_queue_[p] /\ obj_process_queue_[p][i].uuid = v
        BY <1>3, <3>1, Zenon
      <3> QED BY <3>2, Zenon DEF RequestTypes
    <2> QED BY <1>1, <1>4, <2>1, Zenon DEF RequestTypes, AllRequests
  <1>6. TypeOK'
    <2>1. obj_process_queue_' \in [Partitions -> Seq(Requests)]
      <3>1. AllRequests \subseteq Requests
        BY RequestIs, Zenon
      <3> QED BY <1>4, <3>1
    <2> QED BY <1>1, <2>1 DEF TypeOK
  <1>7. NoStrandedRequest' /\ ReaderState'
    BY <1>1, Zenon DEF NoStrandedRequest, ReaderState, ReaderRunning, Empty
  <1>8. \A p \in Partitions : EndPending(p)'
    <2>1. EndRequest.oper = "EndOfConfig"
      BY RequestIs, Zenon
    <2> TAKE p \in Partitions
    <2>2. Len(obj_process_queue_[p]) + 1 \in DOMAIN obj_process_queue_'[p]
          /\ obj_process_queue_'[p][Len(obj_process_queue_[p]) + 1] = EndRequest
      BY <1>3
    <2> QED BY <2>1, <2>2, Zenon DEF EndPending
  <1>9. SyncAccounted'
    <2>1. {p \in Partitions : EndPending(p)'} = Partitions
      BY <1>8, Zenon
    <2> QED BY <1>1, <2>1, Zenon DEF SyncAccounted
  <1>10. GenerationState'
    BY <1>1, Zenon DEF GenerationState
  <1>11. TaskState'
    BY <1>1, <1>2, ScanningIs, Zenon DEF TaskState, AmqpRunning, InitRunning, ReaderRunning
  <1>12. ClientState'
    BY <1>1, <1>2, ScanningIs, Zenon DEF ClientState, AmqpRunning
  <1>13. EndState'
    <2> SUFFICES ASSUME ~reinit_triggered_, NEW p \in Partitions, NEW i \in DOMAIN obj_process_queue_'[p],
                        obj_process_queue_'[p][i].oper = "EndOfConfig"
                 PROVE  /\ uuid_read_set_'[p][EndUUID] = "none"
                        /\ \A j \in DOMAIN obj_process_queue_'[p] :
                              obj_process_queue_'[p][j].oper = "EndOfConfig" => j = i
      BY <1>1, Zenon DEF EndState
    <2>1. ~EndPending(p)
      BY <1>1, Zenon DEF EndState
    <2>2. \A j \in DOMAIN obj_process_queue_'[p] :
             obj_process_queue_'[p][j].oper = "EndOfConfig" => j = Len(obj_process_queue_[p]) + 1
      BY <1>3, <2>1, Zenon DEF EndPending
    <2> QED BY <1>1, <2>1, <2>2, Zenon DEF EndPending
  <1>14. \A v \in UUIDs : /\ RequestOf(v)' = RequestOf(v) /\ (Announced(v)' <=> Announced(v))
                          /\ (InStep(v)' <=> InStep(v)) /\ ~Unscanned(v)' /\ ~Unscanned(v)
    <2>1. init # "db" /\ init' # "db"
      BY <1>1, <1>2, ScanningIs, Zenon
    <2> QED BY <1>1, <2>1, Zenon DEF RequestOf, Announced, InStep, Unnamed, Unscanned
  <1>15. \A v \in UUIDs : /\ (Queued(v)' <=> Queued(v))
                          /\ \A i \in DOMAIN QueueOf(v) : i \in DOMAIN QueueOf(v)' /\ QueueOf(v)'[i] = QueueOf(v)[i]
                          /\ \A i \in DOMAIN QueueOf(v)' : i \in DOMAIN QueueOf(v) \/ QueueOf(v)'[i] = EndRequest
    <2> TAKE v \in UUIDs
    <2>1. HashUUID[v] \in Partitions
      BY QueueIs, Zenon
    <2>2. EndRequest.uuid # v
      BY RequestIs, KeysNat, Zenon
    <2>3. /\ \A i \in DOMAIN QueueOf(v) : i \in DOMAIN QueueOf(v)' /\ QueueOf(v)'[i] = QueueOf(v)[i]
          /\ \A i \in DOMAIN QueueOf(v)' : i \in DOMAIN QueueOf(v) \/ QueueOf(v)'[i] = EndRequest
      BY <1>3, <2>1, Zenon DEF QueueOf
    <2> QED BY <2>2, <2>3, Zenon DEF Queued
  <1>16. CacheState'
    BY <1>1, <1>14, <1>15, ZenonT(60) DEF CacheState
  <1>17. DeletesFollowed'
    <2>1. ASSUME ~reinit_triggered_, NEW v \in UUIDs, RequestOf(v)' = "DELETE"
          PROVE  db'[v] = 0 \/ Announced(v)' \/ Queued(v)'
      <3>1. db[v] = 0 \/ Announced(v) \/ Queued(v)
        BY <1>1, <1>14, <2>1, Zenon DEF DeletesFollowed
      <3> QED BY <1>1, <1>14, <1>15, <3>1, Zenon
    <2>2. ASSUME ~reinit_triggered_, NEW v \in UUIDs, NEW i \in DOMAIN QueueOf(v)', QueueOf(v)'[i].uuid = v,
                 QueueOf(v)'[i].oper = "DELETE"
          PROVE  \/ db'[v] = 0 \/ Announced(v)'
                 \/ \E j \in DOMAIN QueueOf(v)' : j > i /\ QueueOf(v)'[j].uuid = v
      <3>1. i \in DOMAIN QueueOf(v)
        BY <1>15, <2>2, RequestIs, Zenon
      <3>2. QueueOf(v)'[i] = QueueOf(v)[i]
        BY <1>15, <3>1, ZenonT(60)
      <3>3. \/ db[v] = 0 \/ Announced(v)
            \/ \E j \in DOMAIN QueueOf(v) : j > i /\ QueueOf(v)[j].uuid = v
        BY <1>1, <2>2, <3>1, <3>2 DEF DeletesFollowed
      <3> QED BY <1>1, <1>14, <1>15, <3>3, Zenon
    <2> QED BY <1>1, <2>1, <2>2 DEF DeletesFollowed
  <1> QED BY <1>5, <1>6, <1>7, <1>9, <1>10, <1>11, <1>12, <1>13, <1>16, <1>17, InvNext, Zenon

LEMMA FQNameTaskInv ==
  ASSUME Premises, IInv, FQNameTask
  PROVE  IInv'
  BY FQNameReaderStartInv, FQNameReaderAbortsInv, FQNameReaderInv, FQNameReaderNoMoreInv,
     FQNameReaderEndsInv, Zenon DEF FQNameTask

-----------------------------------------------------------------------------
(* The partitions.                                                         *)

LEMMA NotFreshIs ==
  ASSUME IInv, ~Fresh
  PROVE  init \notin {"start", "connect", "db"} /\ (~reinit_triggered_ => amqp # "none")
  <1> /\ ClientState
    BY InvParts, Zenon
  <1> QED BY Zenon DEF ClientState

\* A step of a partition that is not the end of the bulk sync.
LEMMA PartitionStep ==
  ASSUME Premises, IInv, ~Fresh, UNCHANGED <<others, amqp, bulk_sync_status_,
  end_of_rib_computed_>>,
         \A p \in Partitions : ReaderRunning(p)' => ReaderRunning(p) \/ (~InitRunning /\ ~FQNameReaderRunning),
         ~reinit_triggered_ => \A p \in Partitions : EndPending(p)' <=> EndPending(p),
         TypeOK', NoStrandedRequest', ReaderState', RequestTypes', EndState', DeletesFollowed', CacheState'
  PROVE  IInv'
  <1> /\ SyncAccounted /\ GenerationState /\ TaskState /\ ClientState
    BY InvParts, Zenon
  <1>1. SyncAccounted'
    <2>1. ~reinit_triggered_ => {p \in Partitions : EndPending(p)'} = {p \in Partitions : EndPending(p)}
      BY Zenon
    <2> QED BY <2>1, Zenon DEF SyncAccounted, others
  <1>2. GenerationState'
    BY Zenon DEF GenerationState, others
  <1>3. TaskState'
    BY Zenon DEF TaskState, AmqpRunning, InitRunning, FQNameReaderRunning, ReaderRunning, others
  <1>4. ClientState'
    BY NotFreshIs, Zenon DEF ClientState, AmqpRunning, others
  <1> QED BY <1>1, <1>2, <1>3, <1>4, InvNext, Zenon

LEMMA ReadersType ==
  ASSUME IInv
  PROVE  config_reader_ \in [Partitions -> Readers] /\ \A p \in Partitions : config_reader_[p] \in Readers
  <1> /\ TypeOK
    BY InvParts, Zenon
  <1> QED BY Zenon DEF TypeOK, Readers

\* A step that changes nothing but the state of a reader.
LEMMA ReaderStep ==
  ASSUME Premises, IInv, NEW p \in Partitions, config_reader_[p].pc # "none",
         UNCHANGED <<others, amqp, bulk_sync_status_, end_of_rib_computed_, fq_name_cache_,
                     obj_process_queue_, uuid_read_set_, object_cache_map_>>,
         NEW r \in Readers, config_reader_' = [config_reader_ EXCEPT ![p] = r],
         r.pc = "scan" => ReaderRunning(p) \/ (~InitRunning /\ ~FQNameReaderRunning),
         r.pc # "scan" => r.it = -1,
         \A k \in Keys : k \in r.bunch <=> uuid_read_set_[p][k] # "none" /\ k <= r.it,
         Empty(uuid_read_set_[p]) \/ r.pc # "none"
  PROVE  IInv'
  <1> /\ TypeOK /\ NoStrandedRequest /\ RequestTypes /\ EndState /\ ReaderState
      /\ DeletesFollowed /\ CacheState
    BY InvParts, Zenon
  <1>1. config_reader_' \in [Partitions -> Readers] /\ config_reader_'[p] = r
        /\ \A q \in Partitions : q # p => config_reader_'[q] = config_reader_[q]
    BY ReadersType, Zenon
  <1>2. TypeOK'
    BY <1>1 DEF TypeOK, Readers, others
  <1>3. NoStrandedRequest'
    BY <1>1, Zenon DEF NoStrandedRequest, Empty
  <1>4. ReaderState'
    BY <1>1, Zenon DEF ReaderState, ReaderRunning
  <1>5. RequestTypes'
    BY Zenon DEF RequestTypes, others
  <1>6. \A q \in Partitions : EndPending(q)' <=> EndPending(q)
    BY Zenon DEF EndPending
  <1>7. EndState'
    BY <1>6, Zenon DEF EndState, others
  <1>8. \A v \in UUIDs : /\ RequestOf(v)' = RequestOf(v) /\ (Announced(v)' <=> Announced(v))
                         /\ QueueOf(v)' = QueueOf(v) /\ (Queued(v)' <=> Queued(v))
                         /\ (InStep(v)' <=> InStep(v)) /\ (Unscanned(v)' <=> Unscanned(v))
    BY Zenon DEF RequestOf, Announced, QueueOf, Queued, InStep, Unnamed, Unscanned, others
  <1>9. DeletesFollowed'
    BY <1>8, DeletesFrame, Zenon DEF others
  <1>10. CacheState'
    BY <1>8, Zenon DEF CacheState, others
  <1>11. ~Fresh
    BY Zenon DEF Fresh
  <1>12. \A q \in Partitions : ReaderRunning(q)' => ReaderRunning(q) \/ (~InitRunning /\ ~FQNameReaderRunning)
    BY <1>1, Zenon DEF ReaderRunning
  <1> QED BY <1>2, <1>3, <1>4, <1>5, <1>6, <1>7, <1>9, <1>10, <1>11, <1>12, PartitionStep, Zenon

\* The state of a reader that yields or is done.
LEMMA IdleReader ==
  ASSUME Premises, NEW pc \in {"none", "queued"}
  PROVE  LET r == [NotRunning EXCEPT !.pc = pc] IN
         r \in Readers /\ r.pc = pc /\ r.it = -1 /\ r.bunch = {} /\ \A k \in Keys : ~(k <= r.it)
  <1>1. \A k \in Keys : ~(k <= -1)
    BY KeysNat
  <1> QED BY <1>1, Zenon DEF NotRunning, Readers

LEMMA ConfigReaderStartInv ==
  ASSUME Premises, IInv, NEW p \in Partitions, ConfigReaderStart(p)
  PROVE  IInv'
  <1> /\ ReaderState
    BY InvParts, Zenon
  <1> DEFINE r == [config_reader_[p] EXCEPT !.pc = "scan"]
  <1>1. r \in Readers /\ r.pc = "scan" /\ r.it = config_reader_[p].it /\ r.bunch = config_reader_[p].bunch
    BY ReadersType, Zenon DEF Readers
  <1>2. config_reader_' = [config_reader_ EXCEPT ![p] = r]
    BY Zenon DEF ConfigReaderStart
  <1>3. config_reader_[p].pc # "none" /\ ~InitRunning /\ ~FQNameReaderRunning
    BY Zenon DEF ConfigReaderStart, ReaderMayStart
  <1>4. UNCHANGED <<others, amqp, bulk_sync_status_, end_of_rib_computed_, fq_name_cache_,
                    obj_process_queue_, uuid_read_set_, object_cache_map_>>
    BY Zenon DEF ConfigReaderStart, others
  <1>5. \A k \in Keys : k \in r.bunch <=> uuid_read_set_[p][k] # "none" /\ k <= r.it
    BY <1>1, Zenon DEF ReaderState
  <1> HIDE DEF r
  <1> QED BY <1>1, <1>2, <1>3, <1>4, <1>5, ReaderStep, Zenon

\* The first request that the reader has not passed.
LEMMA PendingIs ==
  ASSUME Premises, IInv, NEW p \in Partitions
  PROVE  /\ Pending(p) \subseteq Keys /\ Pending(p) \subseteq Nat
         /\ config_reader_[p].it \in Int
         /\ Pending(p) # {} => /\ Min(Pending(p)) \in Pending(p) /\ Min(Pending(p)) \in Keys
                               /\ uuid_read_set_[p][Min(Pending(p))] # "none"
                               /\ Min(Pending(p)) > config_reader_[p].it /\ Min(Pending(p)) \in Nat
                               /\ \A k \in Keys : uuid_read_set_[p][k] # "none" /\ k < Min(Pending(p)) =>
                                     k <= config_reader_[p].it
         /\ Pending(p) = {} => \A k \in Keys : uuid_read_set_[p][k] # "none" => k <= config_reader_[p].it
  <1>1. Pending(p) \subseteq Keys /\ Pending(p) \subseteq Nat
    BY KeysNat, Zenon DEF Pending
  <1>2. config_reader_[p].it \in Int /\ Keys \subseteq Nat
    BY ReadersType, KeysNat, ReaderInt, Zenon
  <1> DEFINE it == config_reader_[p].it
  <1>a. \A k \in Keys : k > it \/ k <= it
    BY <1>2
  <1>b. \A k \in Pending(p) : k \in Keys /\ uuid_read_set_[p][k] # "none" /\ k > it
    BY Zenon DEF Pending
  <1>c. \A k \in Keys : uuid_read_set_[p][k] # "none" /\ k > it => k \in Pending(p)
    BY Zenon DEF Pending
  <1> HIDE DEF it
  <1>3. Pending(p) = {} => \A k \in Keys : uuid_read_set_[p][k] # "none" => k <= config_reader_[p].it
    BY <1>a, <1>c, Zenon DEF it
  <1>4. ASSUME Pending(p) # {}
        PROVE  /\ Min(Pending(p)) \in Pending(p) /\ Min(Pending(p)) \in Keys
               /\ uuid_read_set_[p][Min(Pending(p))] # "none"
               /\ Min(Pending(p)) > config_reader_[p].it /\ Min(Pending(p)) \in Nat
               /\ \A k \in Keys : uuid_read_set_[p][k] # "none" /\ k < Min(Pending(p)) =>
                     k <= config_reader_[p].it
    <2>1. Min(Pending(p)) \in Pending(p) /\ Min(Pending(p)) \in Nat /\ \A k \in Pending(p) : Min(Pending(p)) <= k
      BY <1>1, <1>4, MinIs, Zenon
    <2>2. \A k \in Keys : k < Min(Pending(p)) => k \notin Pending(p)
      BY <1>2, <2>1
    <2>3. \A k \in Keys : uuid_read_set_[p][k] # "none" /\ k < Min(Pending(p)) => k <= config_reader_[p].it
      BY <1>a, <1>c, <2>2, Zenon DEF it
    <2> QED BY <1>b, <2>1, <2>3, Zenon DEF it
  <1> QED BY <1>1, <1>2, <1>3, <1>4, Zenon

LEMMA BunchIs ==
  ASSUME Premises, IInv, NEW p \in Partitions
  PROVE  /\ Bunch(p) \subseteq UUIDs /\ Cardinality(Bunch(p)) \in Nat
         /\ \A k \in Bunch(p) : uuid_read_set_[p][k] # "none" /\ HashUUID[k] = p
         /\ Pending(p) = {} => Bunch(p) = config_reader_[p].bunch
         /\ AtRequest(p, Reads) => Bunch(p) = config_reader_[p].bunch \cup {Min(Pending(p))}
  <1> /\ RequestTypes /\ ReaderState
    BY InvParts, Zenon
  <1>1. config_reader_[p].bunch \subseteq UUIDs
    BY ReadersType, Zenon DEF Readers
  <1>2. AtRequest(p, Reads) => Min(Pending(p)) \in UUIDs /\ uuid_read_set_[p][Min(Pending(p))] # "none"
    BY PendingIs, KeysNat, Zenon DEF AtRequest, Reads, RequestTypes
  <1>3. Bunch(p) \subseteq UUIDs
    BY <1>1, <1>2, Zenon DEF Bunch
  <1>4. IsFiniteSet(Bunch(p))
    <2>1. IsFiniteSet(UUIDs)
      BY Zenon DEF Premises, Configured
    <2> QED BY <1>3, <2>1, SubsetFinite, Zenon
  <1>5. \A k \in config_reader_[p].bunch : uuid_read_set_[p][k] # "none"
    BY <1>1, KeysNat, Zenon DEF ReaderState
  <1>6. \A k \in Bunch(p) : uuid_read_set_[p][k] # "none"
    BY <1>2, <1>5, Zenon DEF Bunch
  <1>7. \A k \in Bunch(p) : HashUUID[k] = p
    BY <1>3, <1>6, Zenon DEF RequestTypes
  <1> QED BY <1>3, <1>4, <1>6, <1>7, Count, Zenon DEF Bunch, AtRequest

\* The reader moves its iterator over the request it has handled or bunched.
LEMMA MinNext ==
  ASSUME Premises, IInv, NEW p \in Partitions, Pending(p) # {}, NEW k \in Keys
  PROVE  uuid_read_set_[p][k] # "none" /\ k <= Min(Pending(p)) <=>
            k \in config_reader_[p].bunch \/ k = Min(Pending(p))
  <1> /\ ReaderState
    BY InvParts, Zenon
  <1> DEFINE m == Min(Pending(p))
             it == config_reader_[p].it
  <1>1. m \in Nat /\ it \in Int /\ it < m /\ uuid_read_set_[p][m] # "none" /\ k \in Nat /\ m \in Keys
    BY PendingIs, KeysNat, Zenon
  <1>2. k \in config_reader_[p].bunch <=> uuid_read_set_[p][k] # "none" /\ k <= it
    BY Zenon DEF ReaderState
  <1>3. uuid_read_set_[p][k] # "none" /\ k < m => k <= it
    BY PendingIs, Zenon
  <1>4. k <= m <=> k < m \/ k = m
    BY <1>1
  <1>5. k <= it => k < m
    BY <1>1
  <1> HIDE DEF m, it
  <1>6. uuid_read_set_[p][k] # "none" /\ k <= m <=> k \in config_reader_[p].bunch \/ k = m
    BY <1>1, <1>2, <1>3, <1>4, <1>5, Zenon
  <1> QED BY <1>6, Zenon DEF m

LEMMA ConfigReaderBunchesInv ==
  ASSUME Premises, IInv, NEW p \in Partitions, ConfigReaderBunches(p)
  PROVE  IInv'
  <1> DEFINE r == [config_reader_[p] EXCEPT !.it = Min(Pending(p)), !.bunch = Bunch(p)]
  <1>1. AtRequest(p, Reads) /\ ReaderRunning(p) /\ Pending(p) # {} /\ config_reader_[p].pc # "none"
    BY Zenon DEF ConfigReaderBunches, AtRequest, ReaderRunning
  <1>2. Min(Pending(p)) \in Keys /\ Bunch(p) \subseteq UUIDs
    BY <1>1, PendingIs, BunchIs, Zenon
  <1>3. r \in Readers /\ r.pc = config_reader_[p].pc /\ r.it = Min(Pending(p)) /\ r.bunch = Bunch(p)
    BY <1>2, ReadersType, Zenon DEF Readers
  <1>4. config_reader_' = [config_reader_ EXCEPT ![p] = r]
    BY Zenon DEF ConfigReaderBunches
  <1>5. UNCHANGED <<others, amqp, bulk_sync_status_, end_of_rib_computed_, fq_name_cache_,
                    obj_process_queue_, uuid_read_set_, object_cache_map_>>
    BY Zenon DEF ConfigReaderBunches, others
  <1>6. Bunch(p) = config_reader_[p].bunch \cup {Min(Pending(p))}
    BY <1>1, BunchIs, Zenon
  <1>7. \A k \in Keys : k \in r.bunch <=> uuid_read_set_[p][k] # "none" /\ k <= r.it
    BY <1>1, <1>3, <1>6, MinNext
  <1>8. r.pc = "scan"
    BY <1>1, <1>3, Zenon DEF ReaderRunning
  <1> HIDE DEF r
  <1> QED BY <1>1, <1>3, <1>4, <1>5, <1>7, <1>8, ReaderStep, Zenon

LEMMA ConfigReaderFailsInv ==
  ASSUME Premises, IInv, NEW p \in Partitions, ConfigReaderFails(p)
  PROVE  IInv'
  <1> DEFINE r == [NotRunning EXCEPT !.pc = "queued"]
  <1>1. r \in Readers /\ r.pc = "queued" /\ r.it = -1 /\ r.bunch = {} /\ \A k \in Keys : ~(k <= r.it)
    BY IdleReader, Zenon
  <1>2. config_reader_[p].pc # "none" /\ config_reader_' = [config_reader_ EXCEPT ![p] = r]
    BY Zenon DEF ConfigReaderFails, ReadDue, AtRequest, ReaderRunning, Yield
  <1>3. UNCHANGED <<others, amqp, bulk_sync_status_, end_of_rib_computed_, fq_name_cache_,
                    obj_process_queue_, uuid_read_set_, object_cache_map_>>
    BY Zenon DEF ConfigReaderFails, others
  <1> HIDE DEF r
  <1> QED BY <1>1, <1>2, <1>3, ReaderStep, Zenon

LEMMA ConfigReaderReturnsInv ==
  ASSUME Premises, IInv, NEW p \in Partitions, ConfigReaderReturns(p)
  PROVE  IInv'
  <1> /\ ReaderState
    BY InvParts, Zenon
  <1> DEFINE r == [NotRunning EXCEPT !.pc = "none"]
  <1>1. r \in Readers /\ r.pc = "none" /\ r.it = -1 /\ r.bunch = {} /\ \A k \in Keys : ~(k <= r.it)
    BY IdleReader, Zenon
  <1>2. r = NotRunning
    BY DEF NotRunning
  <1>3. config_reader_[p].pc # "none" /\ config_reader_' = [config_reader_ EXCEPT ![p] = r]
    BY <1>2, Zenon DEF ConfigReaderReturns, ReaderRunning, Done
  <1>4. UNCHANGED <<others, amqp, bulk_sync_status_, end_of_rib_computed_, fq_name_cache_,
                    obj_process_queue_, uuid_read_set_, object_cache_map_>>
    BY Zenon DEF ConfigReaderReturns, others
  <1>5. Empty(uuid_read_set_[p])
    <2>1. Pending(p) = {} /\ config_reader_[p].bunch = {}
      BY BunchIs, Zenon DEF ConfigReaderReturns
    <2> QED BY <2>1, PendingIs, Zenon DEF Empty, ReaderState
  <1> HIDE DEF r
  <1> QED BY <1>1, <1>3, <1>4, <1>5, ReaderStep, Zenon

\* Requests that are done are removed from the set.
Remove(p, S) == uuid_read_set_' = [uuid_read_set_ EXCEPT ![p] = Without(@, S)]

LEMMA RemoveIs ==
  ASSUME Premises, IInv, NEW p \in Partitions, NEW S, Remove(p, S)
  PROVE  /\ uuid_read_set_' \in [Partitions -> [Keys -> Opers]]
         /\ \A q \in Partitions : q # p => uuid_read_set_'[q] = uuid_read_set_[q]
         /\ \A k \in Keys : uuid_read_set_'[p][k] = IF k \in S THEN "none" ELSE uuid_read_set_[p][k]
         /\ \A v \in UUIDs : /\ RequestOf(v)' \in {RequestOf(v), "none"}
                             /\ HashUUID[v] # p \/ v \notin S => RequestOf(v)' = RequestOf(v)
  <1> /\ TypeOK
    BY InvParts, Zenon
  <1>1. uuid_read_set_ \in [Partitions -> [Keys -> Opers]]
    BY Zenon DEF TypeOK
  <1>2. Without(uuid_read_set_[p], S) \in [Keys -> Opers]
    BY <1>1, Zenon DEF Without, Opers
  <1>3. uuid_read_set_' \in [Partitions -> [Keys -> Opers]] /\ uuid_read_set_'[p] = Without(uuid_read_set_[p], S)
        /\ \A q \in Partitions : q # p => uuid_read_set_'[q] = uuid_read_set_[q]
    BY <1>1, <1>2, Zenon DEF Remove
  <1>4. \A k \in Keys : uuid_read_set_'[p][k] = IF k \in S THEN "none" ELSE uuid_read_set_[p][k]
    BY <1>3, Zenon DEF Without
  <1>5. \A v \in UUIDs : v \in Keys /\ HashUUID[v] \in Partitions
    BY KeysNat, Zenon DEF Premises, Configured
  <1> QED BY <1>3, <1>4, <1>5, Zenon DEF RequestOf

\* What a removal and the new state of the reader keep.
LEMMA RemoveParts ==
  ASSUME Premises, IInv, NEW p \in Partitions, NEW S, Remove(p, S),
         UNCHANGED <<others, obj_process_queue_>>, amqp' = "none" => amqp = "none", amqp' # "none" => amqp # "none",
         NEW r \in Readers, config_reader_' = [config_reader_ EXCEPT ![p] = r],
         r.pc # "scan" => r.it = -1,
         \A k \in Keys : k \in r.bunch <=> (k \notin S /\ uuid_read_set_[p][k] # "none") /\ k <= r.it,
         r.pc = "none" => \A k \in Keys : k \in S \/ uuid_read_set_[p][k] = "none",
         ~reinit_triggered_ => \A v \in UUIDs :
            /\ InStep(v) => InStep(v)' \/ Queued(v) \/ Announced(v)
            /\ v \in S /\ RequestOf(v) # "none" => InStep(v)' \/ Queued(v) \/ Announced(v)
            /\ Unscanned(v) => object_cache_map_'[v] = 0
  PROVE  /\ RequestTypes' /\ NoStrandedRequest' /\ ReaderState' /\ EndState' /\ DeletesFollowed' /\ CacheState'
         /\ config_reader_' \in [Partitions -> Readers] /\ config_reader_'[p] = r
         /\ \A q \in Partitions : q # p => config_reader_'[q] = config_reader_[q]
         /\ EndUUID \notin S => \A q \in Partitions : EndPending(q)' <=> EndPending(q)
         /\ \A q \in Partitions : q # p => (EndPending(q)' <=> EndPending(q))
  <1> /\ NoStrandedRequest /\ RequestTypes /\ EndState /\ ReaderState /\ DeletesFollowed
      /\ CacheState
    BY InvParts, ZenonT(60)
  <1>0. /\ \A q \in Partitions : q # p => uuid_read_set_'[q] = uuid_read_set_[q]
        /\ \A k \in Keys : /\ k \in S => uuid_read_set_'[p][k] = "none"
                           /\ k \notin S => uuid_read_set_'[p][k] = uuid_read_set_[p][k]
    BY RemoveIs, Zenon
  <1>1. config_reader_' \in [Partitions -> Readers] /\ config_reader_'[p] = r
        /\ \A q \in Partitions : q # p => config_reader_'[q] = config_reader_[q]
    BY ReadersType, Zenon
  <1>2. RequestTypes'
    <2>1. /\ messages \in Seq(Changes) /\ publishing \in Changes \cup {NoRequest}
          /\ obj_process_queue_ \in [Partitions -> Seq(ObjectRequests \cup {EndRequest})]
      BY ZenonT(60) DEF RequestTypes
    <2>2. \A q \in Partitions : \A k \in Keys : uuid_read_set_'[q][k] \in {uuid_read_set_[q][k], "none"}
      BY RemoveIs
    <2>3. EndUUID \in Keys /\ UUIDs \subseteq Keys
      BY KeysNat, Zenon
    <2>4. ASSUME NEW q \in Partitions
          PROVE  /\ uuid_read_set_'[q][EndUUID] \in {"none", "EndOfConfig"}
                 /\ \A u \in UUIDs :
                       /\ uuid_read_set_'[q][u] # "EndOfConfig"
                       /\ uuid_read_set_'[q][u] # "none" => HashUUID[u] = q
                       /\ \A i \in DOMAIN obj_process_queue_[q] :
                             obj_process_queue_[q][i].uuid = u => HashUUID[u] = q
      <3>1. /\ uuid_read_set_[q][EndUUID] \in {"none", "EndOfConfig"}
            /\ \A u \in UUIDs :
                  /\ uuid_read_set_[q][u] # "EndOfConfig"
                  /\ uuid_read_set_[q][u] # "none" => HashUUID[u] = q
                  /\ \A i \in DOMAIN obj_process_queue_[q] :
                        obj_process_queue_[q][i].uuid = u => HashUUID[u] = q
        BY Zenon DEF RequestTypes
      <3>2. uuid_read_set_'[q][EndUUID] \in {"none", "EndOfConfig"}
        BY <2>2, <2>3, <3>1, ZenonT(60)
      <3>3. ASSUME NEW u \in UUIDs
            PROVE  uuid_read_set_'[q][u] # "EndOfConfig" /\ (uuid_read_set_'[q][u] # "none" => HashUUID[u] = q)
        <4>1. uuid_read_set_'[q][u] \in {uuid_read_set_[q][u], "none"}
          BY <2>2, <2>3, Zenon
        <4>2. uuid_read_set_[q][u] # "EndOfConfig" /\ (uuid_read_set_[q][u] # "none" => HashUUID[u] = q)
          BY <3>1, Zenon
        <4> QED BY <4>1, <4>2
      <3> QED BY <3>1, <3>2, <3>3, Zenon
    <2> QED BY <2>1, <2>4, Zenon DEF RequestTypes, others
  <1>3. NoStrandedRequest'
    <2>1. r.pc = "none" => Empty(uuid_read_set_'[p])
      BY <1>0, Zenon DEF Empty
    <2>2. \A q \in Partitions : q # p => Empty(uuid_read_set_'[q]) \/ config_reader_'[q].pc # "none"
      BY <1>0, <1>1, Zenon DEF NoStrandedRequest
    <2> QED BY <1>1, <2>1, <2>2, Zenon DEF NoStrandedRequest
  <1>4. ReaderState'
    <2>1. \A k \in Keys : uuid_read_set_'[p][k] # "none" <=> (k \notin S /\ uuid_read_set_[p][k] # "none")
      BY <1>0, Zenon
    <2>2. ASSUME NEW q \in Partitions
          PROVE  /\ ~ReaderRunning(q)' => config_reader_'[q].it = -1
                 /\ \A k \in Keys : k \in config_reader_'[q].bunch <=>
                       uuid_read_set_'[q][k] # "none" /\ k <= config_reader_'[q].it
      <3>1. CASE q = p
        BY <1>1, <2>1, <3>1, Zenon DEF ReaderRunning
      <3>2. CASE q # p
        <4>1. uuid_read_set_'[q] = uuid_read_set_[q] /\ config_reader_'[q] = config_reader_[q]
          BY <1>0, <1>1, <3>2, Zenon
        <4>2. ReaderRunning(q)' <=> ReaderRunning(q)
          BY <4>1, Zenon DEF ReaderRunning
        <4> QED BY <4>1, <4>2, Zenon DEF ReaderState
      <3> QED BY <3>1, <3>2, Zenon
    <2> QED BY <2>2, Zenon DEF ReaderState
  <1>5. \A q \in Partitions : /\ EndPending(q)' => EndPending(q)
                              /\ q # p \/ EndUUID \notin S => (EndPending(q) => EndPending(q)')
    <2>1. \A q \in Partitions :
             /\ uuid_read_set_[q][EndUUID] = "none" => uuid_read_set_'[q][EndUUID] = "none"
             /\ q # p \/ EndUUID \notin S => uuid_read_set_'[q][EndUUID] = uuid_read_set_[q][EndUUID]
      BY <1>0, KeysNat, Zenon
    <2> QED BY <2>1, Zenon DEF EndPending
  <1>6. EndState'
    <2>1. \A q \in Partitions : uuid_read_set_[q][EndUUID] = "none" => uuid_read_set_'[q][EndUUID] = "none"
      BY <1>0, KeysNat, Zenon
    <2> QED BY <1>5, <2>1, Zenon DEF EndState, others
  <1>7. \A v \in UUIDs : /\ QueueOf(v)' = QueueOf(v) /\ (Queued(v)' <=> Queued(v))
                         /\ (Announced(v)' <=> Announced(v)) /\ (Unscanned(v)' <=> Unscanned(v))
    BY Zenon DEF QueueOf, Queued, Announced, Unscanned, others
  <1>8. \A v \in UUIDs : RequestOf(v)' = "DELETE" => RequestOf(v) = "DELETE"
    BY RemoveIs, Zenon
  <1>9. DeletesFollowed'
    BY <1>7, <1>8, DeletesFrame, Zenon DEF others
  <1>10. CacheState'
    <2> SUFFICES ASSUME ~reinit_triggered_, NEW v \in UUIDs
                 PROVE  /\ Unscanned(v)' => object_cache_map_'[v] = 0 /\ RequestOf(v)' = "none" /\ ~Queued(v)'
                        /\ amqp' # "none" =>
                              Unscanned(v)' \/ RequestOf(v)' # "none" \/ Queued(v)' \/ Announced(v)' \/ InStep(v)'
      BY Zenon DEF CacheState, others
    <2>1. /\ Unscanned(v) => RequestOf(v) = "none" /\ ~Queued(v)
          /\ amqp # "none" => Unscanned(v) \/ RequestOf(v) # "none" \/ Queued(v) \/ Announced(v) \/ InStep(v)
      BY Zenon DEF CacheState
    <2>2. RequestOf(v)' # RequestOf(v) => v \in S
      BY RemoveIs, Zenon
    <2>3. RequestOf(v) = "none" => RequestOf(v)' = "none"
      BY RemoveIs, Zenon
    <2> QED BY <1>7, <2>1, <2>2, <2>3, Zenon
  <1> QED BY <1>1, <1>2, <1>3, <1>4, <1>5, <1>6, <1>9, <1>10, Zenon

\* A step of a reader that removes requests, the end of the bulk sync excepted.
LEMMA RemoveStep ==
  ASSUME Premises, IInv, NEW p \in Partitions, NEW S, Remove(p, S), ReaderRunning(p),
         UNCHANGED <<others, amqp, bulk_sync_status_, end_of_rib_computed_, obj_process_queue_>>,
         object_cache_map_' \in [UUIDs -> Nat], fq_name_cache_' \in [UUIDs -> {"none", "present", "deleted"}],
         NEW r \in Readers, config_reader_' = [config_reader_ EXCEPT ![p] = r],
         r.pc # "scan" => r.it = -1,
         \A k \in Keys : k \in r.bunch <=> (k \notin S /\ uuid_read_set_[p][k] # "none") /\ k <= r.it,
         r.pc = "none" => \A k \in Keys : k \in S \/ uuid_read_set_[p][k] = "none",
         ~reinit_triggered_ => EndUUID \notin S /\ \A v \in UUIDs :
            /\ InStep(v) => InStep(v)' \/ Queued(v) \/ Announced(v)
            /\ v \in S /\ RequestOf(v) # "none" => InStep(v)' \/ Queued(v) \/ Announced(v)
            /\ Unscanned(v) => object_cache_map_'[v] = 0
  PROVE  IInv'
  <1> /\ TypeOK /\ NoStrandedRequest /\ RequestTypes /\ EndState /\ ReaderState
      /\ DeletesFollowed /\ CacheState
    BY InvParts, Zenon
  <1>1. /\ RequestTypes' /\ NoStrandedRequest' /\ ReaderState' /\ EndState' /\ DeletesFollowed' /\ CacheState'
        /\ config_reader_' \in [Partitions -> Readers] /\ config_reader_'[p] = r
        /\ \A q \in Partitions : q # p => config_reader_'[q] = config_reader_[q]
        /\ EndUUID \notin S => \A q \in Partitions : EndPending(q)' <=> EndPending(q)
    BY RemoveParts, ZenonT(30)
  <1>2. TypeOK'
    <2>1. uuid_read_set_' \in [Partitions -> [Keys -> Opers]]
      BY RemoveIs, Zenon
    <2>2. /\ bulk_sync_status_' \in 0 .. Cardinality(Partitions) /\ end_of_rib_computed_' \in BOOLEAN
          /\ obj_process_queue_' \in [Partitions -> Seq(Requests)]
      BY Zenon DEF TypeOK
    <2> QED BY <1>1, <2>1, <2>2, TypesFrame, Zenon
  <1>3. ~Fresh
    BY Zenon DEF Fresh, ReaderRunning
  <1>4. \A q \in Partitions : ReaderRunning(q)' => ReaderRunning(q)
    BY <1>1, Zenon DEF ReaderRunning
  <1> QED BY <1>1, <1>2, <1>3, <1>4, PartitionStep, Zenon

LEMMA ConfigReaderStopsInv ==
  ASSUME Premises, IInv, NEW p \in Partitions, ConfigReaderStops(p)
  PROVE  IInv'
  <1> /\ TypeOK
    BY InvParts, Zenon
  <1> DEFINE r == [NotRunning EXCEPT !.pc = "none"]
  <1>1. r \in Readers /\ r.pc = "none" /\ r.it = -1 /\ r.bunch = {} /\ \A k \in Keys : ~(k <= r.it)
    BY IdleReader, Zenon
  <1>2. r = NotRunning
    BY DEF NotRunning
  <1>3. /\ ReaderRunning(p) /\ reinit_triggered_ /\ config_reader_' = [config_reader_ EXCEPT ![p] = r]
        /\ Remove(p, Keys)
        /\ UNCHANGED <<others, amqp, bulk_sync_status_, end_of_rib_computed_, obj_process_queue_,
                       object_cache_map_, fq_name_cache_>>
    BY <1>2, Zenon DEF ConfigReaderStops, Done, Remove, others
  <1>4. object_cache_map_' \in [UUIDs -> Nat] /\ fq_name_cache_' \in [UUIDs -> {"none", "present", "deleted"}]
    BY <1>3, Zenon DEF TypeOK
  <1> HIDE DEF r
  <1> QED BY <1>1, <1>3, <1>4, RemoveStep, Zenon

\* The objects after they are read or deleted.
LEMMA ReadObjects ==
  ASSUME Premises, IInv, NEW S \in SUBSET UUIDs, ReadObjUUIDTable(S), db' = db
  PROVE  /\ object_cache_map_' \in [UUIDs -> Nat] /\ fq_name_cache_' \in [UUIDs -> {"none", "present", "deleted"}]
         /\ \A v \in S : InStep(v)'
         /\ \A v \in UUIDs : v \notin S => (InStep(v)' <=> InStep(v)) /\ object_cache_map_'[v] = object_cache_map_[v]
  <1> /\ TypeOK
    BY InvParts, Zenon
  <1>1. /\ object_cache_map_ \in [UUIDs -> Nat] /\ db \in [UUIDs -> Nat]
        /\ fq_name_cache_ \in [UUIDs -> {"none", "present", "deleted"}]
    BY Zenon DEF TypeOK
  <1> DEFINE stale == Erased({u \in S : db[u] = 0})
  <1>2. /\ object_cache_map_' = [u \in UUIDs |->
              IF u \in stale THEN 0
              ELSE IF u \in S /\ db[u] # 0 THEN db[u] ELSE object_cache_map_[u]]
        /\ fq_name_cache_' = [u \in UUIDs |-> IF u \in stale THEN "none" ELSE fq_name_cache_[u]]
    BY Zenon DEF ReadObjUUIDTable
  <1>3. \A u \in UUIDs : u \in stale <=> u \in S /\ db[u] = 0 /\ fq_name_cache_[u] # "none" /\ object_cache_map_[u] # 0
    BY Zenon DEF Erased
  <1> HIDE DEF stale
  <1>4. object_cache_map_' \in [UUIDs -> Nat] /\ fq_name_cache_' \in [UUIDs -> {"none", "present", "deleted"}]
    BY <1>1, <1>2, Zenon
  <1>5. \A v \in S : InStep(v)'
    BY <1>2, <1>3, Zenon DEF InStep, Unnamed
  <1>6. \A v \in UUIDs : v \notin S => (InStep(v)' <=> InStep(v)) /\ object_cache_map_'[v] = object_cache_map_[v]
    BY <1>2, <1>3, Zenon DEF InStep, Unnamed
  <1> QED BY <1>4, <1>5, <1>6, Zenon

LEMMA DeleteObject ==
  ASSUME Premises, IInv, NEW u \in UUIDs, HandleObjectDelete({u}), db' = db
  PROVE  /\ object_cache_map_' \in [UUIDs -> Nat] /\ fq_name_cache_' \in [UUIDs -> {"none", "present", "deleted"}]
         /\ db[u] = 0 => InStep(u)'
         /\ \A v \in UUIDs : v # u => (InStep(v)' <=> InStep(v))
         /\ \A v \in UUIDs : object_cache_map_[v] = 0 => object_cache_map_'[v] = 0
  <1> /\ TypeOK
    BY InvParts, Zenon
  <1>1. /\ object_cache_map_ \in [UUIDs -> Nat] /\ db \in [UUIDs -> Nat]
        /\ fq_name_cache_ \in [UUIDs -> {"none", "present", "deleted"}]
    BY Zenon DEF TypeOK
  <1>2. \A v \in UUIDs : v \in Erased({u}) <=> v = u /\ fq_name_cache_[u] # "none" /\ object_cache_map_[u] # 0
    BY Zenon DEF Erased
  <1>3. object_cache_map_' \in [UUIDs -> Nat] /\ fq_name_cache_' \in [UUIDs -> {"none", "present", "deleted"}]
    BY <1>1, Zenon DEF HandleObjectDelete
  <1>4. db[u] = 0 => InStep(u)'
    BY <1>2, Zenon DEF HandleObjectDelete, InStep, Unnamed
  <1>5. /\ \A v \in UUIDs : v # u => (InStep(v)' <=> InStep(v))
        /\ \A v \in UUIDs : object_cache_map_[v] = 0 => object_cache_map_'[v] = 0
    BY <1>2, Zenon DEF HandleObjectDelete, InStep, Unnamed
  <1> QED BY <1>3, <1>4, <1>5, Zenon

LEMMA ReaderMoves ==
  ASSUME IInv, NEW p \in Partitions, NEW k \in Keys, NEW b \in SUBSET UUIDs, NEW n \in Nat
  PROVE  /\ [config_reader_[p] EXCEPT !.it = k, !.handled = @ + 1] \in Readers
         /\ [config_reader_[p] EXCEPT !.it = k, !.bunch = b, !.handled = @ + n] \in Readers
  <1>1. config_reader_[p] \in Readers
    BY ReadersType, Zenon
  <1>2. /\ config_reader_[p].handled + 1 \in Nat
        /\ config_reader_[p].handled + n \in Nat
    BY <1>1 DEF Readers
  <1> DEFINE r == config_reader_[p]
  <1> HIDE DEF r
  <1>3. ASSUME r \in Readers, NEW h \in Nat, NEW c \in SUBSET UUIDs
        PROVE  /\ [r EXCEPT !.it = k, !.handled = h] \in Readers
               /\ [r EXCEPT !.it = k, !.bunch = c, !.handled = h] \in Readers
    BY <1>3, Zenon DEF Readers
  <1> QED BY <1>1, <1>2, <1>3, Zenon DEF r

\* The reader is done with its current request.
LEMMA RequestDoneIs ==
  ASSUME Premises, IInv, NEW p \in Partitions, ReaderRunning(p), Pending(p) # {}, RequestDone(p)
  PROVE  /\ Remove(p, {Min(Pending(p))})
         /\ \E r \in Readers :
               /\ config_reader_' = [config_reader_ EXCEPT ![p] = r]
               /\ r.pc # "none" /\ (r.pc # "scan" => r.it = -1)
               /\ \A k \in Keys : k \in r.bunch <=>
                     (k \notin {Min(Pending(p))} /\ uuid_read_set_[p][k] # "none") /\ k <= r.it
  <1> /\ ReaderState
    BY InvParts, Zenon
  <1> DEFINE m == Min(Pending(p))
  <1>1. Remove(p, {m})
    BY Zenon DEF RequestDone, Remove
  <1>2. CASE config_reader_[p].handled + 1 = MaxRequestsToYield
    <2> DEFINE r == [NotRunning EXCEPT !.pc = "queued"]
    <2>1. r \in Readers /\ r.pc = "queued" /\ r.it = -1 /\ r.bunch = {} /\ \A k \in Keys : ~(k <= r.it)
      BY IdleReader, Zenon
    <2>2. config_reader_' = [config_reader_ EXCEPT ![p] = r]
      BY <1>2, Zenon DEF RequestDone, Yield
    <2> HIDE DEF r
    <2> QED BY <1>1, <2>1, <2>2, Zenon
  <1>3. CASE config_reader_[p].handled + 1 # MaxRequestsToYield
    <2> DEFINE r == [config_reader_[p] EXCEPT !.it = m, !.handled = @ + 1]
    <2>1. m \in Keys /\ m \in Nat /\ m > config_reader_[p].it /\ config_reader_[p].it \in Int
      BY PendingIs, Zenon
    <2>2. r \in Readers /\ r.pc = config_reader_[p].pc /\ r.it = m /\ r.bunch = config_reader_[p].bunch
      <3>1. r \in Readers
        BY <2>1, ReaderMoves, Zenon
      <3> QED BY <3>1, ReadersType, Zenon DEF Readers
    <2>3. config_reader_' = [config_reader_ EXCEPT ![p] = r]
      BY <1>3, ReadersType, Zenon DEF RequestDone, Readers
    <2>4. r.pc = "scan"
      BY <2>2, Zenon DEF ReaderRunning
    <2>5. m \notin config_reader_[p].bunch
      <3>1. ~(m <= config_reader_[p].it)
        BY <2>1
      <3> QED BY <2>1, <3>1, Zenon DEF ReaderState
    <2>6. \A k \in Keys : k \in config_reader_[p].bunch \/ k = m <=> uuid_read_set_[p][k] # "none" /\ k <= m
      BY MinNext, Zenon
    <2> HIDE DEF r, m
    <2>7. \A k \in Keys : k \in r.bunch <=> (k \notin {m} /\ uuid_read_set_[p][k] # "none") /\ k <= r.it
      BY <2>2, <2>5, <2>6, Zenon
    <2>8. \E s \in Readers :
               /\ config_reader_' = [config_reader_ EXCEPT ![p] = s]
               /\ s.pc # "none" /\ (s.pc # "scan" => s.it = -1)
               /\ \A k \in Keys : k \in s.bunch <=>
                     (k \notin {m} /\ uuid_read_set_[p][k] # "none") /\ k <= s.it
      BY <2>2, <2>3, <2>4, <2>7, Zenon
    <2> QED BY <1>1, <2>8, Zenon DEF m
  <1> QED BY <1>2, <1>3, Zenon

LEMMA ConfigReaderDeletesInv ==
  ASSUME Premises, IInv, NEW p \in Partitions, ConfigReaderDeletes(p)
  PROVE  IInv'
  <1> /\ RequestTypes /\ DeletesFollowed /\ CacheState
    BY InvParts, Zenon
  <1> DEFINE m == Min(Pending(p))
  <1>1. /\ ReaderRunning(p) /\ ~reinit_triggered_ /\ Pending(p) # {} /\ uuid_read_set_[p][m] = "DELETE"
        /\ HandleObjectDelete({m}) /\ RequestDone(p)
        /\ UNCHANGED <<others, amqp, bulk_sync_status_, end_of_rib_computed_, obj_process_queue_>> /\ db' = db
    BY Zenon DEF ConfigReaderDeletes, AtRequest, others
  <1>2. m \in UUIDs /\ HashUUID[m] = p /\ m # EndUUID
    <2>1. m \in Keys
      BY <1>1, PendingIs, Zenon
    <2>2. m # EndUUID
      BY <1>1, Zenon DEF RequestTypes
    <2> QED BY <1>1, <2>1, <2>2, Zenon DEF Keys, RequestTypes
  <1>3. db[m] = 0 \/ Announced(m) \/ Queued(m)
    BY <1>1, <1>2, Zenon DEF DeletesFollowed, RequestOf
  <1>4. PICK r \in Readers :
               /\ config_reader_' = [config_reader_ EXCEPT ![p] = r]
               /\ r.pc # "none" /\ (r.pc # "scan" => r.it = -1)
               /\ \A k \in Keys : k \in r.bunch <=>
                     (k \notin {m} /\ uuid_read_set_[p][k] # "none") /\ k <= r.it
    BY <1>1, RequestDoneIs, Zenon
  <1>5. Remove(p, {m})
    BY <1>1, RequestDoneIs, Zenon
  <1> HIDE DEF m
  <1>u. PICK u \in UUIDs : u = m
    BY <1>2, Zenon
  <1>6. /\ object_cache_map_' \in [UUIDs -> Nat] /\ fq_name_cache_' \in [UUIDs -> {"none", "present", "deleted"}]
        /\ db[u] = 0 => InStep(u)'
        /\ \A v \in UUIDs : v # u => (InStep(v)' <=> InStep(v))
        /\ \A v \in UUIDs : object_cache_map_[v] = 0 => object_cache_map_'[v] = 0
    BY <1>1, <1>u, DeleteObject, Zenon
  <1>7. \A v \in UUIDs :
            /\ InStep(v) => InStep(v)' \/ Queued(v) \/ Announced(v)
            /\ v \in {m} /\ RequestOf(v) # "none" => InStep(v)' \/ Queued(v) \/ Announced(v)
            /\ Unscanned(v) => object_cache_map_'[v] = 0
    <2>1. \A v \in UUIDs : Unscanned(v) => object_cache_map_[v] = 0
      BY <1>1, Zenon DEF CacheState
    <2>2. db[u] = 0 \/ Announced(u) \/ Queued(u)
      BY <1>3, <1>u, Zenon
    <2> QED BY <1>u, <1>6, <2>1, <2>2, Zenon
  <1> QED BY <1>1, <1>2, <1>4, <1>5, <1>6, <1>7, RemoveStep, Zenon

LEMMA ConfigReaderReadsInv ==
  ASSUME Premises, IInv, NEW p \in Partitions, ConfigReaderReads(p)
  PROVE  IInv'
  <1> /\ ReaderState /\ CacheState
    BY InvParts, Zenon
  <1> DEFINE B == Bunch(p)
             m == Min(Pending(p))
  <1>1. /\ ReaderRunning(p) /\ ~reinit_triggered_ /\ ReadObjUUIDTable(B) /\ Remove(p, B)
        /\ UNCHANGED <<others, amqp, bulk_sync_status_, end_of_rib_computed_, obj_process_queue_>> /\ db' = db
    BY Zenon DEF ConfigReaderReads, ReadDue, ReadDone, Remove, AtRequest, others
  <1>2. B \in SUBSET UUIDs /\ Cardinality(B) \in Nat /\ \A k \in B : uuid_read_set_[p][k] # "none" /\ HashUUID[k] = p
    BY BunchIs, Zenon
  <1>3. EndUUID \notin B
    BY <1>2, KeysNat, Zenon
  <1>4. PICK r \in Readers :
               /\ config_reader_' = [config_reader_ EXCEPT ![p] = r]
               /\ (r.pc # "scan" => r.it = -1)
               /\ \A k \in Keys : k \in r.bunch <=>
                     (k \notin B /\ uuid_read_set_[p][k] # "none") /\ k <= r.it
               /\ r.pc = "none" => \A k \in Keys : k \in B \/ uuid_read_set_[p][k] = "none"
    <2>1. CASE Pending(p) = {}
      <3> DEFINE r == [NotRunning EXCEPT !.pc = "none"]
      <3>1. r \in Readers /\ r.pc = "none" /\ r.it = -1 /\ r.bunch = {} /\ \A k \in Keys : ~(k <= r.it)
        BY IdleReader, Zenon
      <3>2. r = NotRunning
        BY DEF NotRunning
      <3>3. config_reader_' = [config_reader_ EXCEPT ![p] = r]
        BY <2>1, <3>2, Zenon DEF ConfigReaderReads, Done
      <3>4. \A k \in Keys : k \in B \/ uuid_read_set_[p][k] = "none"
        <4>1. B = config_reader_[p].bunch
          BY <2>1, BunchIs, Zenon
        <4>2. \A k \in Keys : uuid_read_set_[p][k] # "none" => k <= config_reader_[p].it
          BY <2>1, PendingIs, Zenon
        <4> QED BY <4>1, <4>2, Zenon DEF ReaderState
      <3> HIDE DEF r, B
      <3> QED BY <3>1, <3>3, <3>4, Zenon
    <2>2. CASE Pending(p) # {} /\ config_reader_[p].handled + Cardinality(B) >= MaxRequestsToYield
      <3> DEFINE r == [NotRunning EXCEPT !.pc = "queued"]
      <3>1. r \in Readers /\ r.pc = "queued" /\ r.it = -1 /\ r.bunch = {} /\ \A k \in Keys : ~(k <= r.it)
        BY IdleReader, Zenon
      <3>2. config_reader_' = [config_reader_ EXCEPT ![p] = r]
        BY <2>2, Zenon DEF ConfigReaderReads, Advance, Yield
      <3> HIDE DEF r, B
      <3> QED BY <3>1, <3>2, Zenon
    <2>3. CASE Pending(p) # {} /\ ~(config_reader_[p].handled + Cardinality(B) >= MaxRequestsToYield)
      <3> DEFINE r == [config_reader_[p] EXCEPT !.it = m, !.bunch = {}, !.handled = @ + Cardinality(B)]
      <3>1. AtRequest(p, Reads)
        BY <2>3, Zenon DEF ConfigReaderReads, ReadDue
      <3>2. m \in Keys
        BY <2>3, PendingIs, Zenon
      <3>3. config_reader_[p].handled \in Nat
        BY ReadersType, Zenon DEF Readers
      <3>4. r \in Readers /\ r.pc = config_reader_[p].pc /\ r.it = m /\ r.bunch = {}
        <4>1. r \in Readers
          BY <1>2, <3>2, ReaderMoves, Zenon
        <4> QED BY <4>1, ReadersType, Zenon DEF Readers
      <3>5. config_reader_' = [config_reader_ EXCEPT ![p].it = m, ![p].bunch = {},
                                                     ![p].handled = @ + Cardinality(B)]
        BY <2>3, Zenon DEF ConfigReaderReads, Advance
      <3>6. config_reader_' = [config_reader_ EXCEPT ![p] = r]
        BY <3>5, ReadersType, Zenon DEF Readers
      <3>7. B = config_reader_[p].bunch \cup {m}
        BY <3>1, BunchIs, Zenon
      <3>8. \A k \in Keys : uuid_read_set_[p][k] # "none" /\ k <= m => k \in B
        BY <2>3, <3>7, MinNext, Zenon
      <3>9. r.pc = "scan"
        BY <1>1, <3>4, Zenon DEF ReaderRunning
      <3> HIDE DEF r, B, m
      <3> QED BY <3>4, <3>6, <3>8, <3>9, Zenon
    <2> QED BY <2>1, <2>2, <2>3, Zenon
  <1>5. /\ object_cache_map_' \in [UUIDs -> Nat] /\ fq_name_cache_' \in [UUIDs -> {"none", "present", "deleted"}]
        /\ \A v \in B : InStep(v)'
        /\ \A v \in UUIDs : v \notin B => (InStep(v)' <=> InStep(v)) /\ object_cache_map_'[v] = object_cache_map_[v]
    BY <1>1, <1>2, ReadObjects, Zenon
  <1> HIDE DEF B, m
  <1>6. \A v \in UUIDs :
            /\ InStep(v) => InStep(v)' \/ Queued(v) \/ Announced(v)
            /\ v \in B /\ RequestOf(v) # "none" => InStep(v)' \/ Queued(v) \/ Announced(v)
            /\ Unscanned(v) => object_cache_map_'[v] = 0
    <2>1. \A v \in UUIDs : Unscanned(v) => object_cache_map_[v] = 0 /\ RequestOf(v) = "none"
      BY <1>1, Zenon DEF CacheState
    <2>2. \A v \in B : RequestOf(v) # "none"
      BY <1>2, Zenon DEF RequestOf
    <2> QED BY <1>5, <2>1, <2>2, Zenon
  <1> QED BY <1>1, <1>3, <1>4, <1>5, <1>6, RemoveStep, Zenon

LEMMA ConfigReaderEndOfConfigInv ==
  ASSUME Premises, IInv, NEW p \in Partitions, ConfigReaderEndOfConfig(p)
  PROVE  IInv'
  <1> /\ TypeOK /\ NoStrandedRequest /\ SyncAccounted /\ RequestTypes /\ GenerationState
      /\ TaskState /\ ClientState /\ EndState /\ ReaderState /\ DeletesFollowed /\ CacheState
    BY InvParts, Zenon
  <1> DEFINE m == Min(Pending(p))
             E == {q \in Partitions : EndPending(q)}
  <1>1. /\ ReaderRunning(p) /\ ~reinit_triggered_ /\ Pending(p) # {} /\ uuid_read_set_[p][m] = "EndOfConfig"
        /\ BulkSyncDone /\ RequestDone(p)
        /\ UNCHANGED <<others, obj_process_queue_, fq_name_cache_, object_cache_map_, db>>
    BY Zenon DEF ConfigReaderEndOfConfig, AtRequest, others
  <1>2. m = EndUUID
    <2>1. m \in Keys
      BY <1>1, PendingIs, Zenon
    <2> QED BY <1>1, <2>1, KeysNat, Zenon DEF RequestTypes
  <1>3. PICK r \in Readers :
               /\ config_reader_' = [config_reader_ EXCEPT ![p] = r]
               /\ r.pc # "none" /\ (r.pc # "scan" => r.it = -1)
               /\ \A k \in Keys : k \in r.bunch <=>
                     (k \notin {EndUUID} /\ uuid_read_set_[p][k] # "none") /\ k <= r.it
    BY <1>1, <1>2, RequestDoneIs, Zenon
  <1>4. Remove(p, {EndUUID})
    BY <1>1, <1>2, RequestDoneIs, Zenon
  <1>5. uuid_read_set_[p][EndUUID] = "EndOfConfig"
    BY <1>1, <1>2, Zenon
  <1> HIDE DEF m
  <1>6. (amqp' = "none" <=> amqp = "none") /\ (AmqpRunning' <=> AmqpRunning) /\ (amqp' = "queued" <=> amqp = "queued")
        /\ (amqp' = "loop" <=> amqp = "loop")
        /\ amqp' \in {"none", "queued", "run", "enter", "waiting", "woken", "loop"}
    BY <1>1, Zenon DEF BulkSyncDone, Notified, AmqpRunning, TypeOK
  <1>7. \A v \in UUIDs : (InStep(v)' <=> InStep(v)) /\ object_cache_map_'[v] = object_cache_map_[v] /\ v \notin {EndUUID}
    BY <1>1, KeysNat, Zenon DEF InStep, Unnamed
  <1>8. \A v \in UUIDs :
            /\ InStep(v) => InStep(v)' \/ Queued(v) \/ Announced(v)
            /\ v \in {EndUUID} /\ RequestOf(v) # "none" => InStep(v)' \/ Queued(v) \/ Announced(v)
            /\ Unscanned(v) => object_cache_map_'[v] = 0
    <2>1. \A v \in UUIDs : Unscanned(v) => object_cache_map_[v] = 0
      BY <1>1, Zenon DEF CacheState
    <2> QED BY <1>7, <2>1, Zenon
  <1>9. /\ RequestTypes' /\ NoStrandedRequest' /\ ReaderState' /\ EndState' /\ DeletesFollowed' /\ CacheState'
        /\ config_reader_' \in [Partitions -> Readers] /\ config_reader_'[p] = r
        /\ \A q \in Partitions : q # p => config_reader_'[q] = config_reader_[q]
        /\ \A q \in Partitions : q # p => (EndPending(q)' <=> EndPending(q))
    BY <1>1, <1>3, <1>4, <1>6, <1>8, RemoveParts, Zenon
  <1>10. EndPending(p) /\ fq_name_reader_ = "none" /\ ~EndPending(p)'
    <2>1. EndPending(p)
      BY <1>5, Zenon DEF EndPending
    <2>2. fq_name_reader_ = "none"
      BY <1>1, <2>1, Zenon DEF EndState
    <2>3. \A i \in DOMAIN obj_process_queue_[p] : obj_process_queue_[p][i].oper # "EndOfConfig"
      BY <1>1, <1>5, Zenon DEF EndState
    <2>4. uuid_read_set_'[p][EndUUID] = "none"
      BY <1>4, RemoveIs, KeysNat, Zenon
    <2> QED BY <1>1, <2>1, <2>2, <2>3, <2>4, Zenon DEF EndPending
  <1>11. /\ bulk_sync_status_ = Cardinality(E) /\ bulk_sync_status_ \in Nat /\ bulk_sync_status_ > 0
         /\ Cardinality({q \in Partitions : EndPending(q)'}) = bulk_sync_status_ - 1
    <2>1. bulk_sync_status_ = Cardinality(E)
      BY <1>1, <1>10, Zenon DEF SyncAccounted
    <2>2. IsFiniteSet(E) /\ p \in E
      <3>1. IsFiniteSet(Partitions) /\ E \subseteq Partitions
        BY Zenon DEF Premises, Configured
      <3> QED BY <1>10, <3>1, SubsetFinite, Zenon
    <2>3. {q \in Partitions : EndPending(q)'} = E \ {p}
      BY <1>9, <1>10, Zenon
    <2> HIDE DEF E
    <2>4. Cardinality(E \ {p}) = Cardinality(E) - 1 /\ Cardinality(E) \in Nat /\ Cardinality(E \ {p}) \in Nat
      BY <2>2, Count, SubsetFinite, Zenon
    <2> QED BY <2>1, <2>3, <2>4
  <1>12. ~end_of_rib_computed_
    BY <1>11 DEF SyncAccounted
  <1>13. bulk_sync_status_' = bulk_sync_status_ - 1 /\ (end_of_rib_computed_' <=> bulk_sync_status_' = 0)
    <2>1. bulk_sync_status_' = bulk_sync_status_ - 1 /\ (end_of_rib_computed_' <=> bulk_sync_status_ = 1)
      BY <1>1, <1>12, Zenon DEF BulkSyncDone
    <2>2. bulk_sync_status_ - 1 = 0 <=> bulk_sync_status_ = 1
      BY <1>11
    <2> QED BY <2>1, <2>2, Zenon
  <1>14. TypeOK'
    <2>1. uuid_read_set_' \in [Partitions -> [Keys -> Opers]]
      BY <1>4, RemoveIs, Zenon
    <2>2. bulk_sync_status_' \in 0 .. Cardinality(Partitions)
      BY <1>11, <1>13, PartitionsCount DEF TypeOK
    <2>3. end_of_rib_computed_' \in BOOLEAN
      BY <1>1, Zenon DEF BulkSyncDone, TypeOK
    <2> QED BY <1>1, <1>6, <1>9, <2>1, <2>2, <2>3, Zenon DEF TypeOK, Readers, others
  <1>15. SyncAccounted'
    <2>1. fq_name_reader_' = "none" /\ bulk_sync_status_' = Cardinality({q \in Partitions : EndPending(q)'})
      BY <1>1, <1>10, <1>11, <1>13, Zenon DEF others
    <2> QED BY <1>13, <2>1, Zenon DEF SyncAccounted
  <1>16. GenerationState'
    BY <1>1, Zenon DEF GenerationState, others
  <1>17. TaskState'
    <2>1. \A q \in Partitions : ReaderRunning(q)' => ReaderRunning(q)
      BY <1>1, <1>9, Zenon DEF ReaderRunning
    <2> QED BY <1>1, <1>6, <2>1, Zenon DEF TaskState, InitRunning, FQNameReaderRunning, others
  <1>18. ClientState'
    <2>1. ~Fresh
      BY <1>1, Zenon DEF Fresh, ReaderRunning
    <2>2. init \notin {"start", "connect", "db"} /\ amqp # "none"
      BY <1>1, <2>1, NotFreshIs, Zenon
    <2>3. init \in {"final", "reset"} => fq_name_reader_ # "none"
      BY <1>1, Zenon DEF ClientState
    <2>4. amqp # "loop"
      BY <1>1, <1>12, Zenon DEF ClientState
    <2>5. bound /\ (messages # <<>> => bound)
      BY <1>1, <2>2, Zenon DEF ClientState
    <2>6. /\ init' = init /\ messages' = messages /\ bound' = bound /\ fq_name_reader_' = fq_name_reader_
      BY <1>1, Zenon DEF others
    <2> QED BY <1>6, <1>13, <2>2, <2>3, <2>4, <2>5, <2>6, Zenon DEF ClientState
  <1> QED BY <1>9, <1>14, <1>15, <1>16, <1>17, <1>18, InvNext, Zenon

-----------------------------------------------------------------------------
(* The WorkQueue task of a partition.                                      *)

\* What it does to the queue and to the requests of its partition.
LEMMA ProcessorIs ==
  ASSUME Premises, IInv, NEW p \in Partitions, ObjectProcessor(p)
  PROVE  \E n \in 1 .. Len(obj_process_queue_[p]) :
            /\ obj_process_queue_' \in [Partitions -> Seq(AllRequests)]
            /\ \A q \in Partitions : q # p => /\ obj_process_queue_'[q] = obj_process_queue_[q]
                                              /\ uuid_read_set_'[q] = uuid_read_set_[q]
            /\ DOMAIN obj_process_queue_'[p] = 1 .. Len(obj_process_queue_[p]) - n
            /\ \A i \in 1 .. Len(obj_process_queue_[p]) - n : obj_process_queue_'[p][i] = obj_process_queue_[p][i + n]
            /\ uuid_read_set_' \in [Partitions -> [Keys -> Opers]]
            /\ \A k \in Keys : LastStays(obj_process_queue_[p], n, uuid_read_set_[p], uuid_read_set_'[p], k)
  <1> /\ TypeOK
    BY InvParts, Zenon
  <1> DEFINE Q == obj_process_queue_[p]
             S == uuid_read_set_[p]
  <1>1. Q \in Seq(AllRequests) /\ Q # <<>> /\ obj_process_queue_ \in [Partitions -> Seq(AllRequests)]
    BY QueueIs, Zenon DEF ObjectProcessor
  <1>2. PICK n : n = Min({MaxIterations, Len(Q)})
    BY Zenon
  <1>3. /\ uuid_read_set_' = [uuid_read_set_ EXCEPT ![p] = AddUUIDToRequestList(@, SubSeq(Q, 1, n))]
        /\ obj_process_queue_' = [obj_process_queue_ EXCEPT ![p] = SubSeq(@, n + 1, Len(@))]
    BY <1>2, Zenon DEF ObjectProcessor
  <1>4. uuid_read_set_ \in [Partitions -> [Keys -> Opers]] /\ S \in [Keys -> Opers]
    BY Zenon DEF TypeOK
  <1> DEFINE T == AddUUIDToRequestList(S, SubSeq(Q, 1, n))
  <1>5. n \in 1 .. Len(Q) /\ \A k \in Keys : LastStays(Q, n, S, T, k)
    <2>1. EndUUID \in Keys
      BY KeysNat, Zenon
    <2> HIDE DEF Q, S
    <2> QED BY <1>1, <1>2, <2>1, BatchIs, Zenon
  <1>6. T \in [Keys -> Opers]
    <2>1. \A i \in 1 .. n : Q[i] \in AllRequests /\ Q[i].oper \in Opers
      BY <1>1, <1>5, RequestIs
    <2>2. \A k \in Keys : T[k] \in Opers
      BY <1>4, <1>5, <2>1, Zenon DEF LastStays
    <2>3. T = [k \in Keys |-> T[k]]
      BY Zenon DEF AddUUIDToRequestList
    <2> HIDE DEF T
    <2> QED BY <2>2, <2>3, Zenon
  <1>7. uuid_read_set_'[p] = T /\ uuid_read_set_' \in [Partitions -> [Keys -> Opers]]
        /\ \A q \in Partitions : q # p => uuid_read_set_'[q] = uuid_read_set_[q]
    <2>1. uuid_read_set_' = [uuid_read_set_ EXCEPT ![p] = T]
      BY <1>3, Zenon
    <2> HIDE DEF T
    <2> QED BY <1>4, <1>6, <2>1, Zenon
  <1> DEFINE R == SubSeq(Q, n + 1, Len(Q))
  <1>8. R \in Seq(AllRequests) /\ DOMAIN R = 1 .. Len(Q) - n /\ \A i \in 1 .. Len(Q) - n : R[i] = Q[i + n]
    <2> HIDE DEF Q
    <2> QED BY <1>1, <1>5, RestIs, Zenon
  <1>9. obj_process_queue_'[p] = R /\ obj_process_queue_' \in [Partitions -> Seq(AllRequests)]
        /\ \A q \in Partitions : q # p => obj_process_queue_'[q] = obj_process_queue_[q]
    <2>1. obj_process_queue_' = [obj_process_queue_ EXCEPT ![p] = R]
      BY <1>3, Zenon
    <2> HIDE DEF R
    <2> QED BY <1>1, <1>8, <2>1, Zenon
  <1>10. /\ DOMAIN obj_process_queue_'[p] = 1 .. Len(Q) - n
         /\ \A i \in 1 .. Len(Q) - n : obj_process_queue_'[p][i] = Q[i + n]
    BY <1>8, <1>9, Zenon
  <1>11. \A k \in Keys : LastStays(Q, n, S, uuid_read_set_'[p], k)
    BY <1>5, <1>7, Zenon
  <1> HIDE DEF T, R
  <1> QED BY <1>5, <1>7, <1>9, <1>10, <1>11, Zenon

LEMMA ObjectProcessorInv ==
  ASSUME Premises, IInv, NEW p \in Partitions, ObjectProcessor(p)
  PROVE  IInv'
  <1> /\ TypeOK /\ NoStrandedRequest /\ RequestTypes /\ EndState /\ ReaderState
      /\ DeletesFollowed /\ CacheState
    BY InvParts, Zenon
  <1> DEFINE Q == obj_process_queue_[p]
             Q1 == obj_process_queue_'[p]
             S == uuid_read_set_[p]
             S1 == uuid_read_set_'[p]
  <1>1. PICK n \in 1 .. Len(Q) :
            /\ obj_process_queue_' \in [Partitions -> Seq(AllRequests)]
            /\ \A q \in Partitions : q # p => /\ obj_process_queue_'[q] = obj_process_queue_[q]
                                              /\ uuid_read_set_'[q] = uuid_read_set_[q]
            /\ DOMAIN Q1 = 1 .. Len(Q) - n
            /\ \A i \in 1 .. Len(Q) - n : Q1[i] = Q[i + n]
            /\ uuid_read_set_' \in [Partitions -> [Keys -> Opers]]
            /\ \A k \in Keys : LastStays(Q, n, S, S1, k)
    BY ProcessorIs, Zenon
  <1>2. /\ Q # <<>> /\ ~ReaderRunning(p) /\ config_reader_' = TriggerReader(p)
        /\ UNCHANGED <<others, amqp, bulk_sync_status_, end_of_rib_computed_, fq_name_cache_, object_cache_map_, db>>
    BY Zenon DEF ObjectProcessor, ObjectProcessorMayStart, others
  <1>3. Q \in Seq(AllRequests) /\ Len(Q) \in Nat /\ DOMAIN Q = 1 .. Len(Q) /\ n \in Nat /\ 1 .. n \subseteq DOMAIN Q
    BY QueueIs, SMTT(30)
  <1>4. \A i \in DOMAIN Q1 : i \in Nat /\ i + n \in DOMAIN Q /\ Q1[i] = Q[i + n] /\ i + n > n
    BY <1>1, <1>3
  <1>5. \A i \in DOMAIN Q : \/ i \in 1 .. n
                            \/ i > n /\ i - n \in DOMAIN Q1 /\ Q1[i - n] = Q[i]
    <2> SUFFICES ASSUME NEW i \in DOMAIN Q, i \notin 1 .. n
                 PROVE  i > n /\ i - n \in DOMAIN Q1 /\ Q1[i - n] = Q[i]
      BY Zenon
    <2>1. i > n /\ i - n \in 1 .. Len(Q) - n /\ (i - n) + n = i
      BY <1>3
    <2> QED BY <1>1, <2>1, Zenon
  <1>6. \A i \in DOMAIN Q : /\ Q[i] \in AllRequests /\ Q[i].uuid \in Keys /\ Q[i].oper \in Opers /\ Q[i].oper # "none"
                            /\ Q[i].oper = "EndOfConfig" <=> Q[i].uuid = EndUUID
    <2>1. \A i \in DOMAIN Q : Q[i] \in AllRequests
      BY <1>3
    <2> QED BY <2>1, RequestIs, Zenon
  <1>7. ASSUME NEW k \in Keys
        PROVE  \/ S1[k] = S[k] /\ \A i \in DOMAIN Q : i \in 1 .. n => Q[i].uuid # k
               \/ \E i \in DOMAIN Q : /\ i \in 1 .. n /\ Q[i].uuid = k /\ S1[k] = Q[i].oper
                                      /\ \A j \in DOMAIN Q : Q[j].uuid = k /\ j > i => j \notin 1 .. n
    <2>1. LastStays(Q, n, S, S1, k)
      BY <1>1, Zenon
    <2>2. \A i, j \in 1 .. n : ~(j > i /\ j <= i)
      BY <1>3, NotBothWays, Zenon
    <2> HIDE DEF Q, S, S1
    <2> QED BY <1>3, <2>1, <2>2, Zenon DEF LastStays
  <1> HIDE DEF Q, Q1, S, S1
  <1>8. \A k \in Keys : S[k] # "none" \/ (\E i \in DOMAIN Q : i \in 1 .. n /\ Q[i].uuid = k) => S1[k] # "none"
    BY <1>6, <1>7, Zenon
  <1>9. ~Fresh
    BY <1>2, Zenon DEF Fresh, Q
  <1>10. /\ config_reader_' \in [Partitions -> Readers]
         /\ \A q \in Partitions : /\ config_reader_'[q].it = config_reader_[q].it
                                  /\ config_reader_'[q].bunch = config_reader_[q].bunch
                                  /\ (ReaderRunning(q)' <=> ReaderRunning(q))
                                  /\ config_reader_[q].pc # "none" => config_reader_'[q].pc # "none"
         /\ config_reader_'[p].pc # "none"
    <2>1. config_reader_' \in [Partitions -> Readers]
      BY <1>2, ReadersType, Zenon DEF TriggerReader, Readers
    <2>2. CASE Empty(uuid_read_set_[p]) /\ config_reader_[p].pc = "none"
      <3>1. config_reader_' = [config_reader_ EXCEPT ![p].pc = "queued"]
        BY <1>2, <2>2, Zenon DEF TriggerReader
      <3> QED BY <2>1, <2>2, <3>1, ReadersType, Zenon DEF ReaderRunning, Readers
    <2>3. CASE ~(Empty(uuid_read_set_[p]) /\ config_reader_[p].pc = "none")
      <3>1. config_reader_' = config_reader_
        BY <1>2, <2>3, Zenon DEF TriggerReader
      <3>2. config_reader_[p].pc # "none"
        BY <2>3, Zenon DEF NoStrandedRequest
      <3> QED BY <2>1, <3>1, <3>2, Zenon DEF ReaderRunning
    <2> QED BY <2>2, <2>3, Zenon
  <1>11. NoStrandedRequest'
    <2>1. \A q \in Partitions : q # p => Empty(uuid_read_set_'[q]) \/ config_reader_'[q].pc # "none"
      BY <1>1, <1>10, Zenon DEF NoStrandedRequest
    <2> QED BY <1>10, <2>1, Zenon DEF NoStrandedRequest
  <1>12. ReaderState'
    <2>1. ASSUME NEW q \in Partitions
          PROVE  /\ ~ReaderRunning(q)' => config_reader_'[q].it = -1
                 /\ \A k \in Keys : k \in config_reader_'[q].bunch <=>
                       uuid_read_set_'[q][k] # "none" /\ k <= config_reader_'[q].it
      <3>1. CASE q # p
        <4>1. uuid_read_set_'[q] = uuid_read_set_[q]
          BY <1>1, <3>1, Zenon
        <4>2. /\ ~ReaderRunning(q) => config_reader_[q].it = -1
              /\ \A k \in Keys : k \in config_reader_[q].bunch <=>
                    uuid_read_set_[q][k] # "none" /\ k <= config_reader_[q].it
          BY Zenon DEF ReaderState
        <4> QED BY <1>10, <4>1, <4>2, Zenon
      <3>2. CASE q = p
        <4>1. config_reader_[p].it = -1 /\ \A k \in Keys : ~(k <= -1)
          BY <1>2, KeysPositive, Zenon DEF ReaderState
        <4>2. \A k \in Keys : k \notin config_reader_[p].bunch
          BY <4>1, Zenon DEF ReaderState
        <4> QED BY <1>10, <3>2, <4>1, <4>2, Zenon
      <3> QED BY <3>1, <3>2, Zenon
    <2> QED BY <2>1, Zenon DEF ReaderState
  <1>13. TypeOK'
    <2>1. obj_process_queue_' \in [Partitions -> Seq(Requests)]
      BY <1>1, RequestIs, WiderQueues, Zenon
    <2>2. /\ bulk_sync_status_' \in 0 .. Cardinality(Partitions) /\ end_of_rib_computed_' \in BOOLEAN
          /\ fq_name_cache_' \in [UUIDs -> {"none", "present", "deleted"}]
          /\ object_cache_map_' \in [UUIDs -> Nat]
      BY <1>2, Zenon DEF TypeOK
    <2> QED BY <1>1, <1>2, <1>10, <2>1, <2>2, TypesFrame, Zenon
  <1>14. RequestTypes'
    <2>1. messages' \in Seq(Changes) /\ publishing' \in Changes \cup {NoRequest}
      BY <1>2, Zenon DEF RequestTypes, others
    <2>2. obj_process_queue_' \in [Partitions -> Seq(ObjectRequests \cup {EndRequest})]
      BY <1>1, Zenon DEF AllRequests
    <2>3. \A u \in UUIDs : \A i \in DOMAIN Q : Q[i].uuid = u => HashUUID[u] = p
      BY Zenon DEF RequestTypes, Q
    <2>4. S[EndUUID] \in {"none", "EndOfConfig"} /\ \A u \in UUIDs :
             S[u] # "EndOfConfig" /\ (S[u] # "none" => HashUUID[u] = p)
      BY Zenon DEF RequestTypes, S
    <2>5. S1[EndUUID] \in {"none", "EndOfConfig"}
      BY <1>6, <1>7, <2>4, KeysNat, Zenon
    <2>6. \A u \in UUIDs : S1[u] # "EndOfConfig" /\ (S1[u] # "none" => HashUUID[u] = p)
      BY <1>6, <1>7, <2>3, <2>4, KeysNat
    <2>7. \A u \in UUIDs : \A i \in DOMAIN Q1 : Q1[i].uuid = u => HashUUID[u] = p
      BY <1>4, <2>3, Zenon
    <2>8. ASSUME NEW q \in Partitions
          PROVE  /\ uuid_read_set_'[q][EndUUID] \in {"none", "EndOfConfig"}
                 /\ \A u \in UUIDs :
                       /\ uuid_read_set_'[q][u] # "EndOfConfig"
                       /\ uuid_read_set_'[q][u] # "none" => HashUUID[u] = q
                       /\ \A i \in DOMAIN obj_process_queue_'[q] :
                             obj_process_queue_'[q][i].uuid = u => HashUUID[u] = q
      <3>1. CASE q # p
        <4>1. obj_process_queue_'[q] = obj_process_queue_[q] /\ uuid_read_set_'[q] = uuid_read_set_[q]
          BY <1>1, <3>1, Zenon
        <4> QED BY <4>1 DEF RequestTypes
      <3>2. CASE q = p
        BY <3>2, <2>5, <2>6, <2>7, Zenon DEF S1, Q1
      <3> QED BY <3>1, <3>2, Zenon
    <2> QED BY <2>1, <2>2, <2>8, Zenon DEF RequestTypes
  <1>15. \A q \in Partitions : EndPending(q)' <=> EndPending(q)
    <2>1. \A q \in Partitions : q # p => (EndPending(q)' <=> EndPending(q))
      BY <1>1, Zenon DEF EndPending
    <2>2. EndPending(p) <=> S[EndUUID] # "none" \/ \E i \in DOMAIN Q : Q[i].oper = "EndOfConfig"
      BY Zenon DEF EndPending, S, Q
    <2>3. EndPending(p)' <=> S1[EndUUID] # "none" \/ \E i \in DOMAIN Q1 : Q1[i].oper = "EndOfConfig"
      BY Zenon DEF EndPending, S1, Q1
    <2>4. EndPending(p) => EndPending(p)'
      BY <1>5, <1>6, <1>8, <2>2, <2>3, KeysNat, SMTT(30)
    <2>5. EndPending(p)' => EndPending(p)
      BY <1>4, <1>6, <1>7, <2>2, <2>3, KeysNat
    <2> QED BY <2>1, <2>4, <2>5, Zenon
  <1>16. EndState'
    <2> SUFFICES ASSUME ~reinit_triggered_
                 PROVE  /\ fq_name_reader_ # "none" => \A q \in Partitions : ~EndPending(q)'
                        /\ \A q \in Partitions : \A i \in DOMAIN obj_process_queue_'[q] :
                              obj_process_queue_'[q][i].oper = "EndOfConfig" =>
                                 /\ uuid_read_set_'[q][EndUUID] = "none"
                                 /\ \A j \in DOMAIN obj_process_queue_'[q] :
                                       obj_process_queue_'[q][j].oper = "EndOfConfig" => j = i
      BY <1>2, Zenon DEF EndState, others
    <2>1. fq_name_reader_ # "none" => \A q \in Partitions : ~EndPending(q)'
      BY <1>15, Zenon DEF EndState
    <2>2. \A i \in DOMAIN Q : Q[i].oper = "EndOfConfig" =>
             S[EndUUID] = "none" /\ \A j \in DOMAIN Q : Q[j].oper = "EndOfConfig" => j = i
      BY Zenon DEF EndState, Q, S
    <2>3. ASSUME NEW i \in DOMAIN Q1, Q1[i].oper = "EndOfConfig"
          PROVE  S1[EndUUID] = "none" /\ \A j \in DOMAIN Q1 : Q1[j].oper = "EndOfConfig" => j = i
      <3>1. i + n \in DOMAIN Q /\ Q[i + n].oper = "EndOfConfig" /\ i + n \notin 1 .. n
        BY <1>3, <1>4, <2>3
      <3>2. \A j \in DOMAIN Q : Q[j].uuid = EndUUID => j \notin 1 .. n
        BY <1>6, <2>2, <3>1, Zenon
      <3>3. S1[EndUUID] = "none"
        BY <1>7, <2>2, <3>1, <3>2, KeysNat, Zenon
      <3>4. ASSUME NEW j \in DOMAIN Q1, Q1[j].oper = "EndOfConfig"
            PROVE  j = i
        <4>1. j + n \in DOMAIN Q /\ Q[j + n].oper = "EndOfConfig" /\ j \in Nat /\ i \in Nat
          BY <1>4, <3>4, Zenon
        <4>2. j + n = i + n
          BY <2>2, <3>1, <4>1, Zenon
        <4> QED BY <1>3, <4>1, <4>2
      <3> QED BY <3>3, <3>4, Zenon
    <2>4. ASSUME NEW q \in Partitions, NEW i \in DOMAIN obj_process_queue_'[q],
                 obj_process_queue_'[q][i].oper = "EndOfConfig"
          PROVE  /\ uuid_read_set_'[q][EndUUID] = "none"
                 /\ \A j \in DOMAIN obj_process_queue_'[q] :
                       obj_process_queue_'[q][j].oper = "EndOfConfig" => j = i
      <3>1. CASE q # p
        <4>1. obj_process_queue_'[q] = obj_process_queue_[q] /\ uuid_read_set_'[q] = uuid_read_set_[q]
          BY <1>1, <3>1, Zenon
        <4> QED BY <2>4, <4>1, Zenon DEF EndState
      <3>2. CASE q = p
        BY <2>3, <2>4, <3>2, Zenon DEF Q1, S1
      <3> QED BY <3>1, <3>2, Zenon
    <2> QED BY <2>1, <2>4, Zenon
  <1>17. \A u \in UUIDs : HashUUID[u] # p =>
            RequestOf(u)' = RequestOf(u) /\ QueueOf(u)' = QueueOf(u) /\ (Queued(u)' <=> Queued(u))
    <2>1. \A u \in UUIDs : HashUUID[u] \in Partitions
      BY Zenon DEF Premises, Configured
    <2> QED BY <1>1, <2>1, Zenon DEF RequestOf, QueueOf, Queued
  <1>18. \A u \in UUIDs : HashUUID[u] = p =>
            /\ RequestOf(u) = S[u] /\ RequestOf(u)' = S1[u] /\ QueueOf(u) = Q /\ QueueOf(u)' = Q1
            /\ (Queued(u) <=> \E i \in DOMAIN Q : Q[i].uuid = u)
            /\ (Queued(u)' <=> \E i \in DOMAIN Q1 : Q1[i].uuid = u)
    BY Zenon DEF RequestOf, QueueOf, Queued, S, S1, Q, Q1
  <1>19. \A u \in UUIDs : (Announced(u)' <=> Announced(u)) /\ (Unscanned(u)' <=> Unscanned(u)) /\ (InStep(u)' <=> InStep(u))
    BY <1>2, Zenon DEF Announced, Unscanned, InStep, Unnamed, others
  <1>20. DeletesFollowed'
    <2>1. /\ publishing'.oper = "DELETE" => db'[publishing'.uuid] = 0
          /\ \A i \in DOMAIN messages' :
                messages'[i].oper = "DELETE" =>
                   \/ db'[messages'[i].uuid] = 0 \/ publishing'.uuid = messages'[i].uuid
                   \/ \E j \in DOMAIN messages' : j > i /\ messages'[j].uuid = messages'[i].uuid
      <3>1. /\ publishing.oper = "DELETE" => db[publishing.uuid] = 0
            /\ \A i \in DOMAIN messages :
                  messages[i].oper = "DELETE" =>
                     \/ db[messages[i].uuid] = 0 \/ publishing.uuid = messages[i].uuid
                     \/ \E j \in DOMAIN messages : j > i /\ messages[j].uuid = messages[i].uuid
        BY Zenon DEF DeletesFollowed
      <3>2. publishing' = publishing /\ messages' = messages /\ db' = db
        BY <1>2, Zenon DEF others
      <3> QED BY <3>1, <3>2, Zenon
    <2>2. ASSUME ~reinit_triggered_, NEW u \in UUIDs
          PROVE  /\ RequestOf(u)' = "DELETE" => db[u] = 0 \/ Announced(u) \/ Queued(u)'
                 /\ \A i \in DOMAIN QueueOf(u)' :
                       QueueOf(u)'[i].uuid = u /\ QueueOf(u)'[i].oper = "DELETE" =>
                          \/ db[u] = 0 \/ Announced(u)
                          \/ \E j \in DOMAIN QueueOf(u)' : j > i /\ QueueOf(u)'[j].uuid = u
      <3>1. /\ RequestOf(u) = "DELETE" => db[u] = 0 \/ Announced(u) \/ Queued(u)
            /\ \A i \in DOMAIN QueueOf(u) :
                  QueueOf(u)[i].uuid = u /\ QueueOf(u)[i].oper = "DELETE" =>
                     \/ db[u] = 0 \/ Announced(u)
                     \/ \E j \in DOMAIN QueueOf(u) : j > i /\ QueueOf(u)[j].uuid = u
        BY <2>2, Zenon DEF DeletesFollowed
      <3>2. CASE HashUUID[u] # p
        BY <1>17, <3>1, <3>2, Zenon
      <3>3. CASE HashUUID[u] = p
        <4>0. /\ RequestOf(u) = S[u] /\ RequestOf(u)' = S1[u] /\ QueueOf(u) = Q /\ QueueOf(u)' = Q1
              /\ (Queued(u) <=> \E i \in DOMAIN Q : Q[i].uuid = u)
              /\ (Queued(u)' <=> \E i \in DOMAIN Q1 : Q1[i].uuid = u)
          BY <1>18, <3>3, Zenon
        <4> SUFFICES ASSUME db[u] # 0, ~Announced(u)
                     PROVE  /\ S1[u] = "DELETE" => \E i \in DOMAIN Q1 : Q1[i].uuid = u
                            /\ \A i \in DOMAIN Q1 : Q1[i].uuid = u /\ Q1[i].oper = "DELETE" =>
                                  \E j \in DOMAIN Q1 : j > i /\ Q1[j].uuid = u
          BY <4>0, Zenon
        <4>1. S[u] = "DELETE" => \E i \in DOMAIN Q : Q[i].uuid = u
          BY <3>1, <4>0, Zenon
        <4>2. \A i \in DOMAIN Q : Q[i].uuid = u /\ Q[i].oper = "DELETE" =>
                 \E j \in DOMAIN Q : j > i /\ Q[j].uuid = u
          BY <3>1, <4>0, Zenon
        <4>3. S1[u] = "DELETE" => \E i \in DOMAIN Q1 : Q1[i].uuid = u
          <5>1. S1[u] = "DELETE" => \E j \in DOMAIN Q : Q[j].uuid = u /\ j \notin 1 .. n
            BY <1>7, <4>1, <4>2, KeysNat, Zenon
          <5> QED BY <1>5, <5>1, Zenon
        <4>4. ASSUME NEW i \in DOMAIN Q1, Q1[i].uuid = u, Q1[i].oper = "DELETE"
              PROVE  \E j \in DOMAIN Q1 : j > i /\ Q1[j].uuid = u
          <5>1. i + n \in DOMAIN Q /\ Q[i + n].uuid = u /\ Q[i + n].oper = "DELETE" /\ i \in Nat /\ i + n > n
            BY <1>4, <4>4, Zenon
          <5>2. PICK j \in DOMAIN Q : j > i + n /\ Q[j].uuid = u
            BY <4>2, <5>1, Zenon
          <5>3. j \notin 1 .. n /\ j - n > i
            BY <1>3, <5>1, <5>2
          <5>4. j - n \in DOMAIN Q1 /\ Q1[j - n].uuid = u
            BY <1>5, <5>2, <5>3, Zenon
          <5> QED BY <5>3, <5>4, Zenon
        <4> QED BY <4>3, <4>4, Zenon
      <3> QED BY <3>2, <3>3, Zenon
    <2>3. reinit_triggered_' = reinit_triggered_ /\ db' = db
      BY <1>2, Zenon DEF others
    <2> QED BY <1>19, <2>1, <2>2, <2>3, Zenon DEF DeletesFollowed
  <1>21. CacheState'
    <2> SUFFICES ASSUME ~reinit_triggered_, NEW u \in UUIDs
                 PROVE  /\ Unscanned(u) => object_cache_map_[u] = 0 /\ RequestOf(u)' = "none" /\ ~Queued(u)'
                        /\ amqp # "none" =>
                              Unscanned(u) \/ RequestOf(u)' # "none" \/ Queued(u)' \/ Announced(u) \/ InStep(u)
      BY <1>2, <1>19, Zenon DEF CacheState, others
    <2>1. /\ Unscanned(u) => object_cache_map_[u] = 0 /\ RequestOf(u) = "none" /\ ~Queued(u)
          /\ amqp # "none" => Unscanned(u) \/ RequestOf(u) # "none" \/ Queued(u) \/ Announced(u) \/ InStep(u)
      BY Zenon DEF CacheState
    <2>2. CASE HashUUID[u] # p
      BY <1>17, <2>1, <2>2, Zenon
    <2>3. CASE HashUUID[u] = p
      <3>0. /\ u \in Keys /\ RequestOf(u) = S[u] /\ RequestOf(u)' = S1[u]
            /\ (Queued(u) <=> \E i \in DOMAIN Q : Q[i].uuid = u)
            /\ (Queued(u)' <=> \E i \in DOMAIN Q1 : Q1[i].uuid = u)
        BY <1>18, <2>3, KeysNat, Zenon
      <3>1. RequestOf(u) = "none" /\ ~Queued(u) => RequestOf(u)' = "none" /\ ~Queued(u)'
        <4>1. (\E i \in DOMAIN Q1 : Q1[i].uuid = u) => \E j \in DOMAIN Q : Q[j].uuid = u
          BY <1>4
        <4>2. ~(\E i \in DOMAIN Q : Q[i].uuid = u) => S1[u] = S[u]
          BY <1>7, <3>0, Zenon
        <4> QED BY <3>0, <4>1, <4>2, Zenon
      <3>2. RequestOf(u) # "none" => RequestOf(u)' # "none"
        BY <1>8, <3>0, Zenon
      <3>3. Queued(u) => RequestOf(u)' # "none" \/ Queued(u)'
        BY <1>5, <1>8, <3>0, Zenon
      <3> QED BY <2>1, <3>1, <3>2, <3>3, Zenon
    <2> QED BY <2>2, <2>3, Zenon
  <1> QED BY <1>2, <1>9, <1>10, <1>11, <1>12, <1>13, <1>14, <1>15, <1>16, <1>20, <1>21,
             PartitionStep, Zenon

LEMMA ReaderTaskInv ==
  ASSUME Premises, IInv, NEW p \in Partitions, ReaderTask(p)
  PROVE  IInv'
  BY ConfigReaderStartInv, ConfigReaderStopsInv, ConfigReaderBunchesInv, ConfigReaderReadsInv,
     ConfigReaderDeletesInv, ConfigReaderEndOfConfigInv, ConfigReaderReturnsInv, Zenon
     DEF ReaderTask

-----------------------------------------------------------------------------
(* The invariant, and what follows from it.                                *)

LEMMA InitInv == ASSUME Premises, Init PROVE IInv
  <1>1. Cardinality(Partitions) \in Nat /\ EndUUID \in Keys /\ 0 \notin UUIDs /\ UUIDs \subseteq Keys
    BY PartitionsCount, KeysNat, Zenon
  <1>2. NotRunning \in Readers /\ NotRunning.pc = "none" /\ NotRunning.it = -1 /\ NotRunning.bunch = {}
    BY Zenon DEF NotRunning, Readers
  <1>3. NoRequest \in Requests /\ NoRequest.oper = "none"
    BY <1>1, Zenon DEF NoRequest, Requests, Opers
  <1>4. \A p \in Partitions : /\ obj_process_queue_[p] = <<>> /\ Empty(uuid_read_set_[p])
                              /\ config_reader_[p] = NotRunning
    BY Zenon DEF Init, Empty
  <1>5. TypeOK
    <2>1. /\ obj_process_queue_ \in [Partitions -> Seq(Requests)] /\ messages \in Seq(Requests)
          /\ uuid_read_set_ \in [Partitions -> [Keys -> Opers]] /\ db \in [UUIDs -> Nat]
          /\ object_cache_map_ \in [UUIDs -> Nat]
      BY DEF Init, Opers
    <2>2. config_reader_ \in [Partitions -> Readers]
      BY <1>2, Zenon DEF Init
    <2>3. 0 \in 0 .. MaxReinits /\ 0 \in 0 .. Cardinality(Partitions) /\ 0 \in 0 .. MaxWrites
      BY <1>1 DEF Premises, Configured
    <2>4. publishing \in Requests
      BY <1>3, Zenon DEF Init
    <2> QED BY <2>1, <2>2, <2>3, <2>4, Zenon DEF Init, TypeOK, Readers
  <1>6. NoStrandedRequest /\ SyncAccounted
    <2>1. {p \in Partitions : EndPending(p)} = {}
      BY <1>1, <1>4 DEF EndPending, Empty
    <2>2. Cardinality({}) = 0
      BY EmptyCount, Zenon
    <2> QED BY <1>4, <2>1, <2>2, Zenon DEF Init, NoStrandedRequest, SyncAccounted
  <1>7. RequestTypes
    <2>1. obj_process_queue_ \in [Partitions -> Seq(ObjectRequests \cup {EndRequest})] /\ messages \in Seq(Changes)
      BY DEF Init
    <2> QED BY <1>1, <1>4, <2>1 DEF Init, RequestTypes, Empty
  <1>8. GenerationState
    <2>1. {c \in Callers : caller[c] = "flag"} = {}
      BY Zenon DEF Init
    <2>2. Cardinality({}) = 0
      BY EmptyCount, Zenon
    <2>3. generation_number_ = 0 /\ reinit_triggered_ = FALSE /\ reinits = 0
      BY Zenon DEF Init
    <2>4. (IF reinit_triggered_ THEN 1 ELSE 0) = 0
      BY <2>3, Zenon
    <2> QED BY <2>1, <2>2, <2>3, <2>4 DEF GenerationState
  <1>9. TaskState
    BY <1>2, <1>4, Zenon DEF Init, TaskState, AmqpRunning, InitRunning, FQNameReaderRunning
  <1>10. ClientState
    BY <1>2, <1>4, Zenon DEF Init, ClientState, Fresh, AmqpRunning
  <1>11. EndState
    BY <1>1, <1>4 DEF Init, EndState
  <1>12. ReaderState
    BY <1>2, <1>4, Zenon DEF ReaderState, Empty
  <1>13. \A u \in UUIDs : HashUUID[u] \in Partitions
    BY Zenon DEF Premises, Configured
  <1>14. DeletesFollowed /\ CacheState
    <2>1. \A u \in UUIDs : RequestOf(u) = "none" /\ QueueOf(u) = <<>> /\ ~Queued(u) /\ ~Unscanned(u)
      BY <1>1, <1>4, <1>13 DEF RequestOf, QueueOf, Queued, Unscanned, Empty, Init
    <2>2. messages = <<>> /\ publishing = NoRequest /\ amqp = "none"
          /\ \A u \in UUIDs : object_cache_map_[u] = 0
      BY Zenon DEF Init
    <2>3. NoRequest.oper # "DELETE"
      BY <1>3, Zenon
    <2>4. DeletesFollowed
      BY <2>1, <2>2, <2>3, EmptyDomain, Zenon DEF DeletesFollowed
    <2> QED BY <2>1, <2>2, <2>4, Zenon DEF CacheState
  <1> QED BY <1>5, <1>6, <1>7, <1>8, <1>9, <1>10, <1>11, <1>12, <1>14, Zenon DEF IInv, SyncState

LEMMA NextInv == ASSUME Premises, IInv, [Next]_vars PROVE IInv'
  BY InitTaskInv, AmqpTaskInv, FQNameTaskInv, ReinitInv, ObjectProcessorInv, ReaderTaskInv,
     ConfigReaderFailsInv, WriteObjectInv, PublishInv, StutterInv, Zenon DEF Next

\* Only the Init task raises the count of the bulk sync.
LEMMA BulkSyncStarts ==
  ASSUME IInv, Next, ~InitDatabase
  PROVE  bulk_sync_status_' \in {bulk_sync_status_, 0, bulk_sync_status_ - 1}
  <1>1. CASE InitTask
    BY <1>1, Zenon
       DEF InitTask, InitStart, InitConfigClient, StartRabbitMQReader, InitReturns, InitReset,
           PostShutdown, FreshClient
  <1>2. CASE AmqpTask
    BY <1>2, Zenon DEF AmqpTask, AmqpRun, WaitForEndOfConfig, AmqpStops, ReceiveRabbitMessages
  <1>3. CASE FQNameTask
    BY <1>3, Zenon
       DEF FQNameTask, FQNameReaderStart, FQNameReaderAborts, FQNameReader, FQNameReaderNoMore,
           FQNameReaderEnds
  <1>4. ASSUME NEW c \in Callers, Reinit(c)
        PROVE  bulk_sync_status_' = bulk_sync_status_
    BY <1>4, Zenon DEF Reinit, ReinitNotify, ReinitFlag, ReinitSet
  <1>5. ASSUME NEW p \in Partitions, ObjectProcessor(p) \/ ReaderTask(p) \/ ConfigReaderFails(p)
        PROVE  bulk_sync_status_' \in {bulk_sync_status_, bulk_sync_status_ - 1}
    BY <1>5, Zenon
       DEF ObjectProcessor, ReaderTask, ConfigReaderStart, ConfigReaderStops,
           ConfigReaderBunches, ConfigReaderReads, ConfigReaderDeletes,
           ConfigReaderEndOfConfig, ConfigReaderReturns, ConfigReaderFails, BulkSyncDone
  <1>6. ASSUME NEW u \in UUIDs, WriteObject(u)
        PROVE  bulk_sync_status_' = bulk_sync_status_
    BY <1>6, Zenon DEF WriteObject
  <1>7. CASE Publish
    BY <1>7, Zenon DEF Publish
  <1> QED BY <1>1, <1>2, <1>3, <1>4, <1>5, <1>6, <1>7, Zenon DEF Next

Untouched ==
  /\ bulk_sync_status_ = 0 /\ ~end_of_rib_computed_ /\ fq_name_reader_ = "none"
  /\ \A p \in Partitions : obj_process_queue_[p] = <<>> /\ Empty(uuid_read_set_[p])

LEMMA StartsUntouched ==
  ASSUME Premises, IInv, Next, bulk_sync_status_' > bulk_sync_status_
  PROVE  Untouched
  <1> TypeOK /\ ClientState
    BY InvParts, Zenon
  <1>1. bulk_sync_status_ \in Nat
    <2>1. bulk_sync_status_ \in 0 .. Cardinality(Partitions)
      BY Zenon DEF TypeOK
    <2> QED BY <2>1, PartitionsCount
  <1>2. InitDatabase
    BY <1>1, BulkSyncStarts
  <1> QED BY <1>2, Zenon DEF InitDatabase, ClientState, Fresh, Untouched

\* Only PostShutdown starts a generation.
LEMMA GenerationStarts ==
  ASSUME Next, generation_number_' # generation_number_
  PROVE  init = "check" /\ ~IsTaskTriggered
  <1>1. CASE InitTask
    BY <1>1, Zenon
       DEF InitTask, InitStart, InitConfigClient, StartRabbitMQReader, InitDatabase,
           InitReturns, InitReset
  <1>2. CASE AmqpTask
    BY <1>2, Zenon DEF AmqpTask, AmqpRun, WaitForEndOfConfig, AmqpStops, ReceiveRabbitMessages
  <1>3. CASE FQNameTask
    BY <1>3, Zenon
       DEF FQNameTask, FQNameReaderStart, FQNameReaderAborts, FQNameReader, FQNameReaderNoMore,
           FQNameReaderEnds
  <1>4. ASSUME NEW c \in Callers, Reinit(c)
        PROVE  FALSE
    BY <1>4, Zenon DEF Reinit, ReinitNotify, ReinitFlag, ReinitSet
  <1>5. ASSUME NEW p \in Partitions, ObjectProcessor(p) \/ ReaderTask(p) \/ ConfigReaderFails(p)
        PROVE  FALSE
    BY <1>5, Zenon
       DEF ObjectProcessor, ReaderTask, ConfigReaderStart, ConfigReaderStops,
           ConfigReaderBunches, ConfigReaderReads, ConfigReaderDeletes,
           ConfigReaderEndOfConfig, ConfigReaderReturns, ConfigReaderFails
  <1>6. ASSUME NEW u \in UUIDs, WriteObject(u)
        PROVE  FALSE
    BY <1>6, Zenon DEF WriteObject
  <1>7. CASE Publish
    BY <1>7, Zenon DEF Publish
  <1> QED BY <1>1, <1>2, <1>3, <1>4, <1>5, <1>6, <1>7, Zenon DEF Next

Idle ==
  /\ fq_name_reader_ = "none" /\ \A p \in Partitions : config_reader_[p].pc = "none"
  /\ amqp = "none"

LEMMA DestroysIdle ==
  ASSUME Premises, IInv, Next, generation_number_' # generation_number_
  PROVE  Idle
  <1> TaskState
    BY InvParts, Zenon
  <1>1. init = "check" /\ ~IsTaskTriggered
    BY GenerationStarts, Zenon
  <1>2. amqp = "none"
    BY <1>1, Zenon DEF TaskState, AmqpRunning
  <1> QED BY <1>1, <1>2, Zenon DEF IsTaskTriggered, Idle

LEMMA InvConverged == ASSUME Premises, IInv PROVE Converged
  <1> SUFFICES ASSUME Quiet, NEW u \in UUIDs PROVE InStep(u)
    BY Zenon DEF Converged
  <1> SyncAccounted /\ TaskState /\ CacheState
    BY InvParts, Zenon
  <1>1. fq_name_reader_ = "none" /\ init # "db"
    <2>1. bulk_sync_status_ = 0 /\ (fq_name_reader_ # "none" => bulk_sync_status_ = Cardinality(Partitions))
      BY Zenon DEF Quiet, SyncAccounted
    <2>2. init \in {"none", "queued"}
      BY Zenon DEF Quiet, TaskState, AmqpRunning
    <2>3. Cardinality(Partitions) # 0
      BY PartitionsCount
    <2> QED BY <2>1, <2>2, <2>3, Zenon
  <1>2. HashUUID[u] \in Partitions /\ u \in Keys /\ u # EndUUID
    BY KeysNat, Zenon DEF Premises, Configured
  <1>3. ~Unscanned(u) /\ RequestOf(u) = "none" /\ ~Queued(u)
    <2>1. Empty(uuid_read_set_[HashUUID[u]]) /\ QueueOf(u) = <<>>
      BY <1>2, Zenon DEF Quiet, QueueOf
    <2> QED BY <1>1, <1>2, <2>1, EmptyDomain, Zenon DEF Unscanned, RequestOf, Queued, Empty
  <1>4. ~Announced(u)
    <2>1. messages = <<>> /\ publishing = NoRequest
      BY Zenon DEF Quiet
    <2>2. NoRequest.uuid = EndUUID
      BY DEF NoRequest
    <2> QED BY <1>2, <2>1, <2>2, EmptyDomain, Zenon DEF Announced
  <1> QED BY <1>3, <1>4, Zenon DEF CacheState, Quiet

-----------------------------------------------------------------------------
(* The facts the lemmas start from, and the theorems.                       *)

F == INSTANCE FiniteSetTheorems
W == INSTANCE WellFoundedInduction

LEMMA CountingHolds == Counting
  <1>1. \A S : F!IsFiniteSet(S) <=> IsFiniteSet(S)
    BY Zenon DEF F!IsFiniteSet, IsFiniteSet
  <1>2. \A S : F!Cardinality(S) = Cardinality(S)
    BY <1>1, Zenon DEF F!Cardinality, Cardinality
  <1>3. ASSUME NEW S, F!IsFiniteSet(S)
        PROVE  /\ F!Cardinality(S) \in Nat /\ (F!Cardinality(S) = 0 <=> S = {})
               /\ \A T \in SUBSET S : F!IsFiniteSet(T)
               /\ \A x \in S : F!Cardinality(S \ {x}) = F!Cardinality(S) - 1
               /\ \A x : x \notin S => F!Cardinality(S \cup {x}) = F!Cardinality(S) + 1
    BY <1>3, F!FS_CardinalityType, F!FS_EmptySet, F!FS_Subset, F!FS_RemoveElement,
       F!FS_AddElement, Zenon
  <1>4. F!IsFiniteSet({})
    BY F!FS_EmptySet, Zenon
  <1> QED BY <1>1, <1>2, <1>3, <1>4, Zenon DEF Counting

LEMMA NatOrderHolds == NatOrder
  <1> SUFFICES ASSUME NEW S \in SUBSET Nat, S # {}
               PROVE  \E m \in S : \A n \in S : m <= n
    BY Zenon DEF NatOrder
  <1>1. PICK m \in S : \A n \in S : ~ (<<n, m>> \in W!OpToRel(<, Nat))
    BY W!NatLessThanWellFounded, W!WFMin, Zenon
  <1>2. \A n \in S : ~ (n < m)
    BY <1>1, Zenon DEF W!OpToRel
  <1> QED BY <1>2

LEMMA LibraryFacts == Premises
  BY ConfigAssumption, NatOrderHolds, CountingHolds, Zenon DEF Premises

\* The inductive invariant: what the manager, the tasks and the requests on their
\* way have to do with each other.
THEOREM ConfigInvariance == Spec => []IInv
  <1>1. Init => IInv
    BY LibraryFacts, InitInv, Zenon
  <1>2. IInv /\ [Next]_vars => IInv'
    BY LibraryFacts, NextInv, Zenon
  <1> QED BY <1>1, <1>2, PTL DEF Spec

\* In every generation the partitions, their readers and the count of the bulk
\* sync agree: no request is stranded, and EndOfConfig's assertions hold.
THEOREM SyncStateHolds == Spec => []SyncState
  <1>1. IInv => SyncState
    BY Zenon DEF IInv
  <1> QED BY <1>1, ConfigInvariance, PTL

\* When nothing is on its way, the cache is what the database holds, but for what
\* was removed without an FQ name: no change falls between the bulk sync and the
\* notifications.
THEOREM Convergence == Spec => []Converged
  <1>1. IInv => Converged
    BY LibraryFacts, InvConverged, Zenon
  <1> QED BY <1>1, ConfigInvariance, PTL

\* A bulk sync starts on an untouched client only: no Init task runs beside or
\* after the client of another one.
THEOREM BulkSyncStartsOnce == Spec => BulkSyncOnce
  <1>1. IInv /\ [Next]_vars => [bulk_sync_status_' > bulk_sync_status_ => Untouched]_vars
    BY LibraryFacts, StartsUntouched, Zenon
  <1> QED BY <1>1, ConfigInvariance, PTL DEF Spec, BulkSyncOnce, Untouched

\* Clients are destroyed when none of their triggers is set and no RabbitMQReader
\* of theirs is left.
THEOREM DestructionIdle == Spec => DestroyedIdle
  <1>1. IInv /\ [Next]_vars => [generation_number_' # generation_number_ => Idle]_vars
    BY LibraryFacts, DestroysIdle, Zenon
  <1> QED BY <1>1, ConfigInvariance, PTL DEF Spec, DestroyedIdle, Idle
=============================================================================
