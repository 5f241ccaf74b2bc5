--------------------------- MODULE TcpServerProofs ---------------------------
(***************************************************************************)
(* The sessions of io/tcp_server.cc and io/tcp_session.cc are accounted    *)
(* for, each has at most one write under way, and no read stalls, for      *)
(* every set of sessions and every size of message.                        *)
(***************************************************************************)
EXTENDS TcpServer, SequenceTheorems, TLAPS

\* The inductive invariant, by the variables that its parts are about.
Core == MapExact /\ SessionStates /\ IoConsistent /\ AppConsistent
Writer == OneWriter /\ WriterConsistent
Reader == ReadNeverStalls /\ ReaderConsistent
IInv == TypeOK /\ Core /\ Kept /\ Writer /\ Reader

-----------------------------------------------------------------------------
(* Facts about states.                                                     *)

KeptAlive == TypeOK /\ Core /\ Kept /\ Writer => NoDanglingSession

\* An established session is in a list of references, or its writer, which has
\* data, or the event-manager thread holds it.
LEMMA KeptIsReferenced == KeptAlive
  <1> SUFFICES ASSUME TypeOK, Core, Kept, Writer, NEW s \in established_ \cup session_map_
               PROVE  Referenced(s)
    BY Zenon DEF KeptAlive, NoDanglingSession
  <1>0. s \in Sessions
    BY Zenon DEF TypeOK
  <1>1. CASE s \notin established_
    BY <1>0, <1>1, Zenon DEF Core, MapExact, Referenced
  <1>2. CASE s \in established_
    <2>1. s \notin closed_ /\ connecting[s] # "new"
      BY <1>2, Zenon DEF Core, SessionStates
    <2>2. CASE s \in session_ref_ \cup app.refs \/ io.s = s
      BY <2>2, Zenon DEF Referenced
    <2>3. CASE s \in tcp_close_in_progress_ /\ io.s # s
      <3>1. buffer_queue_[s] # <<>>
        BY <2>3, Zenon DEF Kept
      <3>2. writes[s].post + writes[s].flight = 1
        BY <1>0, <2>1, <3>1, Zenon DEF Writer, OneWriter
      <3> QED BY <3>2 DEF Referenced
    <2> QED BY <1>0, <2>1, <2>2, <2>3, Zenon DEF Kept
  <1> QED BY <1>1, <1>2, Zenon

\* MapExact, session by session.
InMap(s) ==
    \/ s \in established_ /\ ~(io.pc = "accepted" /\ io.s = s)
    \/ io.s = s /\ io.pc \in {"connected", "unmap", "notify"}
    \/ app.s = s /\ app.pc = "notify"
MapOf == \A s \in Sessions : s \in session_map_ <=> InMap(s)
MapMembers == TypeOK => (MapExact <=> MapOf)

LEMMA MapByMember == MapMembers
  <1> SUFFICES ASSUME TypeOK PROVE MapExact <=> MapOf
    BY Zenon DEF MapMembers
  <1>1. \A s \in Sessions : io = [pc |-> "accepted", s |-> s] <=> io.pc = "accepted" /\ io.s = s
    <2>1. io = [pc |-> io.pc, s |-> io.s]
      BY Zenon DEF TypeOK, IoType, IoIdle
    <2> QED BY <2>1
  <1>2. session_map_ \subseteq Sessions /\ established_ \subseteq Sessions
    BY Zenon DEF TypeOK
  <1> QED BY <1>1, <1>2, Zenon DEF MapExact, MapOf, InMap

\* The members that are sessions or sets of them.
SetTypes ==
    /\ session_ref_ \subseteq Sessions /\ session_map_ \subseteq Sessions
    /\ established_ \subseteq Sessions /\ closed_ \subseteq Sessions
    /\ tcp_close_in_progress_ \subseteq Sessions /\ defer_reader_ \subseteq Sessions
    /\ app.refs \subseteq Sessions /\ app.todo \subseteq Sessions
    /\ app.s \in Sessions \cup {NULL} /\ io.s \in Sessions \cup {NULL}
    /\ NULL \notin Sessions

LEMMA SetsTyped == ASSUME TypeOK PROVE SetTypes
  <1>1. io.s \in Sessions \cup {NULL}
    BY DEF TypeOK, IoType, IoIdle
  <1>2. NULL \notin Sessions
    BY TcpAssumption, Zenon DEF Sessions
  <1> QED BY <1>1, <1>2, Zenon DEF TypeOK, AppType, SetTypes

LEMMA CoreFrame ==
  ASSUME Core, UNCHANGED <<session_ref_, session_map_, stateVars, connecting, io, app>>
  PROVE  Core'
  BY Zenon DEF Core, MapExact, SessionStates, IoConsistent, AppConsistent, Clearing, stateVars

\* A step of somebody else may close a session, and opens none that has data.
LEMMA WriterFrame ==
  ASSUME Writer, UNCHANGED writerVars, closed_ \subseteq closed_',
         established_ \ closed_' \subseteq established_'
  PROVE  Writer'
  BY Zenon DEF Writer, OneWriter, WriterConsistent, writerVars

LEMMA ReaderFrame ==
  ASSUME Reader, UNCHANGED readerVars,
         \A s \in Sessions : connecting[s] # "new" => connecting'[s] # "new",
         established_' \ (tcp_close_in_progress_' \cup {io'.s})
            \subseteq established_ \ (tcp_close_in_progress_ \cup {io.s})
  PROVE  Reader'
  BY Zenon DEF Reader, ReadNeverStalls, ReaderConsistent, readerVars

-----------------------------------------------------------------------------
(* The reader.                                                             *)

ReadsType == [post : Nat, flight : Nat, task : Nat, after : Nat]
Reading(r) == r.post + r.flight + r.task + r.after

\* A step of the reader of s: the others see nothing of it, and unless s is
\* closing or deferred a read is still posted, outstanding or being served.
LEMMA ReaderInv ==
  ASSUME IInv, NEW s \in Sessions,
         UNCHANGED <<serverVars, stateVars, writerVars, connecting, io, app, sends>>,
         reads' \in [Sessions -> ReadsType],
         \A t \in Sessions \ {s} : reads'[t] = reads[t] /\ (t \in defer_reader_ => t \in defer_reader_'),
         defer_reader_' \subseteq Sessions, toggles' \in 0 .. MaxToggles,
         s \in established_ \ (tcp_close_in_progress_ \cup defer_reader_') => Reading(reads'[s]) > 0,
         connecting[s] # "new"
  PROVE  IInv'
  <1>1. TypeOK'
    BY Zenon DEF IInv, TypeOK, ReadsType, serverVars, stateVars, writerVars
  <1>2. Core' /\ Writer'
    BY CoreFrame, WriterFrame, Zenon DEF IInv, serverVars, stateVars
  <1>3. Kept'
    BY Zenon DEF IInv, Kept, serverVars, stateVars, writerVars
  <1>4. ReadNeverStalls'
    BY Zenon DEF IInv, Reader, ReadNeverStalls, TypeOK, ReadsType, Reading, stateVars
  <1>5. ReaderConsistent'
    BY Zenon DEF IInv, Reader, ReaderConsistent
  <1> QED BY <1>1, <1>2, <1>3, <1>4, <1>5, Zenon DEF IInv, Reader

LEMMA ReadStepInv ==
  ASSUME IInv, NEW s \in Sessions,
         \/ AsyncReadStartInternal(s) \/ AsyncReadHandler(s) \/ ReaderRun(s) \/ ReaderRunAfter(s)
  PROVE  IInv'
  <1>0. /\ reads \in [Sessions -> ReadsType]
        /\ toggles \in 0 .. MaxToggles /\ defer_reader_ \subseteq Sessions
    BY Zenon DEF IInv, TypeOK, ReadsType
  <1>1. s \in established_ => s \notin closed_
    BY Zenon DEF IInv, Core, SessionStates
  <1>6. connecting[s] # "new"
    BY <1>0
       DEF IInv, Reader, ReaderConsistent, ReadsType, AsyncReadStartInternal, AsyncReadHandler,
           ReaderRun, ReaderRunAfter
  <1>2. CASE AsyncReadStartInternal(s)
    <2>1. reads' \in [Sessions -> ReadsType]
      <3> DEFINE f == IF IsEstablishedLocked(s) THEN reads[s].flight + 1 ELSE reads[s].flight
      <3>1. reads' = [reads EXCEPT ![s].post = @ - 1, ![s].flight = f]
        BY <1>2, Zenon DEF AsyncReadStartInternal
      <3>2. f \in Nat /\ reads[s].post - 1 \in Nat
        BY <1>0, <1>2 DEF AsyncReadStartInternal, ReadsType
      <3> HIDE DEF f
      <3> QED BY <1>0, <3>1, <3>2, Zenon DEF ReadsType
    <2>2. \A t \in Sessions \ {s} : reads'[t] = reads[t]
      BY <1>0, <1>2, Zenon DEF AsyncReadStartInternal
    <2>3. s \in established_ \ (tcp_close_in_progress_ \cup defer_reader_') => Reading(reads'[s]) > 0
      BY <1>0, <1>2 DEF Reading, ReadsType, IsEstablishedLocked, AsyncReadStartInternal
    <2> QED BY <1>0, <1>2, <2>1, <2>2, <2>3, <1>6, ReaderInv, Zenon DEF AsyncReadStartInternal
  <1>3. CASE AsyncReadHandler(s)
    <2>1. reads' \in [Sessions -> ReadsType]
      <3> DEFINE f == IF s \in closed_ THEN reads[s].task ELSE reads[s].task + 1
      <3>1. reads' = [reads EXCEPT ![s].flight = @ - 1, ![s].task = f]
        BY <1>3, Zenon DEF AsyncReadHandler
      <3>2. f \in Nat /\ reads[s].flight - 1 \in Nat
        BY <1>0, <1>3 DEF AsyncReadHandler, ReadsType
      <3> HIDE DEF f
      <3> QED BY <1>0, <3>1, <3>2, Zenon DEF ReadsType
    <2>2. \A t \in Sessions \ {s} : reads'[t] = reads[t]
      BY <1>0, <1>3, Zenon DEF AsyncReadHandler
    <2>3. s \in established_ \ (tcp_close_in_progress_ \cup defer_reader_') => Reading(reads'[s]) > 0
      BY <1>0, <1>1, <1>3 DEF Reading, ReadsType, AsyncReadHandler
    <2> QED BY <1>0, <1>3, <2>1, <2>2, <2>3, <1>6, ReaderInv, Zenon DEF AsyncReadHandler
  <1>4. CASE ReaderRun(s)
    <2>1. reads' \in [Sessions -> ReadsType]
      <3> DEFINE f == IF s \in established_ THEN reads[s].after + 1 ELSE reads[s].after
      <3>1. reads' = [reads EXCEPT ![s].task = @ - 1, ![s].after = f]
        BY <1>4, Zenon DEF ReaderRun
      <3>2. f \in Nat /\ reads[s].task - 1 \in Nat
        BY <1>0, <1>4 DEF ReaderRun, ReadsType
      <3> HIDE DEF f
      <3> QED BY <1>0, <3>1, <3>2, Zenon DEF ReadsType
    <2>2. \A t \in Sessions \ {s} : reads'[t] = reads[t]
      BY <1>0, <1>4, Zenon DEF ReaderRun
    <2>3. s \in established_ \ (tcp_close_in_progress_ \cup defer_reader_') => Reading(reads'[s]) > 0
      BY <1>0, <1>4 DEF Reading, ReadsType, ReaderRun
    <2> QED BY <1>0, <1>4, <2>1, <2>2, <2>3, <1>6, ReaderInv, Zenon DEF ReaderRun
  <1>5. CASE ReaderRunAfter(s)
    <2>1. reads' \in [Sessions -> ReadsType]
      BY <1>0, <1>5 DEF ReaderRunAfter, AsyncReadStart, ReadsType
    <2>2. \A t \in Sessions \ {s} : reads'[t] = reads[t]
      BY <1>0, <1>5, Zenon DEF ReaderRunAfter, AsyncReadStart
    <2>3. s \in established_ \ (tcp_close_in_progress_ \cup defer_reader_') => Reading(reads'[s]) > 0
      BY <1>0, <1>5 DEF Reading, ReadsType, ReaderRunAfter, AsyncReadStart
    <2> QED BY <1>0, <1>5, <2>1, <2>2, <2>3, <1>6, ReaderInv, Zenon DEF ReaderRunAfter
  <1> QED BY <1>2, <1>3, <1>4, <1>5, Zenon

LEMMA SetDeferReaderInv ==
  ASSUME IInv, NEW s \in Sessions, SetDeferReader(s)
  PROVE  IInv'
  <1>0. /\ reads \in [Sessions -> ReadsType]
        /\ toggles \in 0 .. MaxToggles /\ defer_reader_ \subseteq Sessions
    BY Zenon DEF IInv, TypeOK, ReadsType
  <1>1. reads' \in [Sessions -> ReadsType]
    BY <1>0 DEF SetDeferReader, AsyncReadStart, ReadsType
  <1>2. \A t \in Sessions \ {s} : reads'[t] = reads[t]
    BY <1>0, Zenon DEF SetDeferReader, AsyncReadStart
  <1>3. s \in defer_reader_' \/ Reading(reads'[s]) > 0
    BY <1>0 DEF Reading, ReadsType, SetDeferReader, AsyncReadStart
  <1>4. toggles' \in 0 .. MaxToggles
    BY <1>0, TcpAssumption DEF SetDeferReader
  <1>5. connecting[s] # "new"
    <2>1. CASE s \in session_ref_
      BY <2>1, Zenon DEF IInv, Core, SessionStates
    <2>2. CASE reads[s].after > 0
      <3>1. reads[s].post + reads[s].flight + reads[s].task + reads[s].after > 0
        BY <1>0, <2>2 DEF ReadsType
      <3> QED BY <3>1, Zenon DEF IInv, Reader, ReaderConsistent
    <2> QED BY <2>1, <2>2, Zenon DEF SetDeferReader
  <1> QED BY <1>0, <1>1, <1>2, <1>3, <1>4, <1>5, ReaderInv, Zenon DEF SetDeferReader

-----------------------------------------------------------------------------
(* The writer.                                                             *)

\* The first buffer of a queue to which one is appended, or from which one is
\* taken.
LEMMA QueueFacts ==
  ASSUME NEW S, NEW q \in Seq(S)
  PROVE  /\ q # <<>> => q[1] \in S /\ Tail(q) \in Seq(S)
         /\ \A e \in S : /\ Append(q, e) \in Seq(S) /\ Append(q, e) # <<>>
                         /\ Append(q, e)[1] = IF q = <<>> THEN e ELSE q[1]
  <1>1. Len(q) \in Nat /\ (q # <<>> <=> Len(q) > 0)
    BY EmptySeq, LenProperties
  <1>2. q # <<>> => q[1] \in S /\ Tail(q) \in Seq(S)
    BY <1>1, HeadTailProperties, ElementOfSeq
  <1>3. ASSUME NEW e \in S
        PROVE  /\ Append(q, e) \in Seq(S) /\ Append(q, e) # <<>>
               /\ Append(q, e)[1] = IF q = <<>> THEN e ELSE q[1]
    <2>1. CASE q = <<>>
      BY <1>1, <2>1, AppendProperties
    <2>2. CASE q # <<>>
      BY <1>1, <2>2, AppendProperties
    <2> QED BY <2>1, <2>2, Zenon
  <1> QED BY <1>2, <1>3, Zenon

WriterTypes ==
    /\ buffer_queue_ \in [Sessions -> Seq(Nat \ {0})]
    /\ offset_ \in [Sessions -> Nat] /\ last_write_ \in [Sessions -> Nat]
    /\ writes \in [Sessions -> [post : Nat, flight : Nat]]
    /\ write_blocked_ \subseteq Sessions

\* What Writer says of one session.
WriterOf(s) ==
    /\ writes[s].post + writes[s].flight = (IF buffer_queue_[s] = <<>> THEN 0 ELSE 1)
    /\ last_write_[s] > 0 <=> writes[s].flight > 0
    /\ buffer_queue_[s] # <<>> => s \in established_ /\ offset_[s] < buffer_queue_[s][1]
    /\ buffer_queue_[s] = <<>> => offset_[s] = 0
    /\ writes[s].flight > 0 => offset_[s] + last_write_[s] <= buffer_queue_[s][1]

\* A step of the writer of s: a close that waits for it goes on waiting, or is
\* left to the event-manager thread.
LEMMA WriterInv ==
  ASSUME IInv, NEW s \in Sessions,
         UNCHANGED <<serverVars, stateVars, readerVars, connecting, app, toggles>>,
         WriterTypes', sends' \in 0 .. MaxSends,
         \A t \in Sessions \ {s} : /\ buffer_queue_'[t] = buffer_queue_[t]
                                   /\ offset_'[t] = offset_[t]
                                   /\ last_write_'[t] = last_write_[t]
                                   /\ writes'[t] = writes[t],
         s \in closed_ \/ WriterOf(s)',
         \/ io' = io /\ (s \in tcp_close_in_progress_ => buffer_queue_'[s] # <<>>)
         \/ io = IoIdle /\ io' = [pc |-> "close", s |-> s] /\ s \in established_
  PROVE  IInv'
  <1>0. NULL \notin Sessions
    BY TcpAssumption, Zenon DEF Sessions
  <1>1. TypeOK'
    <2>1. io' \in IoType
      BY DEF IInv, TypeOK, IoType
    <2> QED BY <2>1, Zenon DEF IInv, TypeOK, WriterTypes, serverVars, stateVars, readerVars
  <1>2. Writer'
    BY DEF IInv, Writer, OneWriter, WriterConsistent, WriterOf, stateVars
  <1>3. CASE io' = io /\ (s \in tcp_close_in_progress_ => buffer_queue_'[s] # <<>>)
    <2>1. Core'
      BY <1>3, CoreFrame, Zenon DEF IInv, serverVars
    <2>2. Kept'
      BY <1>3, Zenon DEF IInv, Kept, TypeOK, serverVars, stateVars
    <2>3. Reader'
      BY <1>3, ReaderFrame, Zenon DEF IInv, stateVars
    <2> QED BY <1>1, <1>2, <2>1, <2>2, <2>3, Zenon DEF IInv
  <1>4. CASE io = IoIdle /\ io' = [pc |-> "close", s |-> s] /\ s \in established_
    <2>1. Core'
      <3>1. MapExact'
        BY <1>4, Zenon DEF IInv, Core, MapExact, IoIdle, serverVars, stateVars
      <3>2. SessionStates'
        BY <1>4, Zenon DEF IInv, Core, SessionStates, serverVars, stateVars
      <3>3. IoConsistent'
        BY <1>4, Zenon DEF IInv, Core, SessionStates, IoConsistent, IoIdle, serverVars, stateVars
      <3>4. AppConsistent'
        BY <1>4, Zenon DEF IInv, Core, AppConsistent, Clearing, IoIdle, serverVars, stateVars
      <3> QED BY <3>1, <3>2, <3>3, <3>4, Zenon DEF Core
    <2>2. Kept'
      BY <1>0, <1>4, Zenon DEF IInv, Kept, TypeOK, IoIdle, serverVars, stateVars
    <2>3. Reader'
      BY <1>0, <1>4, ReaderFrame DEF IInv, TypeOK, IoIdle, stateVars
    <2> QED BY <1>1, <1>2, <2>1, <2>2, <2>3, Zenon DEF IInv
  <1> QED BY <1>3, <1>4, Zenon

LEMMA SendInv ==
  ASSUME IInv, NEW s \in Sessions, NEW size \in MessageSizes, Send(s, size)
  PROVE  IInv'
  <1> DEFINE q == Append(buffer_queue_[s], size)
  <1>0. /\ WriterTypes /\ size \in Nat \ {0}
        /\ s \in established_ /\ s \notin closed_ /\ s \notin tcp_close_in_progress_
    <2>1. WriterTypes
      BY Zenon DEF IInv, TypeOK, WriterTypes
    <2>2. s \in established_ /\ s \notin closed_ /\ s \notin tcp_close_in_progress_
      BY Zenon DEF IInv, Send, IsEstablishedLocked, Core, SessionStates
    <2> QED BY <2>1, <2>2, TcpAssumption, Zenon
  <1>1. WriterOf(s)
    BY <1>0, Zenon DEF IInv, Writer, OneWriter, WriterConsistent, WriterOf
  <1>2. /\ q \in Seq(Nat \ {0}) /\ q # <<>>
        /\ q[1] = IF buffer_queue_[s] = <<>> THEN size ELSE buffer_queue_[s][1]
    <2>1. buffer_queue_[s] \in Seq(Nat \ {0})
      BY <1>0, Zenon DEF WriterTypes
    <2> QED BY <1>0, <2>1, QueueFacts
  <1>3. /\ buffer_queue_' = [buffer_queue_ EXCEPT ![s] = q]
        /\ UNCHANGED <<offset_, last_write_>>
        /\ write_blocked_' \in {write_blocked_, write_blocked_ \cup {s}}
    BY Zenon DEF Send, AsyncSend
  <1>4. writes' = IF buffer_queue_[s] = <<>> THEN [writes EXCEPT ![s].post = @ + 1] ELSE writes
    BY Zenon DEF Send, AsyncSend, PostsWrite
  <1> HIDE DEF q
  <1>5. WriterTypes'
    <2>1. writes' \in [Sessions -> [post : Nat, flight : Nat]]
      <3>1. writes \in [Sessions -> [post : Nat, flight : Nat]]
        BY <1>0, Zenon DEF WriterTypes
      <3>2. writes' \in {writes, [writes EXCEPT ![s].post = @ + 1]}
        BY <1>4, Zenon
      <3> QED BY <3>1, <3>2
    <2> QED BY <1>0, <1>2, <1>3, <2>1, Zenon DEF WriterTypes
  <1>6. \A t \in Sessions \ {s} : buffer_queue_'[t] = buffer_queue_[t] /\ writes'[t] = writes[t]
    BY <1>0, <1>3, <1>4, Zenon DEF WriterTypes
  <1>7. WriterOf(s)'
    BY <1>0, <1>1, <1>2, <1>3, <1>4 DEF WriterOf, WriterTypes, Send, stateVars
  <1>8. sends' \in 0 .. MaxSends
    BY TcpAssumption DEF IInv, TypeOK, Send
  <1> QED
    BY <1>0, <1>3, <1>5, <1>6, <1>7, <1>8, WriterInv, Zenon DEF Send, AppOnly

\* What TriggerAsyncWrite hands to the socket is some, and no more than the rest
\* of the first buffer.
LEMMA NextWriteFits ==
  ASSUME NEW q \in Seq(Nat \ {0}), q # <<>>, NEW off \in Nat, off < q[1]
  PROVE  /\ NextWrite(q, off) \in Nat \ {0}
         /\ off + NextWrite(q, off) <= q[1]
  <1>1. q[1] \in Nat
    BY QueueFacts
  <1> QED BY <1>1, TcpAssumption DEF NextWrite

LEMMA AsyncWriteInternalInv ==
  ASSUME IInv, NEW s \in Sessions, AsyncWriteInternal(s)
  PROVE  IInv'
  <1>1. WriterTypes
    BY Zenon DEF IInv, TypeOK, WriterTypes
  <1>2. writes[s] \in [post : Nat, flight : Nat] /\ writes[s].post > 0
    BY <1>1, Zenon DEF WriterTypes, AsyncWriteInternal
  <1>3. s \in tcp_close_in_progress_ => buffer_queue_[s] # <<>>
    BY Zenon DEF IInv, Kept, AsyncWriteInternal, IoIdle
  <1>4. CASE s \in closed_
    <2>1. writes' = [writes EXCEPT ![s].post = @ - 1] /\ UNCHANGED last_write_
      BY <1>4, Zenon DEF AsyncWriteInternal
    <2>2. WriterTypes'
      <3>1. writes \in [Sessions -> [post : Nat, flight : Nat]]
        BY <1>1, Zenon DEF WriterTypes
      <3>2. writes' \in [Sessions -> [post : Nat, flight : Nat]]
        BY <1>2, <2>1, <3>1
      <3> QED BY <1>1, <2>1, <3>2, Zenon DEF WriterTypes, AsyncWriteInternal
    <2>3. \A t \in Sessions \ {s} : writes'[t] = writes[t]
      BY <1>1, <2>1, Zenon DEF WriterTypes
    <2> QED BY <1>3, <1>4, <2>1, <2>2, <2>3, WriterInv, Zenon DEF AsyncWriteInternal, IInv, TypeOK
  <1>5. CASE s \notin closed_
    <2> DEFINE n == NextWrite(buffer_queue_[s], offset_[s])
    <2>1. WriterOf(s)
      BY <1>5, Zenon DEF IInv, Writer, OneWriter, WriterConsistent, WriterOf
    <2>2. /\ buffer_queue_[s] \in Seq(Nat \ {0}) /\ buffer_queue_[s] # <<>>
          /\ offset_[s] \in Nat /\ writes[s].post = 1 /\ writes[s].flight = 0
      BY <1>1, <1>2, <2>1 DEF WriterTypes, WriterOf
    <2>3. n \in Nat \ {0} /\ offset_[s] + n <= buffer_queue_[s][1]
      BY <2>1, <2>2, NextWriteFits, Zenon DEF WriterOf
    <2>4. /\ last_write_' = [last_write_ EXCEPT ![s] = n]
          /\ writes' = [writes EXCEPT ![s].post = @ - 1, ![s].flight = @ + 1]
      BY <1>5, Zenon DEF AsyncWriteInternal
    <2> HIDE DEF n
    <2>5. WriterTypes'
      BY <1>1, <1>2, <2>3, <2>4 DEF WriterTypes, AsyncWriteInternal
    <2>6. \A t \in Sessions \ {s} : writes'[t] = writes[t] /\ last_write_'[t] = last_write_[t]
      BY <1>1, <2>4, Zenon DEF WriterTypes
    <2>7. /\ last_write_'[s] = n /\ writes'[s].post = 0 /\ writes'[s].flight = 1
      BY <1>1, <2>2, <2>4 DEF WriterTypes
    <2>8. WriterOf(s)'
      BY <2>1, <2>2, <2>3, <2>7 DEF WriterOf, AsyncWriteInternal, stateVars
    <2> QED BY <1>3, <2>5, <2>6, <2>8, WriterInv, Zenon DEF AsyncWriteInternal, IInv, TypeOK
  <1> QED BY <1>4, <1>5, Zenon

\* What UpdateBufferQueue leaves.
LEMMA WrittenFacts ==
  ASSUME IInv, NEW s \in Sessions \ closed_, writes[s].flight > 0
  PROVE  /\ WriterOf(s) /\ buffer_queue_[s] # <<>> /\ s \in established_
         /\ writes[s].post = 0 /\ writes[s].flight = 1
         /\ Written(s).q \in Seq(Nat \ {0}) /\ Written(s).off \in Nat
         /\ Written(s).q # <<>> => Written(s).off < Written(s).q[1]
         /\ Written(s).q = <<>> => Written(s).off = 0
  <1>0. /\ buffer_queue_[s] \in Seq(Nat \ {0}) /\ writes[s] \in [post : Nat, flight : Nat]
        /\ offset_[s] \in Nat /\ last_write_[s] \in Nat
    BY Zenon DEF IInv, TypeOK
  <1>1. WriterOf(s)
    BY Zenon DEF IInv, Writer, OneWriter, WriterConsistent, WriterOf
  <1>2. /\ buffer_queue_[s] # <<>> /\ s \in established_
        /\ writes[s].post = 0 /\ writes[s].flight = 1
    BY <1>0, <1>1 DEF WriterOf
  <1>3. /\ buffer_queue_[s][1] \in Nat /\ Tail(buffer_queue_[s]) \in Seq(Nat \ {0})
        /\ offset_[s] + last_write_[s] <= buffer_queue_[s][1]
    BY <1>0, <1>1, <1>2, QueueFacts DEF WriterOf
  <1>4. CASE offset_[s] + last_write_[s] = buffer_queue_[s][1]
    <2>1. Written(s).q = Tail(buffer_queue_[s]) /\ Written(s).off = 0
      BY <1>4, Zenon DEF Written
    <2>2. Written(s).q # <<>> => Written(s).q[1] \in Nat \ {0}
      BY <1>3, <2>1, QueueFacts, Zenon
    <2> QED BY <1>1, <1>2, <1>3, <2>1, <2>2
  <1>5. CASE offset_[s] + last_write_[s] # buffer_queue_[s][1]
    <2>1. Written(s).q = buffer_queue_[s] /\ Written(s).off = offset_[s] + last_write_[s]
      BY <1>5, Zenon DEF Written
    <2>2. offset_[s] + last_write_[s] \in Nat /\ offset_[s] + last_write_[s] < buffer_queue_[s][1]
      <3>1. offset_[s] \in Nat /\ last_write_[s] \in Nat /\ buffer_queue_[s][1] \in Nat
        BY <1>0, <1>3, Zenon
      <3>2. offset_[s] + last_write_[s] <= buffer_queue_[s][1]
        BY <1>3, Zenon
      <3> QED BY <1>5, <3>1, <3>2
    <2> QED BY <1>0, <1>1, <1>2, <2>1, <2>2, Zenon
  <1> QED BY <1>4, <1>5, Zenon

LEMMA AsyncWriteHandlerInv ==
  ASSUME IInv, NEW s \in Sessions, AsyncWriteHandler(s)
  PROVE  IInv'
  <1> DEFINE q == Written(s).q
             off == Written(s).off
             n == IF q # <<>> THEN NextWrite(q, off) ELSE 0
  <1>1. WriterTypes
    BY Zenon DEF IInv, TypeOK, WriterTypes
  <1>2. io = IoIdle /\ writes[s].flight > 0 /\ s \notin closed_
    BY Zenon DEF AsyncWriteHandler
  <1>3. /\ WriterOf(s) /\ s \in established_
        /\ writes[s].post = 0 /\ writes[s].flight = 1
        /\ q \in Seq(Nat \ {0}) /\ off \in Nat
        /\ q # <<>> => off < q[1]
        /\ q = <<>> => off = 0
    BY <1>2, WrittenFacts, Zenon
  <1>4. /\ n \in Nat
        /\ q # <<>> => n > 0 /\ off + n <= q[1]
    BY <1>3, NextWriteFits
  <1>5. /\ buffer_queue_' = [buffer_queue_ EXCEPT ![s] = q]
        /\ offset_' = [offset_ EXCEPT ![s] = off]
        /\ last_write_' = [last_write_ EXCEPT ![s] = n]
        /\ write_blocked_' \in {write_blocked_, write_blocked_ \ {s}}
    BY Zenon DEF AsyncWriteHandler
  <1>6. /\ writes' = IF q # <<>> THEN writes ELSE [writes EXCEPT ![s].flight = @ - 1]
        /\ q # <<>> => io' = io
        /\ q = <<>> => io' = IF s \in tcp_close_in_progress_ THEN [pc |-> "close", s |-> s] ELSE io
    BY Zenon DEF AsyncWriteHandler
  <1> HIDE DEF q, off, n
  <1>7. writes' \in [Sessions -> [post : Nat, flight : Nat]]
    <2>1. writes \in [Sessions -> [post : Nat, flight : Nat]]
      BY <1>1, Zenon DEF WriterTypes
    <2>2. writes[s].flight - 1 \in Nat
      BY <1>3
    <2> QED BY <1>6, <2>1, <2>2, Zenon
  <1>8. WriterTypes'
    BY <1>1, <1>3, <1>4, <1>5, <1>7, Zenon DEF WriterTypes
  <1>9. \A t \in Sessions \ {s} : /\ buffer_queue_'[t] = buffer_queue_[t]
                                  /\ offset_'[t] = offset_[t]
                                  /\ last_write_'[t] = last_write_[t]
                                  /\ writes'[t] = writes[t]
    BY <1>1, <1>5, <1>6, Zenon DEF WriterTypes
  <1>10. /\ buffer_queue_'[s] = q /\ offset_'[s] = off /\ last_write_'[s] = n
         /\ writes'[s].post = 0 /\ writes'[s].flight = IF q # <<>> THEN 1 ELSE 0
    BY <1>1, <1>3, <1>5, <1>6 DEF WriterTypes
  <1>11. n > 0 <=> q # <<>>
    BY <1>4 DEF n
  <1>12. WriterOf(s)'
    BY <1>3, <1>4, <1>10, <1>11 DEF WriterOf, AsyncWriteHandler, stateVars
  <1>13. UNCHANGED <<serverVars, stateVars, readerVars, connecting, app, toggles>>
    BY Zenon DEF AsyncWriteHandler
  <1>14. sends' \in 0 .. MaxSends
    BY Zenon DEF AsyncWriteHandler, IInv, TypeOK
  <1>15. \/ io' = io /\ (s \in tcp_close_in_progress_ => buffer_queue_'[s] # <<>>)
         \/ io = IoIdle /\ io' = [pc |-> "close", s |-> s] /\ s \in established_
    BY <1>2, <1>3, <1>6, <1>10, Zenon
  <1> QED BY <1>8, <1>9, <1>12, <1>13, <1>14, <1>15, WriterInv, Zenon

-----------------------------------------------------------------------------
(* The event-manager thread closes a session.                              *)

WritesType == [post : Nat, flight : Nat]

\* CloseInternal with a call of OnSessionClose to come: until then the session
\* is in the map, and nobody else reports its close.
LEMMA IoCloseInv ==
  ASSUME IInv, NEW s \in Sessions, IoCloseInternal(s),
         io = IoIdle \/ (io.pc = "close" /\ io.s = s), connecting[s] # "new",
         UNCHANGED <<serverVars, buffer_queue_, offset_, last_write_, write_blocked_,
                     defer_reader_, connecting, app, sends, toggles>>,
         writes' \in [Sessions -> WritesType], reads' \in [Sessions -> ReadsType],
         \A t \in Sessions \ {s} : writes'[t] = writes[t] /\ reads'[t] = reads[t]
  PROVE  IInv'
  <1>0. SetTypes
    BY SetsTyped, Zenon DEF IInv
  <1>1. /\ closed_' = closed_ \cup {s}
        /\ tcp_close_in_progress_' = tcp_close_in_progress_ \ {s}
        /\ established_' = established_ \ {s}
    BY Zenon DEF IoCloseInternal, CloseLocked
  <1>2. \/ s \in established_ /\ io'.pc = "notify" /\ io'.s = s /\ io' # IoIdle
        \/ s \notin established_ /\ io'.pc = "idle" /\ io'.s = NULL /\ io' = IoIdle
    BY Zenon DEF IoCloseInternal, IoIdle
  <1>3. io.pc \in {"idle", "close"} /\ io.s \in {NULL, s} /\ (io.pc = "idle" => io.s = NULL)
    BY DEF IoIdle
  <1>4. TypeOK'
    <2>1. io' \in IoType
      BY Zenon DEF IoCloseInternal, IoType
    <2> QED BY <1>1, <2>1, Zenon DEF IInv, TypeOK, WritesType, ReadsType, serverVars
  <1>5. MapExact'
    <2>1. MapOf /\ MapMembers'
      BY MapByMember, PTL DEF IInv, Core, MapMembers
    <2>2. MapOf'
      BY <1>0, <1>1, <1>2, <1>3, <2>1, Zenon DEF SetTypes, MapOf, InMap, serverVars
    <2> QED BY <1>4, <2>1, <2>2, Zenon DEF MapMembers
  <1>6. SessionStates'
    BY <1>0, <1>1, <1>2, Zenon DEF IInv, SetTypes, Core, SessionStates, serverVars
  <1>7. IoConsistent'
    BY <1>0, <1>1, <1>2, Zenon DEF IInv, Core, SessionStates, IoConsistent
  <1>8. AppConsistent'
    BY <1>0, <1>1, <1>2, Zenon DEF IInv, Core, SessionStates, AppConsistent, Clearing
  <1>9. Kept'
    BY <1>0, <1>1, <1>2, <1>3, Zenon DEF IInv, SetTypes, Kept, serverVars
  <1>10. Writer'
    BY <1>1, Zenon DEF IInv, Writer, OneWriter, WriterConsistent
  <1>11. Reader'
    BY <1>0, <1>1, <1>2, <1>3 DEF IInv, SetTypes, Reader, ReadNeverStalls, ReaderConsistent
  <1> QED BY <1>4, <1>5, <1>6, <1>7, <1>8, <1>9, <1>10, <1>11, Zenon DEF IInv, Core

LEMMA CloseAfterWriteInv ==
  ASSUME IInv, CloseAfterWrite
  PROVE  IInv'
  <1>1. io # IoIdle /\ io.pc = "close"
    BY DEF CloseAfterWrite, IoIdle
  <1>2. io.s \in Sessions /\ connecting[io.s] # "new"
    BY <1>1, Zenon DEF IInv, TypeOK, IoType, Core, IoConsistent
  <1>3. writes \in [Sessions -> WritesType] /\ reads \in [Sessions -> ReadsType]
    BY Zenon DEF IInv, TypeOK, WritesType, ReadsType
  <1> QED
    BY <1>1, <1>2, <1>3, IoCloseInv, Zenon DEF CloseAfterWrite, writerVars, readerVars

LEMMA WriteErrorInv ==
  ASSUME IInv, NEW s \in Sessions, AsyncWriteError(s)
  PROVE  IInv'
  <1>1. writes \in [Sessions -> WritesType] /\ reads \in [Sessions -> ReadsType]
    BY Zenon DEF IInv, TypeOK, WritesType, ReadsType
  <1>2. connecting[s] # "new"
    <2>1. CASE s \in closed_
      BY <2>1, Zenon DEF IInv, Core, SessionStates
    <2>2. CASE s \notin closed_
      BY <2>2, WrittenFacts, Zenon DEF IInv, Core, SessionStates, AsyncWriteError
    <2> QED BY <2>1, <2>2, Zenon
  <1>3. writes' \in [Sessions -> WritesType] /\ \A t \in Sessions \ {s} : writes'[t] = writes[t]
    BY <1>1 DEF AsyncWriteError, WritesType
  <1> QED BY <1>1, <1>2, <1>3, IoCloseInv, Zenon DEF AsyncWriteError, readerVars

LEMMA ReadErrorInv ==
  ASSUME IInv, NEW s \in Sessions, AsyncReadError(s)
  PROVE  IInv'
  <1>1. writes \in [Sessions -> WritesType] /\ reads \in [Sessions -> ReadsType]
    BY Zenon DEF IInv, TypeOK, WritesType, ReadsType
  <1>2. connecting[s] # "new"
    BY <1>1 DEF IInv, Reader, ReaderConsistent, ReadsType, AsyncReadError
  <1>3. reads' \in [Sessions -> ReadsType] /\ \A t \in Sessions \ {s} : reads'[t] = reads[t]
    BY <1>1 DEF AsyncReadError, ReadsType
  <1> QED BY <1>1, <1>2, <1>3, IoCloseInv, Zenon DEF AsyncReadError, writerVars

-----------------------------------------------------------------------------
(* The event-manager thread opens a session.                               *)

ConnectingType == [Sessions -> {"new", "pending", "done"}]

\* A step that is not of a writer or a reader.
LEMMA StepInv ==
  ASSUME IInv, UNCHANGED <<writerVars, readerVars, sends, toggles>>,
         acceptor_' \in BOOLEAN, io' \in IoType, app' \in AppType,
         connecting' \in ConnectingType, SetTypes',
         closed_ \subseteq closed_', established_ \ closed_' \subseteq established_',
         established_' \ (tcp_close_in_progress_' \cup {io'.s})
            \subseteq established_ \ (tcp_close_in_progress_ \cup {io.s}),
         \A s \in Sessions : connecting[s] # "new" => connecting'[s] # "new",
         MapOf', SessionStates', IoConsistent', AppConsistent', Kept'
  PROVE  IInv'
  <1>1. TypeOK'
    BY Zenon DEF IInv, TypeOK, SetTypes, ConnectingType, writerVars, readerVars
  <1>2. Writer' /\ Reader'
    BY WriterFrame, ReaderFrame, Zenon DEF IInv
  <1>3. MapMembers'
    BY MapByMember, PTL
  <1> QED BY <1>1, <1>2, <1>3, Zenon DEF IInv, Core, MapMembers

LEMMA StateFacts ==
  ASSUME IInv
  PROVE  /\ SetTypes /\ MapOf /\ connecting \in ConnectingType
         /\ acceptor_ \in BOOLEAN /\ io \in IoType /\ app \in AppType
         /\ io = IoIdle <=> io.pc = "idle"
         /\ io # IoIdle => io.s \in Sessions
         /\ io # IoIdle => \A p : [io EXCEPT !.pc = p] = [pc |-> p, s |-> io.s]
  <1>1. /\ io = IoIdle <=> io.pc = "idle"
        /\ io # IoIdle => io.s \in Sessions
        /\ io # IoIdle => \A p : [io EXCEPT !.pc = p] = [pc |-> p, s |-> io.s]
    BY DEF IInv, TypeOK, IoType, IoIdle
  <1> QED BY <1>1, SetsTyped, MapByMember, Zenon
             DEF IInv, Core, MapMembers, TypeOK, ConnectingType

\* The write of s is under way, so s is established; the thread goes no further.
LEMMA SoftErrorInv ==
  ASSUME IInv, NEW s \in Sessions, AsyncWriteSoftError(s)
  PROVE  IInv'
  <1>1. SetTypes /\ MapOf /\ connecting \in ConnectingType /\ io.pc = "idle" /\ io.s = NULL
    BY StateFacts, Zenon DEF AsyncWriteSoftError, IoIdle
  <1>2. s \in established_ /\ connecting[s] = "done"
    BY WrittenFacts, Zenon DEF AsyncWriteSoftError, IInv, Core, SessionStates
  <1>3. io'.pc = "abort" /\ io'.s = s /\ io' # IoIdle /\ io' \in IoType
    BY <1>1 DEF AsyncWriteSoftError, IoType, IoIdle, SetTypes
  <1>4. UNCHANGED <<serverVars, stateVars, writerVars, readerVars, connecting, app, sends,
                    toggles>>
    BY Zenon DEF AsyncWriteSoftError
  <1>5. MapOf' /\ SetTypes'
    BY <1>1, <1>3, <1>4, Zenon DEF MapOf, InMap, SetTypes, serverVars, stateVars, readerVars,
                                  writerVars
  <1>6. SessionStates' /\ IoConsistent'
    BY <1>1, <1>2, <1>3, <1>4, Zenon
       DEF IInv, Core, SessionStates, IoConsistent, serverVars, stateVars
  <1>7. AppConsistent' /\ Kept'
    BY <1>1, <1>3, <1>4, Zenon
       DEF IInv, Core, AppConsistent, Clearing, Kept, serverVars, stateVars, writerVars
  <1> QED
    BY <1>1, <1>3, <1>4, <1>5, <1>6, <1>7, StateFacts, StepInv, Zenon
       DEF SetTypes, serverVars, stateVars

LEMMA ConnectFailedInv ==
  ASSUME IInv, NEW s \in Sessions, ConnectFailed(s)
  PROVE  IInv'
  <1>1. SetTypes /\ MapOf /\ connecting \in ConnectingType /\ acceptor_ \in BOOLEAN
    BY StateFacts, Zenon
  <1>2. /\ connecting' \in ConnectingType
        /\ connecting'[s] = "done" /\ connecting[s] = "pending"
        /\ \A t \in Sessions \ {s} : connecting'[t] = connecting[t]
    BY <1>1, Zenon DEF ConnectFailed, ConnectingType
  <1>3. UNCHANGED <<serverVars, stateVars, writerVars, readerVars, io, app, sends, toggles>>
    BY Zenon DEF ConnectFailed, IoOnly, readerVars
  <1>4. io = IoIdle
    BY Zenon DEF ConnectFailed
  <1>5. MapOf' /\ SetTypes'
    BY <1>1, <1>3, Zenon DEF MapOf, InMap, SetTypes, serverVars, stateVars, readerVars
  <1>6. SessionStates'
    BY <1>1, <1>2, <1>3, Zenon DEF IInv, Core, SetTypes, SessionStates, serverVars, stateVars
  <1>7. IoConsistent'
    BY <1>2, <1>3, <1>4, Zenon DEF IInv, Core, IoConsistent, IoIdle, stateVars
  <1>8. AppConsistent'
    BY <1>1, <1>2, <1>3, Zenon DEF IInv, Core, SetTypes, AppConsistent, Clearing, stateVars
  <1>9. Kept'
    BY <1>2, <1>3, Zenon DEF IInv, Kept, serverVars, stateVars, writerVars
  <1> QED
    BY <1>1, <1>2, <1>3, <1>5, <1>6, <1>7, <1>8, <1>9, StepInv, Zenon
       DEF IInv, TypeOK, serverVars, stateVars

LEMMA ConnectHandlerInv ==
  ASSUME IInv, NEW s \in Sessions, ConnectHandler(s)
  PROVE  IInv'
  <1>1. SetTypes /\ MapOf /\ connecting \in ConnectingType /\ acceptor_ \in BOOLEAN
    BY StateFacts, Zenon
  <1>2. /\ connecting' \in ConnectingType
        /\ connecting'[s] = "done" /\ connecting[s] = "pending" /\ s \notin closed_
        /\ \A t \in Sessions \ {s} : connecting'[t] = connecting[t]
    BY <1>1, Zenon DEF ConnectHandler, ConnectingType
  <1>3. UNCHANGED <<serverVars, stateVars, writerVars, readerVars, app, sends, toggles>>
    BY Zenon DEF ConnectHandler, IoOnly, readerVars
  <1>4. /\ io.pc = "idle" /\ io.s = NULL
        /\ io'.pc = "insert" /\ io'.s = s /\ io' # IoIdle /\ io' \in IoType
    BY Zenon DEF ConnectHandler, IoType, IoIdle
  <1>6. MapOf' /\ SetTypes'
    BY <1>1, <1>3, <1>4, Zenon DEF MapOf, InMap, SetTypes, serverVars, stateVars, readerVars
  <1>7. SessionStates' /\ s \notin established_
    BY <1>1, <1>2, <1>3, <1>4, Zenon
       DEF IInv, Core, SetTypes, SessionStates, serverVars, stateVars
  <1>8. IoConsistent'
    BY <1>2, <1>3, <1>4, <1>7, Zenon DEF IoConsistent, stateVars
  <1>9. AppConsistent'
    BY <1>1, <1>2, <1>3, <1>4, Zenon DEF IInv, Core, SetTypes, AppConsistent, Clearing, stateVars
  <1>10. Kept'
    BY <1>2, <1>3, <1>4, Zenon DEF IInv, Kept, serverVars, stateVars, writerVars
  <1>11. established_' \ (tcp_close_in_progress_' \cup {io'.s})
            \subseteq established_ \ (tcp_close_in_progress_ \cup {io.s})
    BY <1>1, <1>3, <1>4, Zenon DEF SetTypes, stateVars
  <1> QED
    BY <1>1, <1>2, <1>3, <1>4, <1>6, <1>7, <1>8, <1>9, <1>10, <1>11, StepInv, Zenon
       DEF IInv, TypeOK, serverVars, stateVars

LEMMA InsertInv ==
  ASSUME IInv, InsertSessionToMap
  PROVE  IInv'
  <1> DEFINE s == io.s
  <1>1. /\ SetTypes /\ MapOf /\ connecting \in ConnectingType
        /\ io.pc = "insert" /\ io # IoIdle /\ s \in Sessions
    BY StateFacts, Zenon DEF InsertSessionToMap
  <1>2. io'.pc = "connected" /\ io'.s = s /\ io' # IoIdle /\ io' \in IoType
    BY <1>1, StateFacts, Zenon DEF InsertSessionToMap, IoType, IoIdle
  <1>3. /\ session_map_' = session_map_ \cup {s}
        /\ UNCHANGED <<acceptor_, session_ref_, stateVars, writerVars, readerVars, connecting,
                       app, sends, toggles>>
    BY Zenon DEF InsertSessionToMap, IoOnly, readerVars
  <1>4. MapOf' /\ SetTypes'
    BY <1>1, <1>2, <1>3, Zenon DEF MapOf, InMap, SetTypes, stateVars, readerVars
  <1>5. SessionStates' /\ IoConsistent'
    BY <1>1, <1>2, <1>3, Zenon DEF IInv, Core, SessionStates, IoConsistent, stateVars
  <1>6. AppConsistent' /\ Kept'
    BY <1>1, <1>2, <1>3, Zenon
       DEF IInv, Core, AppConsistent, Clearing, Kept, stateVars, writerVars
  <1> QED
    BY <1>1, <1>2, <1>3, <1>4, <1>5, <1>6, StateFacts, StepInv, Zenon DEF stateVars

LEMMA TcpConnectedInv ==
  ASSUME IInv, TcpConnected
  PROVE  IInv'
  <1> DEFINE s == io.s
  <1>1. /\ SetTypes /\ MapOf /\ connecting \in ConnectingType
        /\ io.pc = "connected" /\ io # IoIdle /\ s \in Sessions
    BY StateFacts, Zenon DEF TcpConnected
  <1>2. /\ \/ s \in closed_ /\ io'.pc = "unmap" /\ established_' = established_
           \/ s \notin closed_ /\ io'.pc = "readstart" /\ established_' = established_ \cup {s}
        /\ io'.s = s /\ io' # IoIdle /\ io' \in IoType
    BY <1>1, StateFacts DEF TcpConnected, IoType, IoIdle
  <1>3. UNCHANGED <<serverVars, closed_, tcp_close_in_progress_, writerVars, readerVars,
                    connecting, app, sends, toggles>>
    BY Zenon DEF TcpConnected, IoOnly, readerVars
  <1>4. MapOf' /\ SetTypes'
    BY <1>1, <1>2, <1>3, Zenon DEF MapOf, InMap, SetTypes, serverVars, readerVars
  <1>5. SessionStates' /\ IoConsistent'
    BY <1>1, <1>2, <1>3, Zenon DEF IInv, Core, SessionStates, IoConsistent, serverVars
  <1>6. AppConsistent' /\ Kept'
    BY <1>1, <1>2, <1>3, Zenon
       DEF IInv, Core, AppConsistent, Clearing, Kept, serverVars, writerVars
  <1> QED
    BY <1>1, <1>2, <1>3, <1>4, <1>5, <1>6, StateFacts, StepInv, Zenon DEF serverVars

LEMMA RemoveInv ==
  ASSUME IInv, RemoveSessionFromMap
  PROVE  IInv'
  <1> DEFINE s == io.s
  <1>1. /\ SetTypes /\ MapOf /\ connecting \in ConnectingType
        /\ io.pc = "unmap" /\ s \in Sessions
        /\ s \in closed_ /\ s \notin established_ /\ s \notin tcp_close_in_progress_
    BY StateFacts, Zenon DEF RemoveSessionFromMap, IInv, Core, IoConsistent, SessionStates
  <1>2. io'.pc = "idle" /\ io'.s = NULL /\ io' = IoIdle /\ io' \in IoType
    BY Zenon DEF RemoveSessionFromMap, IoType, IoIdle
  <1>3. /\ session_map_' = session_map_ \ {s}
        /\ UNCHANGED <<acceptor_, session_ref_, stateVars, writerVars, readerVars, connecting,
                       app, sends, toggles>>
    BY Zenon DEF RemoveSessionFromMap, IoOnly, readerVars
  <1>4. MapOf' /\ SetTypes'
    BY <1>1, <1>2, <1>3, Zenon
       DEF MapOf, InMap, SetTypes, IInv, Core, AppConsistent, stateVars, readerVars
  <1>5. SessionStates' /\ IoConsistent'
    BY <1>1, <1>2, <1>3, Zenon DEF IInv, Core, SetTypes, SessionStates, IoConsistent, stateVars
  <1>6. AppConsistent' /\ Kept'
    BY <1>1, <1>2, <1>3, Zenon
       DEF IInv, Core, AppConsistent, Clearing, Kept, stateVars, writerVars
  <1> QED
    BY <1>1, <1>2, <1>3, <1>4, <1>5, <1>6, StateFacts, StepInv, Zenon DEF stateVars

LEMMA AcceptInv ==
  ASSUME IInv, NEW s \in Sessions, AcceptHandlerInternal(s)
  PROVE  IInv'
  <1>1. /\ SetTypes /\ MapOf /\ connecting \in ConnectingType
        /\ io.pc = "idle" /\ io.s = NULL /\ connecting[s] = "new"
        /\ s \notin established_ \cup closed_ \cup session_ref_ \cup app.refs \cup {app.s}
    BY StateFacts, Zenon DEF AcceptHandlerInternal, IoIdle, IInv, Core, SessionStates
  <1>2. /\ connecting' \in ConnectingType /\ connecting'[s] = "done"
        /\ \A t \in Sessions \ {s} : connecting'[t] = connecting[t]
    BY <1>1, Zenon DEF AcceptHandlerInternal, ConnectingType
  <1>3. io'.pc = "accepted" /\ io'.s = s /\ io' # IoIdle /\ io' \in IoType
    BY Zenon DEF AcceptHandlerInternal, IoType, IoIdle
  <1>4. /\ established_' = established_ \cup {s}
        /\ UNCHANGED <<serverVars, closed_, tcp_close_in_progress_, writerVars, readerVars,
                       app, sends, toggles>>
    BY Zenon DEF AcceptHandlerInternal, IoOnly, readerVars
  <1>5. MapOf' /\ SetTypes'
    BY <1>1, <1>3, <1>4, Zenon DEF MapOf, InMap, SetTypes, serverVars, readerVars
  <1>6. SessionStates' /\ IoConsistent'
    BY <1>1, <1>2, <1>3, <1>4, Zenon
       DEF IInv, Core, SetTypes, SessionStates, IoConsistent, serverVars
  <1>7. AppConsistent'
    BY <1>1, <1>2, <1>3, <1>4, Zenon DEF IInv, Core, SetTypes, AppConsistent, Clearing
  <1>8. Kept'
    BY <1>1, <1>2, <1>3, <1>4, Zenon DEF IInv, Kept, serverVars, writerVars
  <1> QED
    BY <1>1, <1>2, <1>3, <1>4, <1>5, <1>6, <1>7, <1>8, StateFacts, StepInv, Zenon
       DEF SetTypes, serverVars

LEMMA AcceptCompleteInv ==
  ASSUME IInv, AcceptHandlerComplete
  PROVE  IInv'
  <1> DEFINE s == io.s
  <1>1. /\ SetTypes /\ MapOf /\ connecting \in ConnectingType
        /\ io.pc = "accepted" /\ io # IoIdle /\ s \in Sessions
        /\ s \in established_ /\ connecting[s] = "done"
    BY StateFacts, Zenon DEF AcceptHandlerComplete, IInv, Core, IoConsistent, IoIdle
  <1>2. io'.pc = "readstart" /\ io'.s = s /\ io' # IoIdle /\ io' \in IoType
    BY <1>1, StateFacts, Zenon DEF AcceptHandlerComplete, IoType, IoIdle
  <1>3. /\ session_map_' = session_map_ \cup {s} /\ session_ref_' = session_ref_ \cup {s}
        /\ UNCHANGED <<acceptor_, stateVars, writerVars, readerVars, connecting,
                       app, sends, toggles>>
    BY Zenon DEF AcceptHandlerComplete, IoOnly, readerVars
  <1>4. MapOf' /\ SetTypes'
    BY <1>1, <1>2, <1>3, Zenon DEF MapOf, InMap, SetTypes, stateVars, readerVars
  <1>5. SessionStates' /\ IoConsistent'
    BY <1>1, <1>2, <1>3, Zenon DEF IInv, Core, SessionStates, IoConsistent, stateVars
  <1>6. AppConsistent' /\ Kept'
    BY <1>1, <1>2, <1>3, Zenon
       DEF IInv, Core, AppConsistent, Clearing, Kept, stateVars, writerVars
  <1> QED
    BY <1>1, <1>2, <1>3, <1>4, <1>5, <1>6, StateFacts, StepInv, Zenon DEF stateVars

\* The two ways in which a session that a peer opened comes to nothing.
LEMMA AcceptFailedInv ==
  ASSUME IInv, NEW s \in Sessions, AcceptFailed(s)
  PROVE  IInv'
  <1>1. /\ SetTypes /\ MapOf /\ connecting \in ConnectingType
        /\ io.pc = "idle" /\ io.s = NULL /\ io = IoIdle /\ connecting[s] = "new"
        /\ s \notin established_ \cup closed_ \cup session_ref_ \cup app.refs \cup {app.s}
    BY StateFacts, Zenon DEF AcceptFailed, IoIdle, IInv, Core, SessionStates
  <1>2. /\ connecting' \in ConnectingType /\ connecting'[s] = "done"
        /\ \A t \in Sessions \ {s} : connecting'[t] = connecting[t]
    BY <1>1, Zenon DEF AcceptFailed, ConnectingType
  <1>3. /\ closed_' = closed_ \cup {s} /\ established_' = established_ \ {s}
        /\ tcp_close_in_progress_' = tcp_close_in_progress_ \ {s}
        /\ UNCHANGED <<serverVars, writerVars, readerVars, io, app, sends, toggles>>
    BY Zenon DEF AcceptFailed, CloseLocked, IoOnly, readerVars
  <1>4. MapOf' /\ SetTypes'
    BY <1>1, <1>3, Zenon DEF MapOf, InMap, SetTypes, serverVars, readerVars
  <1>5. SessionStates' /\ IoConsistent'
    BY <1>1, <1>2, <1>3, Zenon DEF IInv, Core, SetTypes, SessionStates, IoConsistent, serverVars
  <1>6. AppConsistent'
    BY <1>1, <1>2, <1>3, Zenon DEF IInv, Core, SetTypes, AppConsistent, Clearing
  <1>7. Kept'
    BY <1>1, <1>2, <1>3, Zenon DEF IInv, Kept, serverVars, writerVars
  <1> QED
    BY <1>1, <1>2, <1>3, <1>4, <1>5, <1>6, <1>7, StateFacts, StepInv, Zenon
       DEF IInv, Core, SessionStates, serverVars

LEMMA AcceptRejectedInv ==
  ASSUME IInv, AcceptRejected
  PROVE  IInv'
  <1> DEFINE s == io.s
  <1>1. /\ SetTypes /\ MapOf /\ connecting \in ConnectingType
        /\ io.pc = "accepted" /\ s \in Sessions /\ connecting[s] = "done"
        /\ s \notin session_ref_ \cup app.refs \cup {app.s}
    BY StateFacts, Zenon DEF AcceptRejected, IInv, Core, IoConsistent, IoIdle
  <1>2. io'.pc = "idle" /\ io'.s = NULL /\ io' = IoIdle /\ io' \in IoType
    BY Zenon DEF AcceptRejected, IoType, IoIdle
  <1>3. /\ closed_' = closed_ \cup {s} /\ established_' = established_ \ {s}
        /\ tcp_close_in_progress_' = tcp_close_in_progress_ \ {s}
        /\ UNCHANGED <<serverVars, writerVars, readerVars, connecting, app, sends, toggles>>
    BY Zenon DEF AcceptRejected, CloseLocked, IoOnly, readerVars
  <1>4. MapOf' /\ SetTypes'
    BY <1>1, <1>2, <1>3, Zenon DEF MapOf, InMap, SetTypes, serverVars, readerVars
  <1>5. SessionStates' /\ IoConsistent'
    BY <1>1, <1>2, <1>3, Zenon DEF IInv, Core, SetTypes, SessionStates, IoConsistent, serverVars
  <1>6. AppConsistent' /\ Kept'
    BY <1>1, <1>2, <1>3, Zenon
       DEF IInv, Core, SetTypes, AppConsistent, Clearing, Kept, serverVars, writerVars
  <1> QED
    BY <1>1, <1>2, <1>3, <1>4, <1>5, <1>6, StateFacts, StepInv, Zenon DEF SetTypes, serverVars

LEMMA ReadOnConnectInv ==
  ASSUME IInv, ReadOnConnect
  PROVE  IInv'
  <1> DEFINE s == io.s
  <1>1. /\ SetTypes /\ MapOf /\ connecting \in ConnectingType
        /\ io.pc = "readstart" /\ s \in Sessions /\ connecting[s] = "done"
    BY StateFacts, Zenon DEF ReadOnConnect, IInv, Core, IoConsistent, IoIdle
  <1>2. io'.pc = "idle" /\ io'.s = NULL /\ io' = IoIdle /\ io' \in IoType
    BY Zenon DEF ReadOnConnect, IoType, IoIdle
  <1>3. reads \in [Sessions -> ReadsType]
    BY Zenon DEF IInv, TypeOK, ReadsType
  <1>4. /\ reads' \in [Sessions -> ReadsType]
        /\ \A t \in Sessions \ {s} : reads'[t] = reads[t]
        /\ s \in read_on_connect_ => Reading(reads'[s]) > 0
    BY <1>1, <1>3 DEF ReadOnConnect, AsyncReadStart, Reading, ReadsType
  <1>5. UNCHANGED <<serverVars, stateVars, writerVars, defer_reader_, connecting,
                    app, sends, toggles>>
    BY Zenon DEF ReadOnConnect, IoOnly
  <1>6. TypeOK'
    BY <1>2, <1>4, <1>5, Zenon DEF IInv, TypeOK, ReadsType, serverVars, stateVars, writerVars
  <1>7. MapExact'
    <2>1. MapOf'
      BY <1>1, <1>2, <1>5, Zenon DEF MapOf, InMap, SetTypes, serverVars, stateVars
    <2>2. MapMembers'
      BY MapByMember, PTL
    <2> QED BY <1>6, <2>1, <2>2, Zenon DEF MapMembers
  <1>8. SessionStates' /\ IoConsistent'
    BY <1>1, <1>2, <1>5, Zenon
       DEF IInv, Core, SetTypes, SessionStates, IoConsistent, serverVars, stateVars
  <1>9. AppConsistent' /\ Kept'
    BY <1>1, <1>2, <1>5, Zenon
       DEF IInv, Core, SetTypes, AppConsistent, Clearing, Kept, serverVars, stateVars,
           writerVars
  <1>10. Writer'
    BY <1>5, WriterFrame, Zenon DEF IInv, stateVars
  <1>11. ReadNeverStalls'
    BY <1>1, <1>2, <1>4, <1>5, Zenon
       DEF IInv, Reader, ReadNeverStalls, SetTypes, Reading, stateVars
  <1>12. ReaderConsistent'
    BY <1>1, <1>4, <1>5, Zenon DEF IInv, Reader, ReaderConsistent
  <1> QED
    BY <1>6, <1>7, <1>8, <1>9, <1>10, <1>11, <1>12, Zenon DEF IInv, Core, Reader

\* OnSessionClose: the map forgets a session that is closed.
LEMMA IoNotifiesServerInv ==
  ASSUME IInv, IoNotifiesServer
  PROVE  IInv'
  <1> DEFINE s == io.s
  <1>1. /\ SetTypes /\ MapOf /\ connecting \in ConnectingType /\ app \in AppType
        /\ io.pc = "notify" /\ s \in Sessions
        /\ s \in closed_ /\ s \notin established_ /\ s \notin tcp_close_in_progress_
    BY StateFacts, Zenon DEF IoNotifiesServer, IInv, Core, IoConsistent, SessionStates, IoIdle
  <1>2. io'.pc = "idle" /\ io'.s = NULL /\ io' = IoIdle /\ io' \in IoType
    BY Zenon DEF IoNotifiesServer, IoType, IoIdle
  <1>3. /\ session_map_' = session_map_ \ {s}
        /\ UNCHANGED <<acceptor_, session_ref_, stateVars, writerVars, readerVars, connecting,
                       sends, toggles>>
    BY Zenon DEF IoNotifiesServer, OnSessionClose
  <1>4. /\ app' = app \/ (app.pc = "waiting" /\ app' = [app EXCEPT !.pc = "wait"])
    BY Zenon DEF IoNotifiesServer, OnSessionClose, Notified
  <1>5. /\ app'.s = app.s /\ app'.refs = app.refs /\ app'.todo = app.todo
        /\ app'.next = app.next /\ app' \in AppType
        /\ app'.pc = app.pc \/ (app.pc = "waiting" /\ app'.pc = "wait")
    BY <1>1, <1>4, Zenon DEF AppType
  <1>6. MapOf' /\ SetTypes'
    BY <1>1, <1>2, <1>3, <1>5, Zenon
       DEF MapOf, InMap, SetTypes, IInv, Core, AppConsistent, stateVars, readerVars
  <1>7. SessionStates' /\ IoConsistent'
    BY <1>1, <1>2, <1>3, <1>5, Zenon
       DEF IInv, Core, SetTypes, SessionStates, IoConsistent, stateVars
  <1>8. AppConsistent'
    BY <1>1, <1>2, <1>3, <1>5, Zenon DEF IInv, Core, AppConsistent, Clearing, SetTypes, stateVars
  <1>9. Kept'
    BY <1>1, <1>2, <1>3, <1>5, Zenon DEF IInv, Kept, stateVars, writerVars
  <1> QED
    BY <1>1, <1>2, <1>3, <1>5, <1>6, <1>7, <1>8, <1>9, StateFacts, StepInv, Zenon DEF stateVars

-----------------------------------------------------------------------------
(* The application thread.                                                 *)

\* Close, whatever the thread does next: the session is closed already, its close
\* waits for its data, or the thread is to close it.
LEMMA CloseThenInv ==
  ASSUME IInv, NEW s \in Sessions, NEW a \in AppType, CloseThen(s, a),
         UNCHANGED <<serverVars, writerVars, readerVars, connecting, io, sends, toggles>>,
         s \in session_ref_ \cup app.refs, app.pc \in {"run", "clear"},
         a.pc = "clear" <=> app.pc = "clear", a.pc \in {"run", "erase", "clear"},
         a.pc = "erase" => a.s = s, a.s \in {app.s, s}, a.refs = app.refs,
         a.todo \subseteq app.todo, app.todo \subseteq a.todo \cup {s}
  PROVE  IInv'
  <1>1. SetTypes /\ MapOf /\ connecting \in ConnectingType
    BY StateFacts, Zenon
  <1>2. s # NULL /\ connecting[s] # "new" /\ (io.pc = "accepted" => io.s # s)
    BY <1>1, Zenon DEF IInv, Core, SessionStates, IoConsistent, SetTypes
  <1>3. /\ closed_' = closed_ /\ established_' = established_
        /\ app' \in AppType /\ app'.refs = a.refs /\ app'.todo = a.todo
        /\ \/ s \in closed_ /\ app'.pc = a.pc /\ app'.s = a.s /\ UNCHANGED tcp_close_in_progress_
           \/ /\ s \notin closed_ /\ buffer_queue_[s] # <<>> /\ app'.pc = a.pc /\ app'.s = a.s
              /\ tcp_close_in_progress_' = tcp_close_in_progress_ \cup {s}
           \/ /\ app'.pc = "close" /\ app'.s = s /\ app'.next = a.pc
              /\ UNCHANGED tcp_close_in_progress_
    <2>1. CASE s \in closed_
      BY <2>1, Zenon DEF CloseThen, stateVars
    <2>2. CASE s \notin closed_ /\ buffer_queue_[s] # <<>>
      BY <2>2, Zenon DEF CloseThen, DefersClose
    <2>3. CASE s \notin closed_ /\ buffer_queue_[s] = <<>>
      BY <2>3, ZenonT(60) DEF CloseThen, DefersClose, stateVars, AppType
    <2> QED BY <2>1, <2>2, <2>3, Zenon
  <1>4. s \notin closed_ /\ buffer_queue_[s] # <<>> => s \in established_
    BY Zenon DEF IInv, Writer, WriterConsistent
  <1>5. MapOf' /\ SetTypes'
    BY <1>1, <1>3, Zenon DEF MapOf, InMap, SetTypes, serverVars, readerVars
  <1>6. SessionStates' /\ IoConsistent'
    BY <1>2, <1>3, <1>4 DEF IInv, Core, SessionStates, IoConsistent, serverVars
  <1>7. AppConsistent'
    BY <1>2, <1>3, Zenon DEF IInv, Core, AppConsistent, Clearing
  <1>8. Kept'
    BY <1>3, Zenon DEF IInv, Kept, serverVars, writerVars
  <1> QED
    BY <1>1, <1>3, <1>5, <1>6, <1>7, <1>8, StateFacts, StepInv, Zenon DEF serverVars

LEMMA AppClosesInv ==
  ASSUME IInv, NEW s \in Sessions, Close(s) \/ DeleteSession(s) \/ ClearOne(s)
  PROVE  IInv'
  <1>1. /\ app \in AppType /\ app.todo \subseteq app.refs
        /\ app.pc = "run" => app.refs = {}
    BY Zenon DEF IInv, TypeOK, Core, AppConsistent, Clearing
  <1>2. CASE Close(s)
    BY <1>1, <1>2, CloseThenInv, Zenon DEF Close, Uses, AppOnly
  <1>3. CASE DeleteSession(s)
    <2> DEFINE a == [app EXCEPT !.pc = "erase", !.s = s]
    <2>1. /\ a \in AppType /\ a.pc = "erase" /\ a.s = s
          /\ a.refs = app.refs /\ a.todo = app.todo
      BY <1>1, Zenon DEF AppType
    <2>2. /\ CloseThen(s, a) /\ app.pc = "run" /\ s \in session_ref_
          /\ UNCHANGED <<serverVars, writerVars, readerVars, connecting, io, sends, toggles>>
      BY <1>3, Zenon DEF DeleteSession, Uses, AppOnly
    <2> HIDE DEF a
    <2> QED BY <2>1, <2>2, CloseThenInv, Zenon
  <1>4. CASE ClearOne(s)
    <2> DEFINE a == [app EXCEPT !.todo = @ \ {s}]
    <2>1. /\ a \in AppType /\ a.pc = app.pc /\ a.s = app.s
          /\ a.refs = app.refs /\ a.todo = app.todo \ {s}
      BY <1>1, Zenon DEF AppType
    <2>2. /\ CloseThen(s, a) /\ app.pc = "clear" /\ s \in app.todo
          /\ UNCHANGED <<serverVars, writerVars, readerVars, connecting, io, sends, toggles>>
      BY <1>4, Zenon DEF ClearOne, AppOnly
    <2> HIDE DEF a
    <2> QED BY <1>1, <2>1, <2>2, CloseThenInv, Zenon
  <1> QED BY <1>2, <1>3, <1>4, Zenon

LEMMA CloseInternalInv ==
  ASSUME IInv, CloseInternal
  PROVE  IInv'
  <1> DEFINE s == app.s
  <1>1. /\ SetTypes /\ MapOf /\ connecting \in ConnectingType /\ app \in AppType
        /\ app.pc = "close" /\ s \in Sessions
    BY StateFacts, Zenon DEF CloseInternal, IInv, Core, AppConsistent, SetTypes
  <1>2. /\ connecting[s] # "new" /\ (s \in established_ => connecting[s] = "done")
        /\ io.pc = "accepted" => io.s # s
        /\ io.s = s /\ s \in established_ => io.pc \notin {"insert", "connected", "unmap", "notify"}
    BY <1>1, Zenon DEF IInv, Core, SessionStates, IoConsistent
  <1>3. /\ closed_' = closed_ \cup {s} /\ established_' = established_ \ {s}
        /\ tcp_close_in_progress_' = tcp_close_in_progress_ \ {s}
        /\ UNCHANGED <<serverVars, writerVars, readerVars, connecting, io, sends, toggles>>
    BY Zenon DEF CloseInternal, CloseLocked, AppOnly
  <1>4. /\ app' \in AppType /\ app'.s = s /\ app'.refs = app.refs /\ app'.todo = app.todo
        /\ app'.next = app.next
        /\ app'.pc = IF s \in established_ THEN "notify" ELSE app.next
        /\ app.next \in {"run", "erase", "clear"}
    BY <1>1, Zenon DEF CloseInternal, AppType
  <1>5. MapOf' /\ SetTypes'
    BY <1>1, <1>2, <1>3, <1>4, Zenon DEF MapOf, InMap, SetTypes, serverVars, readerVars
  <1>6. SessionStates' /\ IoConsistent'
    BY <1>1, <1>2, <1>3, <1>4, Zenon DEF IInv, Core, SessionStates, IoConsistent, serverVars
  <1>7. AppConsistent'
    BY <1>1, <1>2, <1>3, <1>4, Zenon DEF IInv, Core, SetTypes, AppConsistent, Clearing
  <1>8. Kept'
    BY <1>1, <1>3, <1>4, Zenon DEF IInv, Kept, serverVars, writerVars
  <1> QED
    BY <1>1, <1>3, <1>4, <1>5, <1>6, <1>7, <1>8, StateFacts, StepInv, Zenon DEF serverVars

LEMMA AppNotifiesServerInv ==
  ASSUME IInv, AppNotifiesServer
  PROVE  IInv'
  <1> DEFINE s == app.s
  <1>1. /\ SetTypes /\ MapOf /\ connecting \in ConnectingType /\ app \in AppType
        /\ app.pc = "notify" /\ s \in Sessions
        /\ s \in closed_ /\ s \notin established_
        /\ io.s = s => io.pc \notin {"insert", "connected", "unmap", "notify"}
    BY StateFacts, Zenon DEF AppNotifiesServer, IInv, Core, AppConsistent, SessionStates, SetTypes
  <1>2. /\ session_map_' = session_map_ \ {s}
        /\ UNCHANGED <<acceptor_, session_ref_, stateVars, writerVars, readerVars, connecting,
                       io, sends, toggles>>
    BY Zenon DEF AppNotifiesServer, OnSessionClose, AppOnly
  <1>3. app' = [app EXCEPT !.pc = app.next] /\ app.next \in {"run", "erase", "clear"}
    <2>1. [app EXCEPT !.pc = app.next].pc = app.next /\ app.next \in {"run", "erase", "clear"}
      BY <1>1, Zenon DEF AppType
    <2> QED BY <2>1, Zenon DEF AppNotifiesServer, OnSessionClose, Notified
  <1>4. /\ app' \in AppType /\ app'.s = s /\ app'.refs = app.refs /\ app'.todo = app.todo
        /\ app'.pc = app.next
    BY <1>1, <1>3, Zenon DEF AppType
  <1>5. MapOf' /\ SetTypes'
    BY <1>1, <1>2, <1>3, <1>4, Zenon DEF MapOf, InMap, SetTypes, stateVars, readerVars
  <1>6. SessionStates' /\ IoConsistent'
    BY <1>1, <1>2, <1>4, Zenon DEF IInv, Core, SessionStates, IoConsistent, stateVars
  <1>7. AppConsistent'
    BY <1>1, <1>2, <1>3, <1>4 DEF IInv, Core, SetTypes, AppConsistent, Clearing, stateVars
  <1>8. Kept'
    BY <1>2, <1>4, Zenon DEF IInv, Kept, stateVars, writerVars
  <1> QED
    BY <1>1, <1>2, <1>4, <1>5, <1>6, <1>7, <1>8, StateFacts, StepInv, Zenon DEF stateVars

\* The server drops its references, one by one or all at once; the session is
\* closed, or its close waits for its data.
LEMMA EraseInv ==
  ASSUME IInv, EraseSession
  PROVE  IInv'
  <1>1. /\ SetTypes /\ MapOf /\ connecting \in ConnectingType
        /\ app.pc = "erase" /\ app.refs = {} /\ app.s \in closed_ \cup tcp_close_in_progress_
    BY StateFacts, Zenon DEF EraseSession, IInv, Core, AppConsistent, Clearing
  <1>2. /\ session_ref_' = session_ref_ \ {app.s}
        /\ UNCHANGED <<acceptor_, session_map_, stateVars, writerVars, readerVars, connecting,
                       io, sends, toggles>>
    BY Zenon DEF EraseSession, AppOnly
  <1>3. /\ app' \in AppType /\ app'.pc = "run" /\ app'.s = NULL /\ app'.refs = {}
        /\ app'.todo = {}
    BY Zenon DEF EraseSession, AppRuns, AppType
  <1>4. MapOf' /\ SetTypes'
    BY <1>1, <1>2, <1>3, Zenon DEF MapOf, InMap, SetTypes, stateVars, readerVars
  <1>5. SessionStates'
    BY <1>1, <1>2, <1>3, Zenon DEF IInv, Core, SetTypes, SessionStates, stateVars
  <1>6. IoConsistent'
    BY <1>1, <1>2, <1>3, Zenon DEF IInv, Core, SetTypes, IoConsistent, stateVars
  <1>7. AppConsistent' /\ Kept'
    BY <1>1, <1>2, <1>3, Zenon DEF IInv, AppConsistent, Clearing, Kept, stateVars, writerVars
  <1> QED
    BY <1>1, <1>2, <1>3, <1>4, <1>5, <1>6, <1>7, StateFacts, StepInv, Zenon DEF stateVars

LEMMA ClearSessionsInv ==
  ASSUME IInv, ClearSessions
  PROVE  IInv'
  <1>1. /\ SetTypes /\ MapOf /\ connecting \in ConnectingType /\ app \in AppType
        /\ app.pc = "run" /\ app.refs = {}
    BY StateFacts, Zenon DEF ClearSessions, IInv, Core, AppConsistent, Clearing
  <1>2. /\ session_ref_' = {}
        /\ UNCHANGED <<acceptor_, session_map_, stateVars, writerVars, readerVars, connecting,
                       io, sends, toggles>>
    BY Zenon DEF ClearSessions, AppOnly
  <1>3. /\ app' \in AppType /\ app'.pc = "clear" /\ app'.s = app.s /\ app'.refs = session_ref_
        /\ app'.todo = session_ref_
    BY <1>1, Zenon DEF ClearSessions, AppType, SetTypes
  <1>4. MapOf' /\ SetTypes'
    BY <1>1, <1>2, <1>3, Zenon DEF MapOf, InMap, SetTypes, stateVars, readerVars
  <1>5. SessionStates' /\ IoConsistent'
    BY <1>1, <1>2, <1>3, Zenon DEF IInv, Core, SessionStates, IoConsistent, stateVars
  <1>6. AppConsistent' /\ Kept'
    BY <1>1, <1>2, <1>3, Zenon DEF IInv, AppConsistent, Clearing, Kept, stateVars, writerVars
  <1> QED
    BY <1>1, <1>2, <1>3, <1>4, <1>5, <1>6, StateFacts, StepInv, Zenon DEF stateVars

LEMMA ClearedInv ==
  ASSUME IInv, Cleared
  PROVE  IInv'
  <1>1. /\ SetTypes /\ MapOf /\ connecting \in ConnectingType
        /\ app.pc = "clear" /\ app.refs \subseteq closed_ \cup tcp_close_in_progress_
    BY StateFacts, Zenon DEF Cleared, IInv, Core, AppConsistent
  <1>2. UNCHANGED <<serverVars, stateVars, writerVars, readerVars, connecting, io, sends,
                    toggles>>
    BY Zenon DEF Cleared, AppOnly
  <1>3. /\ app' \in AppType /\ app'.pc = "wait" /\ app'.s = NULL /\ app'.refs = {}
        /\ app'.todo = {}
    BY Zenon DEF Cleared, AppRuns, AppType
  <1>4. MapOf' /\ SetTypes'
    BY <1>1, <1>2, <1>3, Zenon DEF MapOf, InMap, SetTypes, serverVars, stateVars, readerVars
  <1>5. SessionStates'
    BY <1>1, <1>2, <1>3, Zenon DEF IInv, Core, SetTypes, SessionStates, serverVars, stateVars
  <1>6. IoConsistent'
    BY <1>1, <1>2, <1>3, Zenon DEF IInv, Core, SetTypes, IoConsistent, serverVars, stateVars
  <1>7. AppConsistent' /\ Kept'
    BY <1>1, <1>2, <1>3, Zenon
       DEF IInv, AppConsistent, Clearing, Kept, serverVars, stateVars, writerVars
  <1> QED
    BY <1>1, <1>2, <1>3, <1>4, <1>5, <1>6, <1>7, StateFacts, StepInv, Zenon
       DEF serverVars, stateVars

LEMMA WaitInv ==
  ASSUME IInv, WaitForEmpty
  PROVE  IInv'
  <1>1. /\ SetTypes /\ MapOf /\ connecting \in ConnectingType /\ app \in AppType
        /\ app.pc = "wait"
    BY StateFacts, Zenon DEF WaitForEmpty
  <1>2. UNCHANGED <<serverVars, stateVars, writerVars, readerVars, connecting, io, sends,
                    toggles>>
    BY Zenon DEF WaitForEmpty, AppOnly
  <1>3. /\ app' \in AppType /\ app'.pc \in {"done", "waiting"} /\ app'.s = app.s
        /\ app'.refs = app.refs /\ app'.todo = app.todo
    BY <1>1, Zenon DEF WaitForEmpty, AppType
  <1>4. MapOf' /\ SetTypes'
    BY <1>1, <1>2, <1>3, Zenon DEF MapOf, InMap, SetTypes, serverVars, stateVars, readerVars
  <1>5. SessionStates' /\ IoConsistent'
    BY <1>2, <1>3, Zenon DEF IInv, Core, SessionStates, IoConsistent, serverVars, stateVars
  <1>6. AppConsistent' /\ Kept'
    BY <1>1, <1>2, <1>3, Zenon
       DEF IInv, Core, AppConsistent, Clearing, Kept, serverVars, stateVars, writerVars
  <1> QED
    BY <1>1, <1>2, <1>3, <1>4, <1>5, <1>6, StateFacts, StepInv, Zenon DEF serverVars, stateVars

LEMMA ConnectInv ==
  ASSUME IInv, NEW s \in Sessions, Connect(s)
  PROVE  IInv'
  <1>1. /\ SetTypes /\ MapOf /\ connecting \in ConnectingType /\ connecting[s] = "new"
    BY StateFacts, Zenon DEF Connect
  <1>2. /\ connecting' \in ConnectingType /\ connecting'[s] = "pending"
        /\ \A t \in Sessions \ {s} : connecting'[t] = connecting[t]
    BY <1>1, Zenon DEF Connect, ConnectingType
  <1>3. /\ session_ref_' = session_ref_ \cup {s}
        /\ UNCHANGED <<acceptor_, session_map_, stateVars, writerVars, readerVars, io, app,
                       sends, toggles>>
    BY Zenon DEF Connect, AppOnly
  <1>4. /\ s \notin established_ \cup closed_ /\ s # app.s /\ s # io.s
    BY <1>1, Zenon DEF IInv, Core, SessionStates
  <1>5. MapOf' /\ SetTypes'
    BY <1>1, <1>3, Zenon DEF MapOf, InMap, SetTypes, stateVars, readerVars
  <1>6. SessionStates'
    BY <1>1, <1>2, <1>3, <1>4, Zenon DEF IInv, Core, SetTypes, SessionStates, stateVars
  <1>7. IoConsistent'
    <2>1. io # IoIdle => io.s \in Sessions
      BY StateFacts, Zenon
    <2> QED BY <2>1, <1>2, <1>3, <1>4, Zenon DEF IInv, Core, IoConsistent, stateVars
  <1>8. AppConsistent'
    BY <1>1, <1>2, <1>3, <1>4, Zenon DEF IInv, Core, SetTypes, AppConsistent, Clearing, stateVars
  <1>9. Kept'
    BY <1>2, <1>3, Zenon DEF IInv, Kept, stateVars, writerVars
  <1> QED
    BY <1>1, <1>2, <1>3, <1>5, <1>6, <1>7, <1>8, <1>9, StateFacts, StepInv, Zenon DEF stateVars

LEMMA ShutdownInv ==
  ASSUME IInv, Shutdown
  PROVE  IInv'
  <1>1. /\ acceptor_' \in BOOLEAN
        /\ UNCHANGED <<session_ref_, session_map_, stateVars, writerVars, readerVars,
                       connecting, io, app, sends, toggles>>
    BY Zenon DEF Shutdown, AppOnly
  <1>2. Core'
    BY <1>1, CoreFrame, Zenon DEF IInv
  <1>3. TypeOK'
    BY <1>1, Zenon DEF IInv, TypeOK, stateVars, writerVars, readerVars
  <1>4. Kept'
    BY <1>1, Zenon DEF IInv, Kept, stateVars, writerVars
  <1>5. Writer' /\ Reader'
    BY <1>1, WriterFrame, ReaderFrame, Zenon DEF IInv, stateVars
  <1> QED BY <1>2, <1>3, <1>4, <1>5, Zenon DEF IInv

-----------------------------------------------------------------------------

LEMMA InitInv == Init => IInv
  <1> SUFFICES ASSUME Init PROVE IInv
    BY Zenon
  <1>1. TypeOK
    <2>1. io \in IoType /\ app \in AppType
      BY Zenon DEF Init, IoType, AppType, AppRuns
    <2>2. sends \in 0 .. MaxSends /\ toggles \in 0 .. MaxToggles
      BY TcpAssumption DEF Init
    <2>3. /\ writes \in [Sessions -> [post : Nat, flight : Nat]]
          /\ reads \in [Sessions -> [post : Nat, flight : Nat, task : Nat, after : Nat]]
      BY Zenon DEF Init
    <2>4. buffer_queue_ \in [Sessions -> Seq(Nat \ {0})]
      BY EmptySeq, Zenon DEF Init
    <2> QED BY <2>1, <2>2, <2>3, <2>4, Zenon DEF Init, TypeOK
  <1>2. SetTypes
    BY <1>1, SetsTyped, Zenon
  <1>3. io.s = NULL /\ io.pc = "idle" /\ app.s = NULL /\ app.pc = "run" /\ app.refs = {} /\ app.todo = {}
    BY Zenon DEF Init, IoIdle, AppRuns
  <1>4. MapExact
    <2>1. MapOf
      BY <1>2, <1>3, Zenon DEF Init, MapOf, InMap, SetTypes
    <2> QED BY <1>1, <2>1, MapByMember, Zenon DEF MapMembers
  <1>5. SessionStates /\ IoConsistent /\ AppConsistent
    BY <1>2, <1>3, Zenon DEF Init, SessionStates, IoConsistent, AppConsistent, SetTypes
  <1>6. Kept
    BY Zenon DEF Init, Kept
  <1>7. Writer
    BY DEF Init, Writer, OneWriter, WriterConsistent
  <1>8. Reader
    BY DEF Init, Reader, ReadNeverStalls, ReaderConsistent
  <1> QED BY <1>1, <1>4, <1>5, <1>6, <1>7, <1>8, Zenon DEF IInv, Core

LEMMA StutterInv ==
  ASSUME IInv, UNCHANGED vars
  PROVE  IInv'
  <1>1. UNCHANGED <<serverVars, stateVars, writerVars, readerVars, connecting, io, app,
                    sends, toggles>>
    BY Zenon DEF vars
  <1>2. Core' /\ Writer' /\ Reader'
    BY <1>1, CoreFrame, WriterFrame, ReaderFrame, Zenon DEF IInv, serverVars, stateVars
  <1>3. TypeOK'
    BY <1>1, Zenon DEF IInv, TypeOK, serverVars, stateVars, writerVars, readerVars
  <1>4. Kept'
    BY <1>1, Zenon DEF IInv, Kept, serverVars, stateVars, writerVars
  <1> QED BY <1>2, <1>3, <1>4, Zenon DEF IInv

LEMMA NextInv ==
  ASSUME IInv, [Next]_vars
  PROVE  IInv'
  <1>1. CASE HandlerRest
    BY <1>1, CloseAfterWriteInv, InsertInv, TcpConnectedInv, RemoveInv, AcceptCompleteInv,
       AcceptRejectedInv, ReadOnConnectInv, IoNotifiesServerInv, Zenon DEF HandlerRest
  <1>2. CASE AppRest
    BY <1>2, CloseInternalInv, AppNotifiesServerInv, EraseInv, ClearSessionsInv, AppClosesInv,
       ClearedInv, WaitInv, Zenon DEF AppRest
  <1>3. ASSUME NEW s \in Sessions, Handler(s) PROVE IInv'
    BY <1>3, AsyncWriteInternalInv, AsyncWriteHandlerInv, WriteErrorInv, SoftErrorInv,
       ReadStepInv, ReadErrorInv, ConnectFailedInv, ConnectHandlerInv, Zenon DEF Handler
  <1>4. ASSUME NEW s \in Sessions,
               ReaderRun(s) \/ ReaderRunAfter(s) \/ SetDeferReader(s) \/ AppCall(s)
        PROVE  IInv'
    BY <1>4, ReadStepInv, SetDeferReaderInv, AppClosesInv, SendInv, Zenon DEF AppCall
  <1>5. ASSUME NEW s \in Active, Connect(s) PROVE IInv'
    BY <1>5, ConnectInv, Zenon DEF Sessions
  <1>6. ASSUME NEW s \in Passive, AcceptHandlerInternal(s) \/ AcceptFailed(s) PROVE IInv'
    BY <1>6, AcceptInv, AcceptFailedInv, Zenon DEF Sessions
  <1>7. CASE UNCHANGED vars
    BY <1>7, StutterInv, Zenon
  <1> QED
    BY <1>1, <1>2, <1>3, <1>4, <1>5, <1>6, <1>7, ShutdownInv, Zenon DEF Next

\* The sessions, their writers and their readers are in order, always.
THEOREM Invariance == Spec => []IInv
  <1>1. IInv /\ [Next]_vars => IInv'
    BY NextInv, Zenon
  <1> QED BY InitInv, <1>1, PTL DEF Spec

\* session_map_ has exactly the established sessions (so the assert(found) of
\* OnSessionClose holds), and none of them is without a reference (the assert of
\* ~TcpSession), whatever the event-manager and the application thread do.
THEOREM Accounted == Spec => []SessionsAccounted
  <1>1. IInv => SessionsAccounted
    BY KeptIsReferenced, Zenon DEF KeptAlive, IInv, Core, Writer, Reader, SessionsAccounted
  <1> QED BY <1>1, Invariance, PTL

\* Data waits exactly while one handler will write it: the asserts of
\* TriggerAsyncWrite and UpdateBufferQueue.
THEOREM SingleWriter == Spec => []OneWriter
  <1>1. IInv => OneWriter
    BY Zenon DEF IInv, Writer
  <1> QED BY <1>1, Invariance, PTL

\* No interleaving of SetDeferReader with the reader's task loses the last read.
THEOREM ReadsGoOn == Spec => []ReadNeverStalls
  <1>1. IInv => ReadNeverStalls
    BY Zenon DEF IInv, Reader
  <1> QED BY <1>1, Invariance, PTL
=============================================================================
