----------------------------- MODULE TcpServer -----------------------------
(***************************************************************************)
(* TcpServer, its TcpSessions and their TcpMessageWriters.                 *)
(*                                                                         *)
(* Three kinds of thread meet here.  The event-manager thread runs the     *)
(* completion handlers, one at a time (io holds the rest of the one that   *)
(* has released a mutex on the way).  One application thread sends on      *)
(* sessions, closes and deletes them, and takes the server down (app).     *)
(* Reader tasks run OnRead.  A step is what a thread does under one hold   *)
(* of the session's or the server's mutex.                                 *)
(*                                                                         *)
(* Bytes are counted, not kept; a session of Passive is one that a peer    *)
(* opens, the others are opened with Connect.                              *)
(***************************************************************************)
EXTENDS Integers, Sequences, FiniteSets, FiniteSetsExt

CONSTANTS
    Active, Passive,       \* sessions, by who opens them
    read_on_connect_,      \* the sessions that read once they are open
    buffer_send_size_,     \* most bytes of one async_write
    kMaxPending, kMinPending,  \* the writer's water marks
    MessageSizes,          \* sizes the application sends
    MaxSends, MaxToggles,  \* bounds on its calls of Send and SetDeferReader
    NULL

ASSUME TcpAssumption ==
    /\ Active \cap Passive = {} /\ NULL \notin Active \cup Passive
    /\ read_on_connect_ \subseteq Active \cup Passive
    /\ buffer_send_size_ \in Nat \ {0} /\ MessageSizes \subseteq Nat \ {0}
    /\ kMinPending \in Nat \ {0} /\ kMaxPending \in Nat \ {0}
    /\ MaxSends \in Nat /\ MaxToggles \in Nat

Sessions == Active \cup Passive

VARIABLES
    acceptor_,        \* the server listens
    session_ref_,     \* sessions the server holds a reference to
    session_map_,     \* sessions its map points to
    established_, closed_, tcp_close_in_progress_, defer_reader_, write_blocked_,
    buffer_queue_,    \* sizes of the writer's buffers
    offset_, last_write_,
    connecting,       \* async_connect is outstanding
    writes,           \* posted AsyncWriteInternal, outstanding async_write
    reads,            \* posted AsyncReadStartInternal, outstanding reads, reader tasks
    io, app,          \* the two threads
    sends, toggles

serverVars == <<acceptor_, session_ref_, session_map_>>
stateVars == <<established_, closed_, tcp_close_in_progress_>>
writerVars == <<buffer_queue_, offset_, last_write_, write_blocked_, writes>>
readerVars == <<defer_reader_, reads>>
vars == <<serverVars, stateVars, writerVars, readerVars, connecting, io, app,
          sends, toggles>>

IoIdle == [pc |-> "idle", s |-> NULL]
\* next is what the thread does after the close of s; refs and todo are
\* the sessions ClearSessions took and has yet to close.
AppRuns == [pc |-> "run", s |-> NULL, next |-> "run", refs |-> {}, todo |-> {}]

Init ==
    /\ acceptor_ = TRUE /\ session_ref_ = {} /\ session_map_ = {}
    /\ established_ = {} /\ closed_ = {} /\ tcp_close_in_progress_ = {}
    /\ defer_reader_ = {} /\ write_blocked_ = {}
    /\ buffer_queue_ = [s \in Sessions |-> <<>>]
    /\ offset_ = [s \in Sessions |-> 0] /\ last_write_ = [s \in Sessions |-> 0]
    /\ connecting = [s \in Sessions |-> "new"]
    /\ writes = [s \in Sessions |-> [post |-> 0, flight |-> 0]]
    /\ reads = [s \in Sessions |-> [post |-> 0, flight |-> 0, task |-> 0, after |-> 0]]
    /\ io = IoIdle /\ app = AppRuns
    /\ sends = 0 /\ toggles = 0

(***************************************************************************)
(* Closing.  CloseInternal is one step on the session; what is left of it, *)
(* the call of OnSessionClose, is a step of the same thread on the server. *)
(***************************************************************************)
CloseLocked(s) ==
    /\ closed_' = closed_ \cup {s}
    /\ tcp_close_in_progress_' = tcp_close_in_progress_ \ {s}
    /\ established_' = established_ \ {s}

\* The event-manager thread calls CloseInternal(error, true).
IoCloseInternal(s) ==
    /\ CloseLocked(s)
    /\ io' = IF s \in established_ THEN [pc |-> "notify", s |-> s] ELSE IoIdle

\* cond_var_.notify_all when nothing is left.
Notified(refs, map, a) ==
    IF refs = {} /\ map = {} /\ a.pc = "waiting" THEN [a EXCEPT !.pc = "wait"] ELSE a

OnSessionClose(s, a) ==
    /\ session_map_' = session_map_ \ {s}
    /\ app' = IF session_map_ = {} THEN a ELSE Notified(session_ref_, session_map_', a)
    /\ UNCHANGED <<acceptor_, session_ref_>>

(***************************************************************************)
(* The writer.                                                             *)
(***************************************************************************)
Pending(q, off) == FoldSet(LAMBDA i, n : n + q[i], 0, DOMAIN q) - off

\* Mutant: a handler is posted for every message.
PostsWriteAlways(s) == TRUE

\* The handler is posted only for a queue that was empty.
PostsWrite(s) == buffer_queue_[s] = <<>>

AsyncSend(s, size) ==
    LET q == Append(buffer_queue_[s], size)
    IN  /\ buffer_queue_' = [buffer_queue_ EXCEPT ![s] = q]
        /\ writes' = IF PostsWrite(s) THEN [writes EXCEPT ![s].post = @ + 1] ELSE writes
        /\ write_blocked_' = IF Pending(q, offset_[s]) > kMaxPending
                             THEN write_blocked_ \cup {s} ELSE write_blocked_
        /\ UNCHANGED <<offset_, last_write_>>

\* What TriggerAsyncWrite hands to the socket.
NextWrite(q, off) == IF q[1] - off < buffer_send_size_ THEN q[1] - off ELSE buffer_send_size_

AsyncWriteInternal(s) ==
    /\ io = IoIdle /\ writes[s].post > 0
    /\ IF s \in closed_ THEN
          /\ writes' = [writes EXCEPT ![s].post = @ - 1]
          /\ UNCHANGED last_write_
       ELSE
          /\ last_write_' = [last_write_ EXCEPT ![s] = NextWrite(buffer_queue_[s], offset_[s])]
          /\ writes' = [writes EXCEPT ![s].post = @ - 1, ![s].flight = @ + 1]
    /\ UNCHANGED <<serverVars, stateVars, buffer_queue_, offset_, write_blocked_,
                   readerVars, connecting, io, app, sends, toggles>>

\* Mutant: an empty queue returns before the sender is let go.
ResumesUnlessDrained(q, off) == q # <<>> /\ Pending(q, off) < kMinPending

Resumes(q, off) == Pending(q, off) < kMinPending

\* UpdateBufferQueue: the queue and the offset after last_write_ bytes.
Written(s) ==
    LET n == offset_[s] + last_write_[s]
    IN  IF n = buffer_queue_[s][1] THEN [q |-> Tail(buffer_queue_[s]), off |-> 0]
        ELSE [q |-> buffer_queue_[s], off |-> n]

\* async_write is done: the next one, or the close that waited for the last.
AsyncWriteHandler(s) ==
    LET w == Written(s)
    IN  /\ io = IoIdle /\ writes[s].flight > 0 /\ s \notin closed_
        /\ buffer_queue_' = [buffer_queue_ EXCEPT ![s] = w.q]
        /\ offset_' = [offset_ EXCEPT ![s] = w.off]
        /\ write_blocked_' = IF Resumes(w.q, w.off)
                             THEN write_blocked_ \ {s} ELSE write_blocked_
        /\ IF w.q # <<>> THEN
              /\ last_write_' = [last_write_ EXCEPT ![s] = NextWrite(w.q, w.off)]
              /\ UNCHANGED <<writes, io>>
           ELSE
              /\ last_write_' = [last_write_ EXCEPT ![s] = 0]
              /\ writes' = [writes EXCEPT ![s].flight = @ - 1]
              /\ io' = IF s \in tcp_close_in_progress_ THEN [pc |-> "close", s |-> s] ELSE io
        /\ UNCHANGED <<serverVars, stateVars, readerVars, connecting, app, sends, toggles>>

CloseAfterWrite ==
    /\ io.pc = "close" /\ IoCloseInternal(io.s)
    /\ UNCHANGED <<serverVars, writerVars, readerVars, connecting, app, sends, toggles>>

\* async_write fails for good, or completes once the session is closed.
AsyncWriteError(s) ==
    /\ io = IoIdle /\ writes[s].flight > 0
    /\ writes' = [writes EXCEPT ![s].flight = @ - 1]
    /\ IoCloseInternal(s)
    /\ UNCHANGED <<serverVars, buffer_queue_, offset_, last_write_, write_blocked_,
                   readerVars, connecting, app, sends, toggles>>

\* async_write ends early with an error that is not hard: UpdateBufferQueue asserts
\* that all bytes were written, and the process aborts, with all its threads.
AsyncWriteSoftError(s) ==
    /\ io = IoIdle /\ writes[s].flight > 0 /\ s \notin closed_
    /\ io' = [pc |-> "abort", s |-> s]
    /\ UNCHANGED <<serverVars, stateVars, writerVars, readerVars, connecting, app, sends,
                   toggles>>

Aborted == io.pc = "abort"

(***************************************************************************)
(* The reader: AsyncReadStartInternal, the read's handler, and the task it *)
(* starts.                                                                 *)
(***************************************************************************)
IsEstablishedLocked(s) == s \in established_ \ tcp_close_in_progress_

AsyncReadStart(r, s) == [r EXCEPT ![s].post = @ + 1]

AsyncReadStartInternal(s) ==
    /\ io = IoIdle /\ reads[s].post > 0
    /\ reads' = [reads EXCEPT ![s].post = @ - 1,
                              ![s].flight = IF IsEstablishedLocked(s) THEN @ + 1 ELSE @]
    /\ UNCHANGED <<serverVars, stateVars, writerVars, defer_reader_, connecting, io, app,
                   sends, toggles>>

AsyncReadHandler(s) ==
    /\ io = IoIdle /\ reads[s].flight > 0
    /\ reads' = [reads EXCEPT ![s].flight = @ - 1,
                              ![s].task = IF s \in closed_ THEN @ ELSE @ + 1]
    /\ UNCHANGED <<serverVars, stateVars, writerVars, defer_reader_, connecting, io, app,
                   sends, toggles>>

\* The peer closed the connection, or the read failed for good.
AsyncReadError(s) ==
    /\ io = IoIdle /\ reads[s].flight > 0 /\ s \notin closed_
    /\ reads' = [reads EXCEPT ![s].flight = @ - 1]
    /\ IoCloseInternal(s)
    /\ UNCHANGED <<serverVars, writerVars, defer_reader_, connecting, app, sends, toggles>>

\* Reader::Run calls OnRead if the session is established, ...
ReaderRun(s) ==
    /\ ~Aborted /\ reads[s].task > 0
    /\ reads' = [reads EXCEPT ![s].task = @ - 1,
                              ![s].after = IF s \in established_ THEN @ + 1 ELSE @]
    /\ UNCHANGED <<serverVars, stateVars, writerVars, defer_reader_, connecting, io, app,
                   sends, toggles>>

\* ... and then reads on, unless it finds the reader deferred.
ReaderRunAfter(s) ==
    LET r == [reads EXCEPT ![s].after = @ - 1]
    IN  /\ ~Aborted /\ reads[s].after > 0
        /\ reads' = IF s \in defer_reader_ THEN r ELSE AsyncReadStart(r, s)
        /\ UNCHANGED <<serverVars, stateVars, writerVars, defer_reader_, connecting, io,
                       app, sends, toggles>>

\* Mutant: no read is started when the reader is deferred no longer.
SetDeferReaderSilent(s) ==
    /\ ~Aborted /\ toggles < MaxToggles /\ toggles' = toggles + 1
    /\ s \in read_on_connect_ /\ (s \in session_ref_ \/ reads[s].after > 0)
    /\ defer_reader_' = IF s \in defer_reader_ THEN defer_reader_ \ {s}
                        ELSE defer_reader_ \cup {s}
    /\ UNCHANGED <<serverVars, stateVars, writerVars, reads, connecting, io, app, sends>>

\* SetDeferReader, from OnRead or from elsewhere, in whatever state the session is;
\* only the users of sessions that read call it.
SetDeferReader(s) ==
    /\ ~Aborted /\ toggles < MaxToggles /\ toggles' = toggles + 1
    /\ s \in read_on_connect_ /\ (s \in session_ref_ \/ reads[s].after > 0)
    /\ IF s \in defer_reader_ THEN
          /\ defer_reader_' = defer_reader_ \ {s}
          /\ reads' = AsyncReadStart(reads, s)
       ELSE
          /\ defer_reader_' = defer_reader_ \cup {s}
          /\ UNCHANGED reads
    /\ UNCHANGED <<serverVars, stateVars, writerVars, connecting, io, app, sends>>

(***************************************************************************)
(* The event-manager thread opens sessions.                                *)
(***************************************************************************)
IoOnly == UNCHANGED <<writerVars, defer_reader_, app, sends, toggles>>

\* ConnectHandler: the session failed to connect, or its socket has been
\* closed since.
ConnectFailed(s) ==
    /\ io = IoIdle /\ connecting[s] = "pending"
    /\ connecting' = [connecting EXCEPT ![s] = "done"]
    /\ IoOnly /\ UNCHANGED <<serverVars, stateVars, reads, io>>

\* ConnectHandlerComplete: the remote end-point is read, ...
ConnectHandler(s) ==
    /\ io = IoIdle /\ connecting[s] = "pending" /\ s \notin closed_
    /\ connecting' = [connecting EXCEPT ![s] = "done"]
    /\ io' = [pc |-> "insert", s |-> s]
    /\ IoOnly /\ UNCHANGED <<serverVars, stateVars, reads>>

\* ... the session is entered in the map, ...
InsertSessionToMap ==
    /\ io.pc = "insert"
    /\ session_map_' = session_map_ \cup {io.s}
    /\ io' = [io EXCEPT !.pc = "connected"]
    /\ IoOnly /\ UNCHANGED <<acceptor_, session_ref_, stateVars, reads, connecting>>

\* Mutant: a session closed meanwhile is established all the same.
TcpConnectedAlways ==
    /\ io.pc = "connected"
    /\ established_' = established_ \cup {io.s}
    /\ io' = [io EXCEPT !.pc = "readstart"]
    /\ IoOnly /\ UNCHANGED <<serverVars, closed_, tcp_close_in_progress_, reads, connecting>>

\* ... Connected finds out whether it has been closed meanwhile, ...
TcpConnected ==
    /\ io.pc = "connected"
    /\ IF io.s \in closed_ THEN
          /\ io' = [io EXCEPT !.pc = "unmap"]
          /\ UNCHANGED established_
       ELSE
          /\ established_' = established_ \cup {io.s}
          /\ io' = [io EXCEPT !.pc = "readstart"]
    /\ IoOnly /\ UNCHANGED <<serverVars, closed_, tcp_close_in_progress_, reads, connecting>>

\* ... and if it has, it is taken out of the map again.
RemoveSessionFromMap ==
    /\ io.pc = "unmap"
    /\ session_map_' = session_map_ \ {io.s}
    /\ io' = IoIdle
    /\ IoOnly /\ UNCHANGED <<acceptor_, session_ref_, stateVars, reads, connecting>>

\* AcceptHandlerInternal looks at acceptor_ without the mutex; the session is
\* established before anybody else knows it.
AcceptHandlerInternal(s) ==
    /\ io = IoIdle /\ connecting[s] = "new" /\ acceptor_
    /\ connecting' = [connecting EXCEPT ![s] = "done"]
    /\ established_' = established_ \cup {s}
    /\ io' = [pc |-> "accepted", s |-> s]
    /\ IoOnly /\ UNCHANGED <<serverVars, closed_, tcp_close_in_progress_, reads>>

AcceptHandlerComplete ==
    /\ io.pc = "accepted"
    /\ session_ref_' = session_ref_ \cup {io.s}
    /\ session_map_' = session_map_ \cup {io.s}
    /\ io' = [io EXCEPT !.pc = "readstart"]
    /\ IoOnly /\ UNCHANGED <<acceptor_, stateVars, reads, connecting>>

\* The socket options cannot be set.
AcceptFailed(s) ==
    /\ io = IoIdle /\ connecting[s] = "new" /\ acceptor_
    /\ connecting' = [connecting EXCEPT ![s] = "done"]
    /\ CloseLocked(s)
    /\ IoOnly /\ UNCHANGED <<serverVars, reads, io>>

\* AcceptSession says no: CloseInternal without a word to the server.
AcceptRejected ==
    /\ io.pc = "accepted"
    /\ CloseLocked(io.s)
    /\ io' = IoIdle
    /\ IoOnly /\ UNCHANGED <<serverVars, reads, connecting>>

\* The end of Connected and of Accepted.
ReadOnConnect ==
    /\ io.pc = "readstart"
    /\ reads' = IF io.s \in read_on_connect_ THEN AsyncReadStart(reads, io.s) ELSE reads
    /\ io' = IoIdle
    /\ IoOnly /\ UNCHANGED <<serverVars, stateVars, connecting>>

IoNotifiesServer ==
    /\ io.pc = "notify"
    /\ OnSessionClose(io.s, app)
    /\ io' = IoIdle
    /\ UNCHANGED <<stateVars, writerVars, readerVars, connecting, sends, toggles>>

(***************************************************************************)
(* The application thread.  It uses a session until it asks the server to  *)
(* delete it.                                                              *)
(***************************************************************************)
AppOnly == ~Aborted /\ UNCHANGED <<readerVars, io, toggles>>
Uses(s) == app.pc = "run" /\ s \in session_ref_

\* CreateSession and Connect.
Connect(s) ==
    /\ app.pc = "run" /\ connecting[s] = "new"
    /\ session_ref_' = session_ref_ \cup {s}
    /\ connecting' = [connecting EXCEPT ![s] = "pending"]
    /\ AppOnly /\ UNCHANGED <<acceptor_, session_map_, stateVars, writerVars, app, sends>>

\* Send, by the application or from OnRead; refused otherwise.
Send(s, size) ==
    /\ Uses(s) \/ reads[s].after > 0
    /\ sends < MaxSends /\ IsEstablishedLocked(s)
    /\ sends' = sends + 1
    /\ AsyncSend(s, size)
    /\ AppOnly /\ UNCHANGED <<serverVars, stateVars, connecting, app>>

\* Mutant: so is the close of a session with nothing to write.
DefersCloseAlways(s) == TRUE

\* With data to write the close is left to AsyncWriteHandler.
DefersClose(s) == buffer_queue_[s] # <<>>

\* Close, in a thread that is to go on as a; the mutex is released before
\* CloseInternal takes it again.
CloseThen(s, a) ==
    IF s \in closed_ THEN app' = a /\ UNCHANGED stateVars
    ELSE IF DefersClose(s) THEN
        /\ tcp_close_in_progress_' = tcp_close_in_progress_ \cup {s}
        /\ app' = a /\ UNCHANGED <<established_, closed_>>
    ELSE
        /\ app' = [a EXCEPT !.pc = "close", !.s = s, !.next = a.pc]
        /\ UNCHANGED stateVars

Close(s) ==
    /\ Uses(s) /\ CloseThen(s, app)
    /\ AppOnly /\ UNCHANGED <<serverVars, writerVars, connecting, sends>>

CloseInternal ==
    /\ app.pc = "close"
    /\ CloseLocked(app.s)
    /\ app' = [app EXCEPT !.pc = IF app.s \in established_ THEN "notify" ELSE app.next]
    /\ AppOnly /\ UNCHANGED <<serverVars, writerVars, connecting, sends>>

AppNotifiesServer ==
    /\ app.pc = "notify"
    /\ OnSessionClose(app.s, [app EXCEPT !.pc = app.next])
    /\ AppOnly /\ UNCHANGED <<stateVars, writerVars, connecting, sends>>

DeleteSession(s) ==
    /\ Uses(s) /\ CloseThen(s, [app EXCEPT !.pc = "erase", !.s = s])
    /\ AppOnly /\ UNCHANGED <<serverVars, writerVars, connecting, sends>>

EraseSession ==
    /\ app.pc = "erase"
    /\ session_ref_' = session_ref_ \ {app.s}
    /\ app' = AppRuns
    /\ AppOnly /\ UNCHANGED <<acceptor_, session_map_, stateVars, writerVars, connecting,
                              sends>>

\* "TcpServer delete procedure": Shutdown, then close the sessions, then wait.
Shutdown ==
    /\ app.pc = "run" /\ acceptor_
    /\ acceptor_' = FALSE
    /\ AppOnly /\ UNCHANGED <<session_ref_, session_map_, stateVars, writerVars, connecting,
                              app, sends>>

ClearSessions ==
    /\ app.pc = "run" /\ ~acceptor_
    /\ app' = [app EXCEPT !.pc = "clear", !.refs = session_ref_, !.todo = session_ref_]
    /\ session_ref_' = {}
    /\ AppOnly /\ UNCHANGED <<acceptor_, session_map_, stateVars, writerVars, connecting,
                              sends>>

ClearOne(s) ==
    /\ app.pc = "clear" /\ s \in app.todo
    /\ CloseThen(s, [app EXCEPT !.todo = @ \ {s}])
    /\ AppOnly /\ UNCHANGED <<serverVars, writerVars, connecting, sends>>

Cleared ==
    /\ app.pc = "clear" /\ app.todo = {}
    /\ app' = [AppRuns EXCEPT !.pc = "wait"]
    /\ AppOnly /\ UNCHANGED <<serverVars, stateVars, writerVars, connecting, sends>>

WaitForEmpty ==
    /\ app.pc = "wait"
    /\ app' = [app EXCEPT !.pc = IF session_ref_ = {} /\ session_map_ = {}
                                 THEN "done" ELSE "waiting"]
    /\ AppOnly /\ UNCHANGED <<serverVars, stateVars, writerVars, connecting, sends>>

-----------------------------------------------------------------------------

Handler(s) ==
    \/ AsyncWriteInternal(s) \/ AsyncWriteHandler(s) \/ AsyncWriteError(s)
    \/ AsyncWriteSoftError(s)
    \/ AsyncReadStartInternal(s) \/ AsyncReadHandler(s) \/ AsyncReadError(s)
    \/ ConnectFailed(s) \/ ConnectHandler(s)
HandlerRest ==
    \/ CloseAfterWrite \/ InsertSessionToMap \/ TcpConnected \/ RemoveSessionFromMap
    \/ AcceptHandlerComplete \/ AcceptRejected \/ ReadOnConnect \/ IoNotifiesServer
AppCall(s) ==
    \/ Close(s) \/ DeleteSession(s)
    \/ \E size \in MessageSizes : Send(s, size)
AppRest ==
    \/ CloseInternal \/ AppNotifiesServer \/ EraseSession \/ ClearSessions
    \/ (\E s \in Sessions : ClearOne(s)) \/ Cleared \/ WaitForEmpty

Next ==
    \/ HandlerRest \/ AppRest \/ Shutdown
    \/ \E s \in Sessions :
          \/ Handler(s) \/ ReaderRun(s) \/ ReaderRunAfter(s)
          \/ SetDeferReader(s) \/ AppCall(s)
    \/ \E s \in Active : Connect(s)
    \/ \E s \in Passive : AcceptHandlerInternal(s) \/ AcceptFailed(s)

Spec == Init /\ [][Next]_vars

\* The event manager runs what is posted and what completes, and a write
\* completes: the peer reads, or TCP gives up on it.
FairSpec ==
    /\ Spec
    /\ WF_vars(HandlerRest)
    /\ \A s \in Sessions :
          /\ WF_vars(AsyncWriteInternal(s))
          /\ WF_vars(AsyncWriteHandler(s) \/ AsyncWriteError(s))

-----------------------------------------------------------------------------

\* MapExact: the map holds the sessions that are established, and those a
\* thread is just entering or removing; so OnSessionClose finds the session
\* it looks for (its assert(found)), and no session stays behind in the map.
MapExact ==
    session_map_ =
        (established_ \ {s \in Sessions : io = [pc |-> "accepted", s |-> s]})
        \cup {s \in Sessions : io.s = s /\ io.pc \in {"connected", "unmap", "notify"}}
        \cup {s \in Sessions : app.s = s /\ app.pc = "notify"}

Referenced(s) ==
    \/ s \in session_ref_ \cup app.refs \cup {io.s}
    \/ app.s = s /\ app.pc \in {"close", "notify"}
    \/ connecting[s] = "pending"
    \/ writes[s].post + writes[s].flight > 0
    \/ reads[s].post + reads[s].flight + reads[s].task + reads[s].after > 0

\* NoDanglingSession: the last reference to a session is not dropped while it
\* is established (the assert of ~TcpSession) or while the map, which holds
\* plain pointers, has it.
NoDanglingSession == \A s \in established_ \cup session_map_ : Referenced(s)

\* OneWriter: data waits to be written exactly while one handler will write
\* it: none is left behind, and TriggerAsyncWrite and UpdateBufferQueue never
\* find a second write under way (their asserts).
OneWriter ==
    \A s \in Sessions \ closed_ :
        /\ writes[s].post + writes[s].flight = (IF buffer_queue_[s] = <<>> THEN 0 ELSE 1)
        /\ last_write_[s] > 0 <=> writes[s].flight > 0

\* ReadNeverStalls: a session that is open and not deferred has a read
\* posted, outstanding or being served, whatever SetDeferReader raced with.
ReadNeverStalls ==
    \A s \in (read_on_connect_ \cap established_)
             \ (tcp_close_in_progress_ \cup defer_reader_ \cup {io.s}) :
        reads[s].post + reads[s].flight + reads[s].task + reads[s].after > 0

\* CloseCompletes: a close that waits for pending data closes the session in
\* the end, although the server may have dropped its reference, unless a soft
\* error of the write has ended the process.
CloseCompletes ==
    \A s \in Sessions : s \in tcp_close_in_progress_ ~> s \in closed_ \/ Aborted

\* SenderUnblocked: a sender told to hold back is told to go on (WriteReady),
\* or the session is closed, or a soft error of the write has ended the process.
SenderUnblocked ==
    \A s \in Sessions :
        s \in write_blocked_ ~> s \notin write_blocked_ \/ s \in closed_ \/ Aborted

\* SoftErrorsHandled: "Soft errors like EINTR and EAGAIN should be ignored or
\* properly handled with retries" (IsSocketErrorHard): none ends the process.
SoftErrorsHandled == ~Aborted

\* WaitReturns: WaitForEmpty waits "until the server has deleted all sessions".
WaitReturns ==
    (app.pc = "waiting" /\ session_map_ = {} /\ session_ref_ = {}) ~>
        (app.pc # "waiting" \/ Aborted)

IoType ==
    {IoIdle} \cup [pc : {"insert", "connected", "unmap", "accepted", "readstart", "close",
                         "notify", "abort"}, s : Sessions]
AppType ==
    [pc : {"run", "close", "notify", "erase", "clear", "wait", "waiting", "done"},
     s : Sessions \cup {NULL}, next : {"run", "erase", "clear"},
     refs : SUBSET Sessions, todo : SUBSET Sessions]

\* TypeOK: the types of the members of server, sessions and writers, and of what
\* the two threads are about to do.
TypeOK ==
    /\ acceptor_ \in BOOLEAN
    /\ session_ref_ \subseteq Sessions /\ session_map_ \subseteq Sessions
    /\ established_ \subseteq Sessions /\ closed_ \subseteq Sessions
    /\ tcp_close_in_progress_ \subseteq Sessions
    /\ defer_reader_ \subseteq Sessions /\ write_blocked_ \subseteq Sessions
    /\ buffer_queue_ \in [Sessions -> Seq(Nat \ {0})]
    /\ offset_ \in [Sessions -> Nat] /\ last_write_ \in [Sessions -> Nat]
    /\ connecting \in [Sessions -> {"new", "pending", "done"}]
    /\ writes \in [Sessions -> [post : Nat, flight : Nat]]
    /\ reads \in [Sessions -> [post : Nat, flight : Nat, task : Nat, after : Nat]]
    /\ io \in IoType /\ app \in AppType
    /\ sends \in 0 .. MaxSends /\ toggles \in 0 .. MaxToggles

\* A session is open or closed for good; nobody knows one that is new.
SessionStates ==
    /\ established_ \cap closed_ = {} /\ tcp_close_in_progress_ \subseteq established_
    /\ \A s \in established_ : connecting[s] = "done"
    /\ \A s \in Sessions : connecting[s] = "new" =>
          s \notin closed_ \cup session_ref_ \cup app.refs \cup {app.s, io.s}

\* What the event-manager thread knows of the session it is busy with.
IoConsistent ==
    /\ io # IoIdle => connecting[io.s] = "done"
    /\ io.pc \in {"insert", "connected"} => io.s \notin established_
    /\ io.pc = "accepted" =>
          io.s \in established_ /\ io.s \notin session_ref_ \cup app.refs \cup {app.s}
    /\ io.pc \in {"notify", "unmap"} => io.s \in closed_

Clearing == app.pc = "clear" \/ (app.pc \in {"close", "notify"} /\ app.next = "clear")

\* What the application thread knows of the session it closes, and of those that
\* ClearSessions has closed; only one of the two threads reports a close.
AppConsistent ==
    /\ app.pc \in {"close", "notify", "erase"} => app.s # NULL
    /\ app.pc = "notify" =>
          /\ app.s \in closed_ /\ connecting[app.s] = "done"
          /\ io.s = app.s => io.pc \notin {"insert", "connected", "unmap", "notify"}
    /\ app.pc = "erase" => app.s \in closed_ \cup tcp_close_in_progress_
    /\ ~Clearing => app.refs = {}
    /\ app.todo \subseteq app.refs
    /\ \A s \in app.refs \ app.todo :
          s \in closed_ \cup tcp_close_in_progress_ \/ (app.pc = "close" /\ app.s = s)

\* Kept: the reference of a session that is not closed is dropped only while its
\* close waits for the writer, which then has data or is about to close it.
Kept ==
    /\ \A s \in Sessions \ closed_ : connecting[s] # "new" =>
          \/ s \in session_ref_ \cup app.refs \cup tcp_close_in_progress_
          \/ io.pc = "accepted" /\ io.s = s
    /\ \A s \in tcp_close_in_progress_ :
          buffer_queue_[s] # <<>> \/ (io.pc = "close" /\ io.s = s)

\* Only a session that has been opened reads.
ReaderConsistent ==
    \A s \in Sessions :
        reads[s].post + reads[s].flight + reads[s].task + reads[s].after > 0 =>
            connecting[s] # "new"

\* What is left of the first buffer is what offset_ and the write under way say.
WriterConsistent ==
    \A s \in Sessions \ closed_ :
        /\ buffer_queue_[s] # <<>> => s \in established_ /\ offset_[s] < buffer_queue_[s][1]
        /\ buffer_queue_[s] = <<>> => offset_[s] = 0
        /\ writes[s].flight > 0 => offset_[s] + last_write_[s] <= buffer_queue_[s][1]

\* SessionsAccounted: session_map_, which holds plain pointers, has exactly the
\* established sessions, and each of them is kept alive by a reference.
SessionsAccounted ==
    /\ TypeOK /\ MapExact /\ NoDanglingSession
    /\ SessionStates /\ IoConsistent /\ AppConsistent /\ Kept
    /\ WriterConsistent /\ ReaderConsistent
=============================================================================
