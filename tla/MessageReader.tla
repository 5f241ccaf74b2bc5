--------------------------- MODULE MessageReader ---------------------------
(***************************************************************************)
(* The two readers that cut a TCP stream into messages: TcpMessageReader,  *)
(* which keeps the buffers of an incomplete message in a queue, and        *)
(* SandeshReader, which copies what it reads into one string.  Both are    *)
(* given the same stream, cut into the same reads; a read of no bytes is   *)
(* what AsyncReadHandler makes of a soft error.  Assumed of the user: a    *)
(* callback that returns false has closed the session, and what            *)
(* Reader::Run reads on after that is not looked at.                       *)
(***************************************************************************)
EXTENDS Integers, Sequences, SequencesExt, FiniteSetsExt

CONSTANTS
    Lengths, MaxMessages,         \* the streams: up to MaxMessages of these lengths
    MaxReads,                     \* bound on the number of reads
    kHeaderLenSize, kMaxMessageSize, kMinBufferSize,
    sandesh_open_, sandesh_close_ \* the sizes of the envelope

ASSUME ReaderAssumption ==
    /\ MaxMessages \in Nat /\ MaxReads \in Nat
    /\ kHeaderLenSize \in Nat \ {0} /\ kMinBufferSize \in Nat \ {0}
    /\ \A n \in Lengths :
          n >= kHeaderLenSize /\ n <= kMaxMessageSize /\ n >= sandesh_open_ + sandesh_close_

VARIABLES
    stream, refusal, received,
    reads,      \* reads so far
    tcp,        \* the TcpMessageReader
    sandesh     \* the SandeshReader

vars == <<stream, refusal, received, reads, tcp, sandesh>>

Streams == {s \in BoundedSeq(Lengths, MaxMessages) : s # <<>>}

Tcp == INSTANCE MessageFraming
         WITH open <- 0, close <- 0, delivered <- tcp.delivered
Sandesh == INSTANCE MessageFraming
         WITH open <- sandesh_open_, close <- sandesh_close_, delivered <- sandesh.delivered

(***************************************************************************)
(* A buffer holds the size bytes of the stream from place at on.           *)
(***************************************************************************)
Bytes(b, from, n) ==
    [k \in 1..(IF n < b.size - from THEN n ELSE b.size - from) |-> b.at + from + k - 1]

\* The length a header states; something else where no header is.
LengthIn(header) ==
    LET at == {i \in DOMAIN stream : header[1] = Tcp!End(i) - stream[i] + 1}
    IN  IF at # {} /\ \A k \in DOMAIN header : header[k] = header[1] + k - 1
        THEN stream[CHOOSE i \in at : TRUE] ELSE 1

MsgLength(b, offset) ==
    IF b.size - offset < kHeaderLenSize THEN -1
    ELSE LengthIn(Bytes(b, offset, kHeaderLenSize))

\* callback_ and cb_: the reader with one more message, and its answer.
Receive(r, msg) == [r EXCEPT !.delivered = Append(@, msg)]
Refused(r) == refusal # 0 /\ Len(r.delivered) = refusal

(***************************************************************************)
(* TcpMessageReader.  asserts says that no assert has failed.              *)
(***************************************************************************)
Assert_(r, condition) == [r EXCEPT !.asserts = @ /\ condition]
PushBack(r, b) == [r EXCEPT !.queue_ = Append(@, b)]
ReleaseBuffer(r) == [r EXCEPT !.released = @ + 1]

QueueBytes(r) ==
    FlattenSeq([i \in DOMAIN r.queue_ |->
                  LET from == IF i = 1 THEN r.offset_ ELSE 0
                  IN  Bytes(r.queue_[i], from, r.queue_[i].size)])

QueueByteLength(r) == Len(QueueBytes(r))

PullUp(r, b, size) == SubSeq(QueueBytes(r) \o Bytes(b, 0, b.size), 1, size)

RECURSIVE DoubledUpTo(_, _)
DoubledUpTo(bufsize, length) ==
    IF bufsize < kMaxMessageSize /\ bufsize < length THEN DoubledUpTo(2 * bufsize, length)
    ELSE bufsize
AllocBufferSize(length) == DoubledUpTo(kMinBufferSize, length)

\* Mutant: the rest of the buffer is taken from its start.
BufferConcatFromStart(r, b, msglength) ==
    LET head == QueueBytes(r)
        data == head \o Bytes(b, 0, msglength - Len(head))
    IN  Receive([r EXCEPT !.queue_ = <<>>, !.remain_ = -1, !.offset_ = 0,
                          !.released = @ + Len(r.queue_)], data)

\* The message is assembled, its buffers are released.
BufferConcat(r, b, msglength) ==
    LET head == QueueBytes(r)
        count == msglength - Len(head)
        data == head \o Bytes(b, 0, count)
        fits == Len(head) < msglength /\ msglength <= AllocBufferSize(msglength)
    IN  Assert_(Receive([r EXCEPT !.queue_ = <<>>, !.remain_ = -1, !.offset_ = count,
                                  !.released = @ + Len(r.queue_)], data), fits)

\* The messages that lie in one buffer.
RECURSIVE Messages(_, _)
Messages(r, b) ==
    LET avail == b.size - r.offset_
        msglength == MsgLength(b, r.offset_)
    IN  IF Refused(r) \/ avail <= 0 \/ msglength < 0 THEN r
        ELSE IF msglength > avail THEN [r EXCEPT !.remain_ = msglength - avail]
        ELSE Messages([Receive(r, Bytes(b, r.offset_, msglength))
                         EXCEPT !.offset_ = @ + msglength], b)

\* Mutant: a buffer that was used up is not released.
RestLeaks(r, b) ==
    IF Refused(r) THEN r
    ELSE IF b.size - r.offset_ > 0 THEN PushBack(r, b)
    ELSE Assert_([r EXCEPT !.offset_ = 0], r.remain_ = -1)

Rest(r, b) ==
    IF Refused(r) THEN r
    ELSE IF b.size - r.offset_ > 0 THEN PushBack(r, b)
    ELSE Assert_([ReleaseBuffer(r) EXCEPT !.offset_ = 0], r.remain_ = -1)

OnRead(r, b) ==
    LET known == MsgLength(r.queue_[1], r.offset_)
        queuelen == QueueByteLength(r)
        msglength == IF known < 0 THEN LengthIn(PullUp(r, b, kHeaderLenSize)) ELSE known
        remain == IF known < 0 THEN msglength - queuelen ELSE r.remain_
        late == Assert_([r EXCEPT !.remain_ = remain], remain > 0)
        full == BufferConcat(late, b, msglength)
    IN  IF r.queue_ = <<>> THEN Rest(Messages(r, b), b)
        ELSE IF known < 0 /\ queuelen + b.size < kHeaderLenSize THEN PushBack(r, b)
        ELSE IF b.size < remain THEN [PushBack(late, b) EXCEPT !.remain_ = @ - b.size]
        ELSE Rest(Messages(Assert_(full, full.remain_ = -1), b), b)

(***************************************************************************)
(* SandeshReader.                                                          *)
(***************************************************************************)
SetBuf(r, str) ==
    IF r.buf_ = <<>> THEN [r EXCEPT !.buf_ = str, !.offset_ = 0]
    ELSE [r EXCEPT !.buf_ = @ \o str]

ReplaceBuf(r) ==
    [r EXCEPT !.buf_ = SubSeq(@, r.offset_ + 1, Len(@)), !.offset_ = 0]

\* Mutant: less than a header is not kept.
LeftOverWhole(r) == r.buf_ # <<>> /\ Len(r.buf_) - r.offset_ >= sandesh_open_

LeftOver(r) == r.buf_ # <<>> /\ Len(r.buf_) # r.offset_

ExtractMsgLength(r) ==
    IF Len(r.buf_) - r.offset_ < sandesh_open_ THEN -1
    ELSE LengthIn(SubSeq(r.buf_, r.offset_ + 1, r.offset_ + sandesh_open_))

ExtractMsg(r) ==
    IF r.msg_length_ # -1 THEN r ELSE [r EXCEPT !.msg_length_ = ExtractMsgLength(r)]
Extracted(r) == r.msg_length_ # -1 /\ Len(r.buf_) >= r.msg_length_

RECURSIVE SandeshMessages(_)
SandeshMessages(s) ==
    LET r == ExtractMsg(s)
        msg == SubSeq(r.buf_, r.offset_ + sandesh_open_ + 1,
                              r.offset_ + r.msg_length_ - sandesh_close_)
        next == [Receive(r, msg) EXCEPT !.offset_ = @ + r.msg_length_, !.msg_length_ = -1]
    IN  IF ~Extracted(r) THEN r
        ELSE IF Refused(next) THEN next
        ELSE IF LeftOver(next) THEN SandeshMessages(ReplaceBuf(next))
        ELSE [next EXCEPT !.buf_ = <<>>, !.offset_ = 0]

SandeshOnRead(r, b) == SandeshMessages(SetBuf(r, Bytes(b, 0, b.size)))

-----------------------------------------------------------------------------

Init ==
    /\ stream \in Streams /\ refusal \in 0..Len(stream)
    /\ received = 0 /\ reads = 0
    /\ tcp = [queue_ |-> <<>>, offset_ |-> 0, remain_ |-> -1, delivered |-> <<>>,
              released |-> 0, asserts |-> TRUE]
    /\ sandesh = [buf_ |-> <<>>, offset_ |-> 0, msg_length_ |-> -1, delivered |-> <<>>]

\* The next read returns n bytes.
Read(n) ==
    LET b == [at |-> received + 1, size |-> n]
    IN  /\ reads < MaxReads /\ ~Refused(tcp) /\ ~Refused(sandesh)
        /\ reads' = reads + 1
        /\ received' = received + n
        /\ tcp' = OnRead(tcp, b)
        /\ sandesh' = SandeshOnRead(sandesh, b)
        /\ UNCHANGED <<stream, refusal>>

Next == \E n \in 0..(Tcp!End(Len(stream)) - received) : Read(n)

Spec == Init /\ [][Next]_vars

-----------------------------------------------------------------------------

\* TcpFraming: TcpMessageReader implements MessageFraming: whatever the reads,
\* callback_ gets each message once, in order, whole, and at once.
TcpFraming == Tcp!Spec

\* SandeshFraming: so does SandeshReader, with the envelope taken off.
SandeshFraming == Sandesh!Spec

\* BuffersReleased: until a message is refused, every buffer a read has filled
\* is in queue_ or has been released, once; the queue holds exactly the bytes
\* that no message has accounted for yet.
BuffersReleased ==
    ~Refused(tcp) =>
        /\ Len(tcp.queue_) + tcp.released = reads
        /\ QueueByteLength(tcp) = received - Len(FlattenSeq(tcp.delivered))

\* AssertsHold: no assert of OnRead and BufferConcat fails, and the buffer
\* AllocBufferSize sizes has room for the message.
AssertsHold == tcp.asserts

\* BuffersAccounted: the buffers and bytes of TcpMessageReader are those of the
\* messages not yet complete, and its asserts hold.
BuffersAccounted == BuffersReleased /\ AssertsHold
=============================================================================
