--------------------------- MODULE MessageFraming ---------------------------
(***************************************************************************)
(* What a reader of a TCP stream promises: however the stream is cut into  *)
(* reads, the receive callback is called for every message once, in order, *)
(* with its bytes, as soon as its last byte has been read, until a call of *)
(* it returns false.                                                       *)
(***************************************************************************)
EXTENDS Integers, Sequences, FiniteSetsExt

CONSTANTS
    Streams,        \* sequences of message lengths
    open, close     \* lengths of the parts of a message the callback is not shown

VARIABLES
    stream,         \* the messages the peer sends
    refusal,        \* the call of the callback that returns false; 0: none
    received,       \* bytes read so far
    delivered       \* what the callback was called with; a byte is its place in stream

framingVars == <<stream, refusal, received, delivered>>

\* Where message i ends.
End(i) == FoldSet(LAMBDA j, n : n + stream[j], 0, 1..i)
Message(i) ==
    [k \in 1..(stream[i] - open - close) |-> End(i) - stream[i] + open + k]

\* The calls of the callback once n bytes have been read.
Calls(n) ==
    LET complete == Cardinality({i \in DOMAIN stream : End(i) <= n})
        calls == IF refusal \in 1..complete THEN refusal ELSE complete
    IN  [i \in 1..calls |-> Message(i)]

Stopped == refusal # 0 /\ Len(delivered) = refusal

Init ==
    /\ stream \in Streams /\ refusal \in 0..Len(stream)
    /\ received = 0 /\ delivered = <<>>

Read(n) ==
    /\ ~Stopped
    /\ received' = received + n
    /\ delivered' = Calls(received')
    /\ UNCHANGED <<stream, refusal>>

Next == \E n \in 0..(End(Len(stream)) - received) : Read(n)

Spec == Init /\ [][Next]_framingVars

=============================================================================
