---------------------------- MODULE ClientSession ----------------------------
(***************************************************************************)
(* A session (src/src/network/session/ClientSession.cpp): SendMessage      *)
(* encodes a message and hands all its frames to the connection in one     *)
(* call of Send; onSocketRecv collects bytes that arrive in reads of any   *)
(* size in read_buffer_, decodes them and hands the messages to the router.*)
(*                                                                         *)
(* The module follows one direction of a connection whose two ends both    *)
(* use the codec: what one end's SendMessage sends, the other's            *)
(* onSocketRecv reads (TcpConnection and TCP keep the order of the bytes). *)
(* The sending end is taken to send heartbeats as createHeartbeatFrame     *)
(* makes them, and may send bytes that belong to no frame.                 *)
(***************************************************************************)
EXTENDS mTcpCodec

CONSTANTS
    MessageCount,   \* bound on the number of messages sent
    Payloads,       \* the payload lengths of the messages
    JunkSizes,      \* the numbers of junk bytes before a message
    ReadSize        \* size of TcpConnection's read_buffer_

ASSUME StreamAssumption ==
    /\ MessageCount \in Nat /\ Payloads \subseteq Nat /\ JunkSizes \subseteq Nat
    /\ ReadSize \in Nat

VARIABLES
    sent,           \* the messages given to SendMessage so far, and heartbeats
    stream,         \* bytes the socket has still to deliver
    buffer,         \* read_buffer_, its first buffer_used_ bytes
    delivered,      \* messages handed to the router, in order
    clean,          \* history: nothing but frames was sent
    lost            \* history: a read's messages were not handed to the router

vars == <<sent, stream, buffer, delivered, clean, lost>>

Init ==
    /\ sent = << >>
    /\ stream = << >>
    /\ buffer = << >>
    /\ delivered = << >>
    /\ clean = TRUE
    /\ lost = FALSE

\* The frames of the next message, behind n bytes of junk.  Without frames
\* the message was refused.
Transmit(size, bytes, n) ==
    /\ Len(sent) < MessageCount
    /\ sent' = Append(sent, [size |-> size, accepted |-> bytes # << >>])
    /\ stream' = stream \o Junk(n) \o bytes
    /\ clean' = (clean /\ n = 0)
    /\ UNCHANGED <<buffer, delivered, lost>>

\* The number of a message stands for its msg_id.  A message that cannot be
\* encoded is not sent, and SendMessage returns false.
SendMessage(type, size, n) ==
    Transmit(size, EncodeSync(Len(sent) + 1, type, size), n)

\* The other end's heartbeat.
SendHeartbeat(n) ==
    Transmit(0, createHeartbeatFrame(Len(sent) + 1), n)

\* Mutant of onSocketRecv: the decoded bytes stay in the buffer.
onSocketRecv_keepsBytes(n) ==
    LET bytes == buffer \o SubSeq(stream, 1, n)
        result == DecodeSync(bytes)
    IN  /\ stream' = SubSeq(stream, n + 1, Len(stream))
        /\ buffer' = IF result.success THEN bytes ELSE SubSeq(bytes, result.cost + 1, Len(bytes))
        /\ delivered' = IF result.success THEN delivered \o result.messages ELSE delivered
        /\ lost' = (lost \/ (~result.success /\ result.messages # << >>))
        /\ UNCHANGED <<sent, clean>>

\* Mutant of onSocketRecv: messages are dispatched only when they use up the read.
onSocketRecv_wholeReads(n) ==
    LET bytes == buffer \o SubSeq(stream, 1, n)
        result == DecodeSync(bytes)
    IN  /\ stream' = SubSeq(stream, n + 1, Len(stream))
        /\ buffer' = SubSeq(bytes, result.cost + 1, Len(bytes))
        /\ delivered' = IF result.success /\ result.cost = Len(bytes)
                        THEN delivered \o result.messages ELSE delivered
        /\ lost' = (lost \/ (~result.success /\ result.messages # << >>))
        /\ UNCHANGED <<sent, clean>>

\* A read of n bytes: the decoder's cost is taken off the buffer whether or
\* not it succeeded, and its messages are dispatched only if it did.
onSocketRecv(n) ==
    LET bytes == buffer \o SubSeq(stream, 1, n)
        result == DecodeSync(bytes)
    IN  /\ stream' = SubSeq(stream, n + 1, Len(stream))
        /\ buffer' = SubSeq(bytes, result.cost + 1, Len(bytes))
        /\ delivered' = IF result.success THEN delivered \o result.messages ELSE delivered
        /\ lost' = (lost \/ (~result.success /\ result.messages # << >>))
        /\ UNCHANGED <<sent, clean>>

Next ==
    \/ \E type \in Types, size \in Payloads, n \in JunkSizes : SendMessage(type, size, n)
    \/ \E n \in JunkSizes : SendHeartbeat(n)
    \/ \E n \in 1 .. Min({ReadSize, Len(stream)}) : onSocketRecv(n)

Spec == Init /\ [][Next]_vars

-----------------------------------------------------------------------------
(* Properties. *)

\* The bytes start with a whole frame.
StartsWithFrame(bytes) ==
    /\ Len(bytes) >= HeaderSize
    /\ MagicAt(bytes, 0)
    /\ Len(bytes) >= bytes[1].len

\* The router sees the messages, and the parts of one that was cut up, in the
\* order they were sent, none twice and none that was not sent, however
\* reads, frames and junk fall together.
DeliveredInOrder ==
    \A i, j \in DOMAIN delivered :
        /\ delivered[i].msg \in DOMAIN sent /\ sent[delivered[i].msg].accepted
        /\ i < j => \/ delivered[i].msg < delivered[j].msg
                    \/ /\ delivered[i].msg = delivered[j].msg
                       /\ delivered[i].first + delivered[i].size <= delivered[j].first

\* The parts of message m among some decoded ones stand next to each other
\* and hold the first bytes of its payload, as many as `size'.
Tiles(parts, m, size) ==
    \E a, b \in DOMAIN parts :
        /\ a <= b
        /\ \A i \in DOMAIN parts : parts[i].msg = m <=> i \in a .. b
        /\ parts[a].first = 0
        /\ \A i \in a .. b - 1 : parts[i + 1].first = parts[i].first + parts[i].size
        /\ parts[b].first + parts[b].size = size

\* The parts of message m that have arrived make up the whole message.
Arrived(m) == Tiles(delivered, m, sent[m].size)

\* Encoding and decoding are inverse to each other up to the cutting: if
\* nothing but frames was sent, every read's messages were dispatched and all
\* bytes have been read, then every message that could be encoded has arrived
\* whole, and no frame waits in the buffer for bytes of a later one.
RoundTrip ==
    clean /\ ~lost /\ stream = << >> => \A m \in DOMAIN sent : sent[m].accepted => Arrived(m)

\* A stream of frames keeps its framing, also after a loss: between reads the
\* buffer starts at the start of a frame and never with a whole one.
DecoderKeepsPlace ==
    clean /\ buffer # << >> => Head(buffer).pos = 0 /\ ~StartsWithFrame(buffer)

\* onSocketRecv copies a read into its buffer without looking at the room that
\* is left.  In a stream of frames as the codec writes them, what a read leaves
\* there is always shorter than the longest frame, also when reads end inside
\* frames and lose messages.  Nothing is said of other streams: a read that
\* meets bytes of no frame is given up at the next magic number with all that
\* follows still in the buffer, a header may announce more than CHUNK_SIZE, and
\* the check of the room is commented out (ClientSession.cpp:57-61).
LeftoverIsShort == clean => Len(buffer) < HeaderSize + PrefixSize + ChunkSize

\* In a stream of frames a read makes messages disappear only if it leaves a
\* frame whose header has arrived and whose payload has not.
LossNeedsPartialFrame ==
    [][clean /\ sent' = sent
             /\ StartsWithFrame(buffer \o SubSeq(stream, 1, Len(stream) - Len(stream')))
          => delivered' # delivered \/ Len(buffer') >= HeaderSize]_vars

\* "Bytes to discard: what cannot be parsed or has been processed"
\* (IMessageCodec.hpp:44): no frame is discarded unprocessed, so when a stream
\* of frames has been read every message has reached the router.
NothingLost ==
    clean /\ stream = << >> => \A m \in DOMAIN sent : sent[m].accepted => Arrived(m)
=============================================================================
