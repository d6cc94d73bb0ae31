------------------------------ MODULE mTcpCodec ------------------------------
(***************************************************************************)
(* The wire format (src/src/network/codec/mTcpCodec.hpp): what EncodeSync  *)
(* makes of a message and what DecodeSync makes of the bytes of a stream.  *)
(*                                                                         *)
(* A byte is a record: the message whose frame it belongs to (0 for bytes  *)
(* that belong to no frame), the part of the message's payload the frame   *)
(* carries, given by its first byte counted from 0, the frame's type, the  *)
(* byte's place in the frame counted from 0 and the length of the frame.   *)
(* The first MagicSize bytes of a frame are the magic number and its first *)
(* HeaderSize bytes the header, which holds type and length; no other      *)
(* bytes look like a magic number.  The header's flags, checksum and       *)
(* fragment numbers are not read by DecodeSync, so a message that was cut  *)
(* into fragments comes out as that many messages.                         *)
(***************************************************************************)
EXTENDS Naturals, Sequences, SequencesExt, FiniteSetsExt

CONSTANTS
    MagicSize,      \* sizeof(uint32_t)
    HeaderSize,     \* sizeof(ProtoHeader)
    PrefixSize,     \* main_type and sub_type, in front of every chunk
    ChunkSize,      \* CHUNK_SIZE
    MaxDataSize,    \* MAX_DATA_SIZE
    MaxFrames       \* the largest uint16_t

ASSUME SizesAssumption ==
    /\ MagicSize \in Nat \ {0} /\ HeaderSize \in Nat /\ MagicSize <= HeaderSize
    /\ PrefixSize \in Nat /\ ChunkSize \in Nat \ {0} /\ MaxDataSize \in Nat /\ MaxFrames \in Nat

Types == {"Data", "HeartBeat"}

Frame(m, type, first, payload) ==
    [i \in 1 .. HeaderSize + payload |->
        [msg |-> m, first |-> first, type |-> type, pos |-> i - 1, len |-> HeaderSize + payload]]

Junk(n) == [i \in 1 .. n |-> [msg |-> 0, first |-> 0, type |-> "Data", pos |-> 0, len |-> 0]]

createHeartbeatFrame(m) == Frame(m, "HeartBeat", 0, 0)

-----------------------------------------------------------------------------

\* Mutant of TotalFrames: the last, shorter chunk is forgotten.
TotalFrames_truncated(size) == size \div ChunkSize

TotalFrames(size) == (size + ChunkSize - 1) \div ChunkSize

\* An empty payload is refused before the type is looked at, so a heartbeat,
\* which must not have a payload, is always refused.
EncodeRefuses(type, size) ==
    \/ size = 0
    \/ size > MaxDataSize
    \/ TotalFrames(size) > MaxFrames
    \/ type = "HeartBeat"

\* The frames of a message, one behind the other; no bytes if it is refused.
EncodeSync(m, type, size) ==
    LET chunk(seq) == Min({ChunkSize, size - seq * ChunkSize})
        frame(seq) == Frame(m, type, seq * ChunkSize, PrefixSize + chunk(seq))
    IN  IF EncodeRefuses(type, size)
        THEN << >>
        ELSE FlattenSeq([n \in 1 .. TotalFrames(size) |-> frame(n - 1)])

-----------------------------------------------------------------------------

\* A magic number starts at the given offset (counted from 0).
MagicAt(input, offset) ==
    /\ offset + MagicSize <= Len(input)
    /\ \A i \in 1 .. MagicSize :
          input[offset + i].msg # 0 /\ input[offset + i].pos = i - 1

\* find_next_magic_offset: the end of the input if there is none.
NextMagic(input, start) ==
    Min({i \in start .. Len(input) : MagicAt(input, i)} \cup {Len(input)})

\* How much of its message's payload the frame of a byte carries.
Carried(byte) == IF byte.type = "HeartBeat" THEN 0 ELSE byte.len - HeaderSize - PrefixSize

\* The decoded message of the frame at the head of `bytes': which message it
\* came from and which part of its payload it holds.
Decoded(bytes) ==
    [msg |-> bytes[1].msg, first |-> bytes[1].first, size |-> Carried(bytes[1])]

\* Mutant of FrameAt: a frame that has not arrived completely is given up.
FrameAt_skipsHeader(input, offset) ==
    CASE offset + HeaderSize > Len(input) -> [at |-> "end", cost |-> offset]
      [] offset + HeaderSize <= Len(input) /\ ~MagicAt(input, offset) ->
            [at |-> "junk", cost |-> NextMagic(input, offset + 1)]
      [] MagicAt(input, offset) /\ offset + HeaderSize <= Len(input)
         /\ offset + input[offset + 1].len > Len(input) ->
            [at |-> "partial", cost |-> offset + HeaderSize]
      [] OTHER -> [at |-> "frame", cost |-> offset + input[offset + 1].len]

\* Mutant of FrameAt: nothing is taken off the buffer while a frame is incomplete.
FrameAt_keepsAll(input, offset) ==
    CASE offset + HeaderSize > Len(input) -> [at |-> "end", cost |-> offset]
      [] offset + HeaderSize <= Len(input) /\ ~MagicAt(input, offset) ->
            [at |-> "junk", cost |-> NextMagic(input, offset + 1)]
      [] MagicAt(input, offset) /\ offset + HeaderSize <= Len(input)
         /\ offset + input[offset + 1].len > Len(input) ->
            [at |-> "partial", cost |-> 0]
      [] OTHER -> [at |-> "frame", cost |-> offset + input[offset + 1].len]

\* What the decoding loop finds at an offset, and how far it gets with it.
FrameAt(input, offset) ==
    CASE offset + HeaderSize > Len(input) -> [at |-> "end", cost |-> offset]
      [] offset + HeaderSize <= Len(input) /\ ~MagicAt(input, offset) ->
            [at |-> "junk", cost |-> NextMagic(input, offset + 1)]
      [] MagicAt(input, offset) /\ offset + HeaderSize <= Len(input)
         /\ offset + input[offset + 1].len > Len(input) ->
            [at |-> "partial", cost |-> offset]
      [] OTHER -> [at |-> "frame", cost |-> offset + input[offset + 1].len]

\* The decoding loop: it stops with success when less than a header is left,
\* and without success at a bad magic number or inside an unfinished frame.
Parse(input) ==
    LET parse[offset \in 0 .. Len(input)] ==
            LET found == FrameAt(input, offset)
            IN  IF found.at # "frame"
                THEN [success |-> found.at = "end", cost |-> found.cost, messages |-> << >>]
                ELSE LET rest == parse[found.cost]
                         this == Decoded(SubSeq(input, offset + 1, found.cost))
                     IN  [rest EXCEPT !.messages = <<this>> \o @]
    IN  parse[0]

DecodeSync(input) ==
    IF Len(input) < HeaderSize
    THEN [success |-> FALSE, cost |-> 0, messages |-> << >>]
    ELSE Parse(input)
=============================================================================
