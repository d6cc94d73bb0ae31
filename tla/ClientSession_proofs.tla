------------------------ MODULE ClientSession_proofs ------------------------
(***************************************************************************)
(* What holds of a session however long its messages are, however many    *)
(* bytes belong to no frame and wherever the reads of the socket end.      *)
(*                                                                         *)
(* Encoding and decoding are recursive functions.  What they compute is    *)
(* proved by induction over sets of numbers, which needs no theorem with   *)
(* an operator for a parameter: the least element of a set of numbers is   *)
(* one of WFMin's, and a recursive function is shown to satisfy its        *)
(* equation by building it up one argument at a time.                      *)
(***************************************************************************)
EXTENDS ClientSession, SequenceTheorems, WellFoundedInduction, TLAPS

-----------------------------------------------------------------------------
(* Induction.                                                               *)

\* A set of natural numbers has a least element.
LEMMA LeastNumber ==
    ASSUME NEW T \in SUBSET Nat, T # {}
    PROVE  \E k \in T : \A j \in T : k <= j
<1> DEFINE R == OpToRel(<, Nat)
<1>1. IsWellFoundedOn(R, Nat)
    BY NatLessThanWellFounded
<1>2. \A x, y \in Nat : y < x => <<y, x>> \in R
    BY DEF OpToRel
<1> HIDE DEF R
<1>3. PICK k \in T : \A j \in T : <<j, k>> \notin R
    BY <1>1, WFMin, Zenon
<1>4. \A j \in T : ~ (j < k)
    BY <1>2, <1>3
<1> QED
    BY <1>4

\* Induction from 0 up to n.
LEMMA Upward ==
    ASSUME NEW n \in Nat, NEW S, 0 \in S, \A o \in 0 .. n - 1 : o \in S => o + 1 \in S
    PROVE  \A o \in 0 .. n : o \in S
<1> DEFINE Bad == {k \in 0 .. n : k \notin S}
<1> SUFFICES ASSUME Bad # {} PROVE FALSE
    OBVIOUS
<1>1. PICK k \in Bad : \A j \in Bad : k <= j
    <2>1. Bad \in SUBSET Nat
        OBVIOUS
    <2> HIDE DEF Bad
    <2> QED
        BY <2>1, LeastNumber
<1>2. k # 0 /\ k \in 1 .. n
    OBVIOUS
<1>3. k - 1 \in 0 .. n - 1 /\ k - 1 \in 0 .. n /\ k = (k - 1) + 1 /\ ~ (k <= k - 1)
    BY <1>2
<1>4. k - 1 \notin Bad
    BY <1>1, <1>3
<1>5. k - 1 \in S
    BY <1>3, <1>4
<1>6. k \in S
    BY <1>3, <1>5
<1> QED
    BY <1>6

\* Induction from n down to 0, all larger numbers being done.
LEMMA Downward ==
    ASSUME NEW n \in Nat, NEW S,
           \A o \in 0 .. n : (\A p \in o + 1 .. n : p \in S) => o \in S
    PROVE  \A o \in 0 .. n : o \in S
<1> DEFINE Bad == {k \in 0 .. n : n - k \notin S}
<1>1. CASE Bad = {}
    <2> TAKE o \in 0 .. n
    <2>1. n - o \in 0 .. n /\ n - (n - o) = o
        OBVIOUS
    <2> QED
        BY <1>1, <2>1
<1>2. CASE Bad # {}
    <2>1. PICK k \in Bad : \A j \in Bad : k <= j
        <3>1. Bad \in SUBSET Nat
            OBVIOUS
        <3> HIDE DEF Bad
        <3> QED
            BY <1>2, <3>1, LeastNumber
    <2>2. ASSUME NEW p \in n - k + 1 .. n PROVE p \in S
        <3>1. n - p \in 0 .. n /\ n - (n - p) = p /\ n - p < k
            BY <2>1
        <3> QED
            BY <2>1, <3>1
    <2> QED
        BY <2>1, <2>2
<1> QED
    BY <1>1, <1>2

\* The smaller of two numbers.
LEMMA MinOfTwo ==
    ASSUME NEW a \in Nat, NEW b \in Nat
    PROVE  /\ Min({a, b}) = IF a <= b THEN a ELSE b
           /\ Min({a, b}) \in Nat /\ Min({a, b}) <= a /\ Min({a, b}) <= b
BY DEF Min

-----------------------------------------------------------------------------
(* Bytes and frames.                                                        *)

Bytes == [msg : Nat, first : Nat, type : Types, pos : Nat, len : Nat]

Parts == [msg : Nat, first : Nat, size : Nat]

\* A byte of a frame as EncodeSync and createHeartbeatFrame make them.
FrameByte(b) ==
    /\ b.pos < b.len
    /\ HeaderSize <= b.len /\ b.len <= HeaderSize + PrefixSize + ChunkSize
    /\ b.type = "Data" => HeaderSize + PrefixSize <= b.len

\* All bytes belong to such a frame or to none.
Sound(s) == \A i \in DOMAIN s : s[i].msg # 0 => FrameByte(s[i])

\* The payload of a frame and the part it is decoded to.
LEMMA CarriedType ==
    ASSUME NEW b \in Bytes, FrameByte(b)
    PROVE  /\ Carried(b) \in Nat
           /\ [msg |-> b.msg, first |-> b.first, size |-> Carried(b)] \in Parts
BY SizesAssumption DEF Bytes, Parts, FrameByte, Carried, Types

\* find_next_magic_offset stays inside the input.
LEMMA NextMagicBounds ==
    ASSUME NEW input \in Seq(Bytes), NEW start \in 0 .. Len(input)
    PROVE  NextMagic(input, start) \in 0 .. Len(input)
<1> DEFINE T == {i \in start .. Len(input) : MagicAt(input, i)} \cup {Len(input)}
<1>1. T \in SUBSET (0 .. Len(input)) /\ T # {}
    OBVIOUS
<1>2. T \in SUBSET Nat
    BY <1>1
<1>3. NextMagic(input, start) = Min(T)
    BY DEF NextMagic
<1> HIDE DEF T
<1>4. \E k \in T : \A j \in T : k <= j
    BY <1>1, <1>2, LeastNumber
<1>5. Min(T) \in T
    BY <1>4 DEF Min
<1> QED
    BY <1>1, <1>3, <1>5

\* What the decoding loop finds at an offset.
LEMMA FrameCases ==
    ASSUME NEW input \in Seq(Bytes), Sound(input), NEW o \in 0 .. Len(input)
    PROVE  LET found == FrameAt(input, o)
           IN  /\ found.cost \in 0 .. Len(input)
               /\ \/ /\ found.at = "end" /\ found.cost = o
                     /\ o + HeaderSize > Len(input)
                  \/ /\ found.at = "junk"
                     /\ o + HeaderSize <= Len(input) /\ ~MagicAt(input, o)
                  \/ /\ found.at = "partial" /\ found.cost = o
                     /\ o + HeaderSize <= Len(input) /\ MagicAt(input, o)
                     /\ o + 1 \in DOMAIN input
                     /\ o + input[o + 1].len > Len(input)
                  \/ /\ found.at = "frame" /\ found.cost = o + input[o + 1].len
                     /\ o + HeaderSize <= Len(input) /\ MagicAt(input, o)
                     /\ o + 1 \in DOMAIN input
                     /\ input[o + 1] \in Bytes /\ FrameByte(input[o + 1])
                     /\ input[o + 1].msg # 0 /\ input[o + 1].pos = 0
                     /\ found.cost \in o + 1 .. Len(input)
<1> DEFINE found == FrameAt(input, o)
<1>0. /\ HeaderSize \in Nat /\ HeaderSize >= 1 /\ MagicSize \in Nat /\ MagicSize >= 1
      /\ Len(input) \in Nat /\ DOMAIN input = 1 .. Len(input)
    BY SizesAssumption
<1>1. CASE o + HeaderSize > Len(input)
    BY <1>0, <1>1 DEF FrameAt
<1>2. CASE o + HeaderSize <= Len(input) /\ ~MagicAt(input, o)
    <2>1. o + 1 \in 0 .. Len(input)
        BY <1>0, <1>2
    <2>2. found = [at |-> "junk", cost |-> NextMagic(input, o + 1)]
        BY <1>0, <1>2 DEF FrameAt
    <2>3. NextMagic(input, o + 1) \in 0 .. Len(input)
        BY <2>1, NextMagicBounds
    <2> QED
        BY <1>2, <2>2, <2>3
<1>3. CASE o + HeaderSize <= Len(input) /\ MagicAt(input, o)
    <2>1. o + 1 \in DOMAIN input /\ input[o + 1] \in Bytes
        BY <1>0, <1>3, ElementOfSeq
    <2>2. input[o + 1].msg # 0 /\ input[o + 1].pos = 0
        <3>1. 1 \in 1 .. MagicSize
            BY <1>0
        <3>2. input[o + 1].pos = 1 - 1 /\ input[o + 1].msg # 0
            BY <1>3, <3>1 DEF MagicAt
        <3> QED
            BY <3>2
    <2>3. FrameByte(input[o + 1])
        BY <2>1, <2>2 DEF Sound
    <2>4. input[o + 1].len \in Nat /\ input[o + 1].len >= 1
        BY <1>0, <2>1, <2>3 DEF Bytes, FrameByte
    <2>5. CASE o + input[o + 1].len > Len(input)
        <3>1. found = [at |-> "partial", cost |-> o]
            BY <1>0, <1>3, <2>5 DEF FrameAt
        <3> QED
            BY <1>3, <2>1, <2>5, <3>1
    <2>6. CASE ~ (o + input[o + 1].len > Len(input))
        <3>1. found = [at |-> "frame", cost |-> o + input[o + 1].len]
            BY <1>0, <1>3, <2>6 DEF FrameAt
        <3>2. o + input[o + 1].len \in o + 1 .. Len(input)
            BY <1>0, <2>4, <2>6
        <3> HIDE DEF found
        <3>3. found.at = "frame" /\ found.cost = o + input[o + 1].len
            BY <3>1
        <3>4. found.cost \in 0 .. Len(input)
            BY <1>0, <3>2, <3>3
        <3> QED
            BY <1>3, <2>1, <2>2, <2>3, <3>2, <3>3, <3>4 DEF found
    <2> QED
        BY <2>5, <2>6
<1> QED
    BY <1>0, <1>1, <1>2, <1>3

\* The part decoded from the frame at an offset.
LEMMA PartDecoded ==
    ASSUME NEW input \in Seq(Bytes), Sound(input), NEW o \in 0 .. Len(input),
           FrameAt(input, o).at = "frame"
    PROVE  LET part == Decoded(SubSeq(input, o + 1, FrameAt(input, o).cost))
               head == input[o + 1]
           IN  /\ part = [msg |-> head.msg, first |-> head.first, size |-> Carried(head)]
               /\ part \in Parts
<1> DEFINE c == FrameAt(input, o).cost
<1>1. /\ c \in o + 1 .. Len(input) /\ o + 1 \in DOMAIN input
      /\ input[o + 1] \in Bytes /\ FrameByte(input[o + 1])
    BY FrameCases
<1> HIDE DEF c
<1>2. SubSeq(input, o + 1, c)[1] = input[o + 1]
    BY <1>1
<1> QED
    BY <1>1, <1>2, CarriedType DEF Decoded, c

-----------------------------------------------------------------------------
(* The decoding loop.                                                       *)

\* One round of the loop, the rounds that follow given.
Round(input, parse, offset) ==
    LET found == FrameAt(input, offset)
    IN  IF found.at # "frame"
        THEN [success |-> found.at = "end", cost |-> found.cost, messages |-> << >>]
        ELSE LET rest == parse[found.cost]
                 this == Decoded(SubSeq(input, offset + 1, found.cost))
             IN  [rest EXCEPT !.messages = <<this>> \o @]

\* A round depends on later offsets only.
LEMMA RoundLooksAhead ==
    ASSUME NEW input \in Seq(Bytes), Sound(input), NEW o \in 0 .. Len(input),
           NEW f, NEW g, \A p \in o + 1 .. Len(input) : f[p] = g[p]
    PROVE  Round(input, f, o) = Round(input, g, o)
<1>1. CASE FrameAt(input, o).at # "frame"
    BY <1>1 DEF Round
<1>2. CASE FrameAt(input, o).at = "frame"
    <2>1. FrameAt(input, o).cost \in o + 1 .. Len(input)
        BY <1>2, FrameCases
    <2>2. f[FrameAt(input, o).cost] = g[FrameAt(input, o).cost]
        BY <2>1
    <2> QED
        BY <2>2, Zenon DEF Round
<1> QED
    BY <1>1, <1>2

\* The loop ends: there is a function that satisfies the equation of Parse,
\* and Parse is its value at offset 0.
LEMMA ParseEquation ==
    ASSUME NEW input \in Seq(Bytes), Sound(input)
    PROVE  \E parse : /\ parse = [o \in 0 .. Len(input) |-> Round(input, parse, o)]
                      /\ Parse(input) = parse[0]
<1> DEFINE n == Len(input)
           From(k, f) == f = [o \in k .. n |-> Round(input, f, o)]
           S == {k \in 0 .. n : \E f : From(k, f)}
<1>1. n \in Nat
    OBVIOUS
<1>2. ASSUME NEW k \in 0 .. n, \A p \in k + 1 .. n : p \in S
      PROVE  k \in S
    <2>1. \E g : \A p \in k + 1 .. n : g[p] = Round(input, g, p)
        <3>1. CASE k = n
            BY <1>1, <3>1
        <3>2. CASE k < n
            <4>1. k + 1 \in S
                BY <1>1, <1>2, <3>2
            <4>2. PICK g : From(k + 1, g)
                BY <4>1
            <4> QED
                BY <4>2
        <3> QED
            BY <1>1, <3>1, <3>2
    <2>2. PICK g : \A p \in k + 1 .. n : g[p] = Round(input, g, p)
        BY <2>1
    <2> DEFINE f == [o \in k .. n |-> IF o = k THEN Round(input, g, k) ELSE g[o]]
    <2>3. \A p \in k + 1 .. n : f[p] = g[p]
        BY <1>1
    <2>4. f[k] = Round(input, g, k)
        BY <1>1
    <2>5. \A o \in k .. n : f[o] = Round(input, g, o)
        <3> TAKE o \in k .. n
        <3>1. o = k \/ o \in k + 1 .. n
            BY <1>1
        <3> HIDE DEF f
        <3> QED
            BY <2>2, <2>3, <2>4, <3>1
    <2>6. \A o \in k .. n : Round(input, f, o) = Round(input, g, o)
        <3> TAKE o \in k .. n
        <3>1. o \in 0 .. n /\ \A p \in o + 1 .. n : p \in k + 1 .. n
            BY <1>1
        <3>2. \A p \in o + 1 .. n : f[p] = g[p]
            BY <2>3, <3>1
        <3> HIDE DEF f
        <3> QED
            BY <3>1, <3>2, RoundLooksAhead
    <2>7. f = [o \in k .. n |-> f[o]]
        OBVIOUS
    <2>8. From(k, f)
        <3> HIDE DEF f
        <3> QED
            BY <2>5, <2>6, <2>7
    <2> HIDE DEF f
    <2> QED
        BY <2>8
<1>3. 0 \in S
    <2> HIDE DEF S
    <2>1. \A k \in 0 .. n : k \in S
        BY <1>1, <1>2, Downward
    <2> QED
        BY <1>1, <2>1
<1>4. \E f : f = [o \in 0 .. n |-> Round(input, f, o)]
    BY <1>3
<1> DEFINE parse == CHOOSE f : f = [o \in 0 .. Len(input) |-> Round(input, f, o)]
<1>5. parse = [o \in 0 .. Len(input) |-> Round(input, parse, o)]
    BY <1>4
<1>6. Parse(input) = parse[0]
    BY DEF Parse, Round
<1> HIDE DEF parse
<1> QED
    BY <1>5, <1>6

\* Joining sequences of parts one part later.
LEMMA JoinPart ==
    ASSUME NEW D \in Seq(Parts), NEW part \in Parts, NEW rest \in Seq(Parts)
    PROVE  /\ <<part>> \o rest \in Seq(Parts)
           /\ D \o (<<part>> \o rest) = Append(D, part) \o rest
<1>1. <<part>> \in Seq(Parts)
    OBVIOUS
<1>2. Append(D, part) = D \o <<part>>
    BY AppendIsConcat
<1>3. (D \o <<part>>) \o rest = D \o (<<part>> \o rest)
    BY <1>1, ConcatAssociative
<1>4. <<part>> \o rest \in Seq(Parts)
    BY <1>1, ConcatProperties
<1> QED
    BY <1>2, <1>3, <1>4

\* A rule for the loop: what holds of the offset and of the messages handed on
\* when it starts, and is kept by every frame it decodes, holds where it stops,
\* and it does not stop at a frame.
LEMMA DecodingRule ==
    ASSUME NEW input \in Seq(Bytes), Sound(input),
           NEW S, NEW D0 \in Seq(Parts), <<0, D0>> \in S,
           \A o \in 0 .. Len(input), D \in Seq(Parts) :
              <<o, D>> \in S /\ FrameAt(input, o).at = "frame" =>
                 LET c == FrameAt(input, o).cost
                 IN  <<c, Append(D, Decoded(SubSeq(input, o + 1, c)))>> \in S
    PROVE  LET result == DecodeSync(input)
           IN  /\ result.messages \in Seq(Parts) /\ result.success \in BOOLEAN
               /\ \E o \in 0 .. Len(input) :
                     /\ <<o, D0 \o result.messages>> \in S
                     /\ FrameAt(input, o).at # "frame"
                     /\ result.cost = FrameAt(input, o).cost
                     /\ result.success => FrameAt(input, o).at = "end"
                     /\ \/ result.success \/ FrameAt(input, o).at # "end"
                        \/ o = 0 /\ result.messages = << >>
<1> DEFINE n == Len(input)
           Results == [success : BOOLEAN, cost : Nat, messages : Seq(Parts)]
           Ends(r, p, D) ==
               \E o \in p .. n : /\ <<o, D \o r.messages>> \in S
                                 /\ FrameAt(input, o).at # "frame"
                                 /\ r.cost = FrameAt(input, o).cost
                                 /\ r.success <=> FrameAt(input, o).at = "end"
<1>0. n \in Nat /\ DOMAIN input = 1 .. n /\ HeaderSize \in Nat /\ HeaderSize >= 1
    BY SizesAssumption
<1>1. CASE n < HeaderSize
    <2>1. DecodeSync(input) = [success |-> FALSE, cost |-> 0, messages |-> << >>]
        BY <1>1 DEF DecodeSync
    <2>2. FrameAt(input, 0).at = "end" /\ FrameAt(input, 0).cost = 0
        BY <1>0, <1>1, FrameCases
    <2>3. D0 \o << >> = D0 /\ << >> \in Seq(Parts)
        BY ConcatEmptySeq
    <2> DEFINE r == DecodeSync(input)
    <2>4. r.messages = << >> /\ r.success = FALSE /\ r.cost = 0
        BY <2>1
    <2>5. 0 \in 0 .. n
        BY <1>0
    <2> HIDE DEF r
    <2>6. <<0, D0 \o r.messages>> \in S
        BY <2>3, <2>4
    <2> QED
        BY <2>2, <2>3, <2>4, <2>5, <2>6 DEF r
<1>2. CASE ~ (n < HeaderSize)
    <2>1. PICK parse : /\ parse = [o \in 0 .. n |-> Round(input, parse, o)]
                       /\ Parse(input) = parse[0]
        BY ParseEquation
    <2>2. \A o \in 0 .. n : parse[o] = Round(input, parse, o)
        BY <2>1
    <2> DEFINE Good == {p \in 0 .. n : /\ parse[p] \in Results
                                       /\ \A D \in Seq(Parts) : <<p, D>> \in S => Ends(parse[p], p, D)}
    <2>3. ASSUME NEW p \in 0 .. n, \A q \in p + 1 .. n : q \in Good
          PROVE  p \in Good
        <3> DEFINE found == FrameAt(input, p)
        <3>1. CASE found.at # "frame"
            <4>1. parse[p] = [success |-> found.at = "end", cost |-> found.cost, messages |-> << >>]
                BY <2>2, <3>1 DEF Round
            <4>2. found.cost \in Nat /\ << >> \in Seq(Parts)
                BY FrameCases
            <4> DEFINE atEnd == found.at = "end"
            <4> HIDE DEF found
            <4>5. atEnd \in BOOLEAN
                OBVIOUS
            <4> HIDE DEF atEnd
            <4>6. parse[p] = [success |-> atEnd, cost |-> found.cost, messages |-> << >>]
                BY <4>1 DEF atEnd
            <4>7. /\ parse[p] \in Results /\ parse[p].messages = << >> /\ parse[p].cost = found.cost
                  /\ parse[p].success = atEnd
                BY <4>2, <4>5, <4>6
            <4>3. /\ parse[p] \in Results /\ parse[p].messages = << >> /\ parse[p].cost = found.cost
                  /\ parse[p].success <=> found.at = "end"
                BY <4>7 DEF atEnd
            <4>4. ASSUME NEW D \in Seq(Parts), <<p, D>> \in S PROVE Ends(parse[p], p, D)
                <5>1. D \o << >> = D
                    BY ConcatEmptySeq
                <5>2. p \in p .. n
                    BY <1>0
                <5> QED
                    BY <3>1, <4>3, <4>4, <5>1, <5>2 DEF found
            <4> QED
                BY <4>3, <4>4
        <3>2. CASE found.at = "frame"
            <4> DEFINE c == found.cost
                       this == Decoded(SubSeq(input, p + 1, c))
            <4>1. c \in p + 1 .. n
                BY <3>2, FrameCases
            <4>2. this \in Parts
                BY <3>2, PartDecoded
            <4>3. parse[p] = [parse[c] EXCEPT !.messages = <<this>> \o @]
                BY <2>2, <3>2, Zenon DEF Round
            <4>4. p \in Nat /\ c \in 0 .. n
                BY <1>0, <4>1
            <4>5. \A D \in Seq(Parts) : <<p, D>> \in S => <<c, Append(D, this)>> \in S
                BY <3>2
            <4> HIDE DEF c, this, found
            <4>6. /\ parse[c] \in Results
                  /\ \A D \in Seq(Parts) : <<c, D>> \in S => Ends(parse[c], c, D)
                BY <2>3, <4>1
            <4>7. <<this>> \o parse[c].messages \in Seq(Parts)
                BY <4>2, <4>6, JoinPart
            <4>8. /\ parse[p].messages = <<this>> \o parse[c].messages
                  /\ parse[p].success = parse[c].success /\ parse[p].cost = parse[c].cost
                  /\ parse[p] \in Results
                BY <4>3, <4>6, <4>7
            <4>9. ASSUME NEW D \in Seq(Parts), <<p, D>> \in S PROVE Ends(parse[p], p, D)
                <5>1. Append(D, this) \in Seq(Parts)
                    BY <4>2
                <5>2. Ends(parse[c], c, Append(D, this))
                    BY <4>5, <4>6, <4>9, <5>1
                <5>3. D \o parse[p].messages = Append(D, this) \o parse[c].messages
                    <6>1. parse[c].messages \in Seq(Parts)
                        BY <4>6
                    <6>2. D \o (<<this>> \o parse[c].messages) = Append(D, this) \o parse[c].messages
                        BY <4>2, <6>1, JoinPart
                    <6> QED
                        BY <4>8, <6>2
                <5>4. \A o \in c .. n : o \in p .. n
                    BY <1>0, <4>1
                <5> QED
                    BY <4>8, <5>2, <5>3, <5>4
            <4> QED
                BY <4>8, <4>9
        <3> QED
            BY <3>1, <3>2
    <2>4. 0 \in Good
        <3> HIDE DEF Good
        <3>1. \A p \in 0 .. n : p \in Good
            BY <1>0, <2>3, Downward
        <3> QED
            BY <1>0, <3>1
    <2>5. parse[0] \in Results /\ Ends(parse[0], 0, D0)
        BY <2>4
    <2>6. DecodeSync(input) = parse[0]
        BY <1>2, <2>1 DEF DecodeSync
    <2> QED
        BY <2>5, <2>6
<1> QED
    BY <1>0, <1>1, <1>2

-----------------------------------------------------------------------------
(* Streams of frames and junk.                                              *)

SameFrame(b, c) ==
    b.msg = c.msg /\ b.first = c.first /\ b.type = c.type /\ b.len = c.len

\* Byte b was encoded before byte c.
Earlier(b, c) ==
    \/ b.msg < c.msg
    \/ b.msg = c.msg /\ b.first + Carried(b) <= c.first
    \/ SameFrame(b, c) /\ b.pos < c.pos

\* The rest of a byte's frame follows the byte.
Whole(s) ==
    \A i \in DOMAIN s : s[i].msg # 0 =>
        /\ i + (s[i].len - s[i].pos) - 1 <= Len(s)
        /\ \A j \in i .. i + (s[i].len - s[i].pos) - 1 :
              SameFrame(s[i], s[j]) /\ s[j].pos = s[i].pos + (j - i)

Ordered(s) ==
    \A i, j \in DOMAIN s : i < j /\ s[i].msg # 0 /\ s[j].msg # 0 => Earlier(s[i], s[j])

Stream(s) == s \in Seq(Bytes) /\ Sound(s) /\ Whole(s) /\ Ordered(s)

\* What has been read from a stream leaves a stream.
LEMMA StreamSuffix ==
    ASSUME NEW s, Stream(s), NEW c \in 0 .. Len(s), NEW t \in Seq(Bytes),
           Len(t) = Len(s) - c, \A i \in 1 .. Len(t) : t[i] = s[c + i]
    PROVE  Stream(t)
<1>0. /\ s \in Seq(Bytes) /\ Len(s) \in Nat /\ Len(t) \in Nat
      /\ DOMAIN s = 1 .. Len(s) /\ DOMAIN t = 1 .. Len(t)
    BY DEF Stream
<1>1. \A i \in DOMAIN t : c + i \in DOMAIN s /\ t[i] = s[c + i]
    BY <1>0
<1>2. Sound(t)
    BY <1>1 DEF Stream, Sound
<1>3. Ordered(t)
    <2> SUFFICES ASSUME NEW i \in DOMAIN t, NEW j \in DOMAIN t, i < j, t[i].msg # 0, t[j].msg # 0
                 PROVE  Earlier(t[i], t[j])
        BY DEF Ordered
    <2>1. c + i < c + j
        BY <1>0
    <2> QED
        BY <1>1, <2>1 DEF Stream, Ordered
<1>4. Whole(t)
    <2> SUFFICES ASSUME NEW i \in DOMAIN t, t[i].msg # 0
                 PROVE  /\ i + (t[i].len - t[i].pos) - 1 <= Len(t)
                        /\ \A j \in i .. i + (t[i].len - t[i].pos) - 1 :
                              SameFrame(t[i], t[j]) /\ t[j].pos = t[i].pos + (j - i)
        BY DEF Whole
    <2>1. t[i] = s[c + i] /\ c + i \in DOMAIN s /\ t[i] \in Bytes
        BY <1>0, <1>1, ElementOfSeq
    <2>2. t[i].len \in Nat /\ t[i].pos \in Nat
        BY <2>1 DEF Bytes
    <2>3. /\ (c + i) + (t[i].len - t[i].pos) - 1 <= Len(s)
          /\ \A j \in c + i .. (c + i) + (t[i].len - t[i].pos) - 1 :
                SameFrame(t[i], s[j]) /\ s[j].pos = t[i].pos + (j - (c + i))
        BY <2>1 DEF Stream, Whole
    <2>4. i + (t[i].len - t[i].pos) - 1 <= Len(t)
        BY <1>0, <2>2, <2>3
    <2>5. ASSUME NEW j \in i .. i + (t[i].len - t[i].pos) - 1
          PROVE  SameFrame(t[i], t[j]) /\ t[j].pos = t[i].pos + (j - i)
        <3> DEFINE d == t[i].len - t[i].pos
        <3>0. d \in Int /\ i \in Nat /\ i >= 1 /\ j \in Int /\ i <= j /\ j <= i + d - 1 /\ i + d - 1 <= Len(t)
            BY <1>0, <2>2, <2>4
        <3> HIDE DEF d
        <3>2. /\ j \in 1 .. Len(t) /\ c + j \in c + i .. (c + i) + d - 1
              /\ (c + j) - (c + i) = j - i
            BY <1>0, <3>0
        <3>1. /\ j \in 1 .. Len(t) /\ c + j \in c + i .. (c + i) + (t[i].len - t[i].pos) - 1
              /\ (c + j) - (c + i) = j - i
            BY <3>2 DEF d
        <3> QED
            BY <1>1, <1>0, <2>3, <3>1
    <2> QED
        BY <2>4, <2>5
<1> QED
    BY <1>2, <1>3, <1>4 DEF Stream

\* A stream behind a stream that was encoded before it is one stream.
LEMMA StreamConcat ==
    ASSUME NEW s, NEW t, Stream(s), Stream(t),
           \A i \in DOMAIN s, j \in DOMAIN t :
              s[i].msg # 0 /\ t[j].msg # 0 => Earlier(s[i], t[j])
    PROVE  Stream(s \o t)
<1> DEFINE st == s \o t
<1>0. /\ s \in Seq(Bytes) /\ t \in Seq(Bytes) /\ Len(s) \in Nat /\ Len(t) \in Nat
      /\ DOMAIN s = 1 .. Len(s) /\ DOMAIN t = 1 .. Len(t)
    BY DEF Stream
<1>1. /\ st \in Seq(Bytes) /\ Len(st) = Len(s) + Len(t)
      /\ \A i \in 1 .. Len(s) + Len(t) : st[i] = IF i <= Len(s) THEN s[i] ELSE t[i - Len(s)]
    BY <1>0, ConcatProperties
<1> HIDE DEF st
<1>2. DOMAIN st = 1 .. Len(s) + Len(t)
    BY <1>1
<1>3. ASSUME NEW i \in DOMAIN st
      PROVE  \/ i \in DOMAIN s /\ st[i] = s[i]
             \/ i > Len(s) /\ i - Len(s) \in DOMAIN t /\ st[i] = t[i - Len(s)]
    BY <1>0, <1>1, <1>2
<1>4. Sound(st)
    BY <1>3 DEF Stream, Sound
<1>5. Ordered(st)
    <2> SUFFICES ASSUME NEW i \in DOMAIN st, NEW j \in DOMAIN st, i < j, st[i].msg # 0, st[j].msg # 0
                 PROVE  Earlier(st[i], st[j])
        BY DEF Ordered
    <2>1. CASE j \in DOMAIN s
        <3>1. i \in DOMAIN s
            BY <1>0, <1>2, <2>1
        <3> QED
            BY <1>0, <1>1, <1>2, <2>1, <3>1 DEF Stream, Ordered
    <2>2. CASE i \in DOMAIN s /\ j \notin DOMAIN s
        BY <1>0, <1>3, <2>2
    <2>3. CASE i \notin DOMAIN s
        <3>1. j \notin DOMAIN s
            BY <1>0, <1>2, <2>3
        <3>2. /\ i - Len(s) \in DOMAIN t /\ st[i] = t[i - Len(s)]
              /\ j - Len(s) \in DOMAIN t /\ st[j] = t[j - Len(s)]
            BY <1>3, <2>3, <3>1
        <3>3. i - Len(s) < j - Len(s)
            BY <1>0, <1>2
        <3> QED
            BY <3>2, <3>3 DEF Stream, Ordered
    <2> QED
        BY <2>1, <2>2, <2>3
<1>6. Whole(st)
    <2> SUFFICES ASSUME NEW i \in DOMAIN st, st[i].msg # 0
                 PROVE  /\ i + (st[i].len - st[i].pos) - 1 <= Len(st)
                        /\ \A j \in i .. i + (st[i].len - st[i].pos) - 1 :
                              SameFrame(st[i], st[j]) /\ st[j].pos = st[i].pos + (j - i)
        BY DEF Whole
    <2>1. st[i] \in Bytes /\ st[i].len \in Nat /\ st[i].pos \in Nat
        <3>1. st[i] \in Bytes
            BY <1>1, <1>2
        <3> QED
            BY <3>1 DEF Bytes
    <2>2. CASE i \in DOMAIN s
        <3>1. st[i] = s[i]
            BY <1>0, <1>3, <2>2
        <3>2. /\ i + (st[i].len - st[i].pos) - 1 <= Len(s)
              /\ \A j \in i .. i + (st[i].len - st[i].pos) - 1 :
                    SameFrame(st[i], s[j]) /\ s[j].pos = st[i].pos + (j - i)
            BY <2>2, <3>1 DEF Stream, Whole
        <3>3. \A j \in i .. i + (st[i].len - st[i].pos) - 1 : st[j] = s[j]
            BY <1>0, <1>1, <2>1, <2>2, <3>2
        <3>4. ASSUME NEW j \in i .. i + (st[i].len - st[i].pos) - 1
              PROVE  SameFrame(st[i], st[j]) /\ st[j].pos = st[i].pos + (j - i)
            BY <3>2, <3>3
        <3>5. i + (st[i].len - st[i].pos) - 1 <= Len(st)
            <4> DEFINE e == i + (st[i].len - st[i].pos) - 1
            <4>1. e \in Int /\ e <= Len(s)
                BY <1>0, <1>2, <2>1, <3>2
            <4> HIDE DEF e
            <4>2. e <= Len(st)
                BY <1>0, <1>1, <4>1
            <4> QED
                BY <4>2 DEF e
        <3> QED
            BY <3>4, <3>5
    <2>3. CASE i \notin DOMAIN s
        <3> DEFINE k == i - Len(s)
        <3>1. i > Len(s) /\ k \in DOMAIN t /\ st[i] = t[k]
            BY <1>3, <2>3
        <3>2. /\ k + (st[i].len - st[i].pos) - 1 <= Len(t)
              /\ \A j \in k .. k + (st[i].len - st[i].pos) - 1 :
                    SameFrame(st[i], t[j]) /\ t[j].pos = st[i].pos + (j - k)
            BY <3>1 DEF Stream, Whole
        <3>3. i + (st[i].len - st[i].pos) - 1 <= Len(st)
            BY <1>0, <1>1, <1>2, <2>1, <3>2
        <3>4. ASSUME NEW j \in i .. i + (st[i].len - st[i].pos) - 1
              PROVE  SameFrame(st[i], st[j]) /\ st[j].pos = st[i].pos + (j - i)
            <4> DEFINE d == st[i].len - st[i].pos
            <4>0. /\ d \in Int /\ i \in Nat /\ j \in Int /\ i <= j /\ j <= i + d - 1
                  /\ i + d - 1 <= Len(s) + Len(t) /\ i > Len(s)
                BY <1>0, <1>1, <1>2, <2>1, <3>1, <3>3
            <4> HIDE DEF d
            <4>4. /\ j - Len(s) \in k .. k + d - 1
                  /\ (j - Len(s)) - k = j - i /\ j > Len(s) /\ j \in 1 .. Len(s) + Len(t)
                <5>1. Len(s) \in Nat /\ Len(t) \in Nat
                    BY <1>0
                <5> DEFINE ls == Len(s)
                           lt == Len(t)
                <5> HIDE DEF ls, lt
                <5>2. ls \in Nat /\ lt \in Nat /\ i > ls /\ i + d - 1 <= ls + lt
                    BY <4>0, <5>1 DEF ls, lt
                <5>3. /\ j - ls \in i - ls .. (i - ls) + d - 1
                      /\ (j - ls) - (i - ls) = j - i /\ j > ls /\ j \in 1 .. ls + lt
                    BY <4>0, <5>2
                <5> QED
                    BY <5>3 DEF ls, lt
            <4>1. /\ j - Len(s) \in k .. k + (st[i].len - st[i].pos) - 1
                  /\ (j - Len(s)) - k = j - i /\ j > Len(s) /\ j \in 1 .. Len(s) + Len(t)
                BY <4>4 DEF d
            <4>2. st[j] = t[j - Len(s)]
                BY <1>0, <1>1, <4>1
            <4>3. SameFrame(st[i], t[j - Len(s)]) /\ t[j - Len(s)].pos = st[i].pos + ((j - Len(s)) - k)
                BY <3>2, <4>1
            <4> QED
                BY <4>1, <4>2, <4>3
        <3> QED
            BY <3>3, <3>4
    <2> QED
        BY <2>2, <2>3
<1> QED
    BY <1>1, <1>4, <1>5, <1>6 DEF Stream, st

\* Bytes that belong to no frame.
LEMMA JunkStream ==
    ASSUME NEW n \in Nat
    PROVE  /\ Stream(Junk(n)) /\ Len(Junk(n)) = n
           /\ \A i \in DOMAIN Junk(n) : Junk(n)[i].msg = 0
<1>1. /\ Junk(n) \in Seq(Bytes) /\ Len(Junk(n)) = n
      /\ \A i \in DOMAIN Junk(n) : Junk(n)[i].msg = 0
    BY DEF Junk, Bytes, Types
<1> QED
    BY <1>1 DEF Stream, Sound, Whole, Ordered

-----------------------------------------------------------------------------
(* Encoding.                                                                *)

\* The bytes of a frame.
LEMMA FrameBytes ==
    ASSUME NEW m \in Nat \ {0}, NEW type \in Types, NEW first \in Nat, NEW payload \in Nat,
           payload <= PrefixSize + ChunkSize, type = "Data" => PrefixSize <= payload
    PROVE  LET f == Frame(m, type, first, payload)
           IN  /\ Stream(f) /\ Len(f) = HeaderSize + payload /\ Len(f) \in Nat \ {0}
               /\ \A i \in 1 .. Len(f) : /\ f[i].msg = m /\ f[i].first = first /\ f[i].type = type
                                         /\ f[i].pos = i - 1 /\ f[i].len = HeaderSize + payload
<1> DEFINE f == Frame(m, type, first, payload)
           n == HeaderSize + payload
<1>0. /\ n \in Nat \ {0} /\ HeaderSize \in Nat /\ PrefixSize \in Nat /\ ChunkSize \in Nat
      /\ HeaderSize <= n /\ n <= HeaderSize + PrefixSize + ChunkSize
      /\ type = "Data" => HeaderSize + PrefixSize <= n
    BY SizesAssumption
<1>1. f = [i \in 1 .. n |-> [msg |-> m, first |-> first, type |-> type, pos |-> i - 1, len |-> n]]
    BY DEF Frame
<1> HIDE DEF f, n
<1>2. \A i \in 1 .. n : f[i] = [msg |-> m, first |-> first, type |-> type, pos |-> i - 1, len |-> n]
    BY <1>1
<1>3. ASSUME NEW i \in 1 .. n
      PROVE  /\ f[i] \in Bytes
             /\ f[i].msg = m /\ f[i].first = first /\ f[i].type = type
             /\ f[i].pos = i - 1 /\ f[i].len = n
    <2> DEFINE b == f[i]
    <2>1. b = [msg |-> m, first |-> first, type |-> type, pos |-> i - 1, len |-> n]
        BY <1>2
    <2>2. i - 1 \in Nat /\ n \in Nat /\ m \in Nat
        BY <1>0
    <2> HIDE DEF b
    <2>3. /\ b \in Bytes
          /\ b.msg = m /\ b.first = first /\ b.type = type /\ b.pos = i - 1 /\ b.len = n
        BY <2>1, <2>2 DEF Bytes
    <2> QED
        BY <2>3 DEF b
<1>4. f \in Seq(Bytes) /\ Len(f) = n /\ DOMAIN f = 1 .. n
    <2>1. \A i \in 1 .. n : f[i] \in Bytes
        BY <1>3
    <2>2. f = [i \in 1 .. n |-> f[i]]
        BY <1>1
    <2> QED
        BY <1>0, <2>1, <2>2
<1>5. \A i \in 1 .. n : /\ f[i].msg = m /\ f[i].first = first /\ f[i].type = type
                        /\ f[i].pos = i - 1 /\ f[i].len = n
    BY <1>3
<1>6. Sound(f)
    BY <1>0, <1>4, <1>5 DEF Sound, FrameByte
<1>7. Ordered(f)
    BY <1>0, <1>4, <1>5 DEF Ordered, Earlier, SameFrame
<1>8. Whole(f)
    <2> SUFFICES ASSUME NEW i \in 1 .. n
                 PROVE  /\ i + (f[i].len - f[i].pos) - 1 <= n
                        /\ \A j \in i .. i + (f[i].len - f[i].pos) - 1 :
                              SameFrame(f[i], f[j]) /\ f[j].pos = f[i].pos + (j - i)
        BY <1>4 DEF Whole
    <2>1. i + (f[i].len - f[i].pos) - 1 = n
        BY <1>0, <1>5
    <2>2. \A j \in i .. n : SameFrame(f[i], f[j]) /\ f[j].pos = f[i].pos + (j - i)
        BY <1>0, <1>5 DEF SameFrame
    <2> QED
        BY <1>0, <2>1, <2>2
<1> QED
    BY <1>0, <1>4, <1>5, <1>6, <1>7, <1>8 DEF Stream, f, n

\* Frames of message m, one behind the other, that carry the first `size'
\* bytes of its payload.
Encoded(s, m, size) ==
    /\ Stream(s) /\ s # << >>
    /\ \A i \in DOMAIN s : s[i].msg = m /\ s[i].first + Carried(s[i]) <= size
    /\ s[1].first = 0 /\ s[1].pos = 0
    /\ \A i \in 1 .. Len(s) - 1 : s[i].pos = s[i].len - 1 =>
          s[i + 1].pos = 0 /\ s[i + 1].first = s[i].first + Carried(s[i])
    /\ s[Len(s)].pos = s[Len(s)].len - 1
    /\ s[Len(s)].first + Carried(s[Len(s)]) = size

\* One frame that starts the payload.
LEMMA EncodedFrame ==
    ASSUME NEW m \in Nat \ {0}, NEW chunk \in 0 .. ChunkSize
    PROVE  /\ Encoded(Frame(m, "Data", 0, PrefixSize + chunk), m, chunk)
           /\ Encoded(createHeartbeatFrame(m), m, 0)
<1>0. /\ HeaderSize \in Nat \ {0} /\ PrefixSize \in Nat /\ ChunkSize \in Nat /\ chunk \in Nat
      /\ PrefixSize + chunk \in Nat /\ PrefixSize + chunk <= PrefixSize + ChunkSize
      /\ "Data" \in Types /\ "HeartBeat" \in Types /\ 0 \in Nat /\ 0 <= PrefixSize + ChunkSize
    BY SizesAssumption DEF Types
<1>1. ASSUME NEW type \in Types, NEW payload \in Nat, NEW size \in Nat,
             \/ type = "Data" /\ payload = PrefixSize + chunk /\ size = chunk
             \/ type = "HeartBeat" /\ payload = 0 /\ size = 0
      PROVE  Encoded(Frame(m, type, 0, payload), m, size)
    <2> DEFINE f == Frame(m, type, 0, payload)
               n == HeaderSize + payload
    <2>1. /\ Stream(f) /\ Len(f) = n /\ n \in Nat \ {0}
          /\ \A i \in 1 .. n : /\ f[i].msg = m /\ f[i].first = 0 /\ f[i].type = type
                               /\ f[i].pos = i - 1 /\ f[i].len = n
        <3>1. payload <= PrefixSize + ChunkSize /\ (type = "Data" => PrefixSize <= payload)
            BY <1>0, <1>1
        <3>2. /\ Stream(Frame(m, type, 0, payload)) /\ Len(Frame(m, type, 0, payload)) = n
              /\ Len(Frame(m, type, 0, payload)) \in Nat \ {0}
              /\ \A i \in 1 .. Len(Frame(m, type, 0, payload)) :
                    /\ Frame(m, type, 0, payload)[i].msg = m /\ Frame(m, type, 0, payload)[i].first = 0
                    /\ Frame(m, type, 0, payload)[i].type = type
                    /\ Frame(m, type, 0, payload)[i].pos = i - 1
                    /\ Frame(m, type, 0, payload)[i].len = n
            <4>1. 0 \in Nat
                OBVIOUS
            <4> QED
                BY <1>0, <3>1, <4>1, FrameBytes
        <3> HIDE DEF n
        <3> QED
            BY <3>2
    <2> HIDE DEF f
    <2>2. \A i \in 1 .. n : f[i].first + Carried(f[i]) = size
        <3> SUFFICES ASSUME NEW i \in 1 .. n PROVE f[i].first + Carried(f[i]) = size
            OBVIOUS
        <3>1. f[i].first = 0 /\ f[i].type = type /\ f[i].len = n
            BY <2>1
        <3>2. CASE type = "Data" /\ payload = PrefixSize + chunk /\ size = chunk
            <4>1. Carried(f[i]) = n - HeaderSize - PrefixSize
                BY <3>1, <3>2 DEF Carried
            <4> QED
                BY <1>0, <3>1, <3>2, <4>1
        <3>3. CASE type = "HeartBeat" /\ payload = 0 /\ size = 0
            <4>1. Carried(f[i]) = 0
                BY <3>1, <3>3 DEF Carried
            <4> QED
                BY <3>1, <3>3, <4>1
        <3> QED
            BY <1>1, <3>2, <3>3
    <2> HIDE DEF n
    <2>3. f \in Seq(Bytes) /\ DOMAIN f = 1 .. n /\ f # << >>
        BY <2>1 DEF Stream
    <2> QED
        BY <2>1, <2>2, <2>3 DEF Encoded, f
<1>2. Encoded(Frame(m, "Data", 0, PrefixSize + chunk), m, chunk)
    BY <1>0, <1>1
<1>3. Encoded(Frame(m, "HeartBeat", 0, 0), m, 0)
    BY <1>0, <1>1
<1> QED
    BY <1>2, <1>3 DEF createHeartbeatFrame

\* One more frame.
LEMMA EncodedNext ==
    ASSUME NEW m \in Nat \ {0}, NEW chunk \in 1 .. ChunkSize, NEW size \in Nat,
           NEW s, Encoded(s, m, size)
    PROVE  Encoded(s \o Frame(m, "Data", size, PrefixSize + chunk), m, size + chunk)
<1> DEFINE f == Frame(m, "Data", size, PrefixSize + chunk)
           n == HeaderSize + (PrefixSize + chunk)
           st == s \o f
<1>0. /\ HeaderSize \in Nat \ {0} /\ PrefixSize \in Nat /\ ChunkSize \in Nat /\ chunk \in Nat
      /\ PrefixSize + chunk \in Nat /\ PrefixSize + chunk <= PrefixSize + ChunkSize
      /\ PrefixSize <= PrefixSize + chunk /\ "Data" \in Types
    BY SizesAssumption DEF Types
<1>1. /\ Stream(f) /\ Len(f) = n /\ n \in Nat \ {0}
      /\ \A i \in 1 .. n : /\ f[i].msg = m /\ f[i].first = size /\ f[i].type = "Data"
                           /\ f[i].pos = i - 1 /\ f[i].len = n
    BY <1>0, FrameBytes
<1> HIDE DEF f
<1>2. \A i \in 1 .. n : Carried(f[i]) = chunk
    BY <1>0, <1>1 DEF Carried
<1> HIDE DEF n
<1>3. /\ s \in Seq(Bytes) /\ f \in Seq(Bytes) /\ Len(s) \in Nat \ {0}
      /\ DOMAIN s = 1 .. Len(s) /\ DOMAIN f = 1 .. n
    BY <1>1 DEF Encoded, Stream
<1>4. /\ st \in Seq(Bytes) /\ Len(st) = Len(s) + n
      /\ \A i \in 1 .. Len(s) + n : st[i] = IF i <= Len(s) THEN s[i] ELSE f[i - Len(s)]
    BY <1>1, <1>3, ConcatProperties
<1>5. Stream(st)
    <2>1. \A i \in DOMAIN s, j \in DOMAIN f : Earlier(s[i], f[j])
        BY <1>1, <1>3 DEF Encoded, Earlier
    <2> QED
        BY <1>1, <2>1, StreamConcat DEF Encoded
<1> HIDE DEF st
<1>6. /\ DOMAIN st = 1 .. Len(s) + n /\ st # << >> /\ Len(s) + n \in 1 .. Len(s) + n
      /\ st[1] = s[1] /\ st[Len(s) + n] = f[n]
    BY <1>1, <1>3, <1>4
<1>7. ASSUME NEW i \in DOMAIN st
      PROVE  \/ i \in DOMAIN s /\ st[i] = s[i]
             \/ i > Len(s) /\ i - Len(s) \in 1 .. n /\ st[i] = f[i - Len(s)]
    BY <1>1, <1>3, <1>4, <1>6
<1>8. \A i \in DOMAIN s : /\ s[i].msg = m /\ s[i].first \in Nat
                          /\ Carried(s[i]) \in Nat /\ s[i].first + Carried(s[i]) <= size
    <2> TAKE i \in DOMAIN s
    <2>1. s[i].msg = m /\ s[i].first + Carried(s[i]) <= size /\ s[i] \in Bytes /\ FrameByte(s[i])
        BY <1>3 DEF Encoded, Stream, Sound
    <2> QED
        BY <2>1, CarriedType DEF Bytes
<1>9. ASSUME NEW i \in DOMAIN st PROVE st[i].msg = m /\ st[i].first + Carried(st[i]) <= size + chunk
    <2>1. CASE i \in DOMAIN s /\ st[i] = s[i]
        BY <1>0, <1>8, <2>1
    <2>2. CASE i - Len(s) \in 1 .. n /\ st[i] = f[i - Len(s)]
        BY <1>0, <1>1, <1>2, <2>2
    <2> QED
        BY <1>7, <2>1, <2>2
<1>10. ASSUME NEW i \in 1 .. Len(st) - 1, st[i].pos = st[i].len - 1
       PROVE  st[i + 1].pos = 0 /\ st[i + 1].first = st[i].first + Carried(st[i])
    <2>0. i \in DOMAIN st /\ i + 1 \in DOMAIN st
        BY <1>1, <1>3, <1>4, <1>6
    <2>1. CASE i < Len(s)
        <3>1. st[i] = s[i] /\ st[i + 1] = s[i + 1] /\ i \in 1 .. Len(s) - 1
            BY <1>1, <1>3, <1>4, <2>1
        <3> QED
            BY <1>10, <3>1 DEF Encoded
    <2>2. CASE i = Len(s)
        <3>1. st[i] = s[Len(s)] /\ st[i + 1] = f[1]
            <4>1. i + 1 > Len(s) /\ (i + 1) - Len(s) = 1 /\ i <= Len(s)
                  /\ i \in 1 .. Len(s) + n /\ i + 1 \in 1 .. Len(s) + n
                BY <1>1, <1>3, <2>2
            <4> QED
                BY <1>3, <1>4, <2>2, <4>1
        <3>2. f[1].pos = 0 /\ f[1].first = size
            BY <1>1
        <3> QED
            BY <3>1, <3>2 DEF Encoded
    <2>3. CASE i > Len(s)
        <3>1. i - Len(s) \in 1 .. n - 1 /\ st[i] = f[i - Len(s)]
            <4>1. i \in 1 .. Len(s) + n /\ ~ (i <= Len(s))
                BY <1>1, <1>3, <1>4, <2>3
            <4>2. i - Len(s) \in 1 .. n - 1
                <5>1. Len(st) = Len(s) + n /\ Len(s) \in Nat /\ n \in Nat
                    BY <1>1, <1>3, <1>4
                <5> DEFINE ls == Len(s)
                <5> HIDE DEF ls
                <5>2. i \in 1 .. (ls + n) - 1 /\ i > ls /\ ls \in Nat /\ n \in Nat
                    BY <2>3, <5>1 DEF ls
                <5>3. i - ls \in 1 .. n - 1
                    BY <5>2
                <5> QED
                    BY <5>3 DEF ls
            <4> QED
                BY <1>4, <4>1, <4>2
        <3>2. f[i - Len(s)].pos = (i - Len(s)) - 1 /\ f[i - Len(s)].len = n
            BY <1>1, <3>1
        <3>3. st[i].pos # st[i].len - 1
            <4> DEFINE k == i - Len(s)
            <4>1. k \in 1 .. n - 1 /\ n \in Nat /\ st[i].pos = k - 1 /\ st[i].len = n
                BY <1>1, <3>1, <3>2
            <4> HIDE DEF k
            <4> QED
                BY <4>1
        <3> QED
            BY <1>10, <3>3
    <2>4. i < Len(s) \/ i = Len(s) \/ i > Len(s)
        BY <1>3, <1>4, <2>0
    <2> QED
        BY <2>1, <2>2, <2>3, <2>4
<1>11. f[n].pos = f[n].len - 1 /\ f[n].first + Carried(f[n]) = size + chunk
    BY <1>1, <1>2
<1>12. st[1].first = 0 /\ st[1].pos = 0
    BY <1>6 DEF Encoded
<1>13. st[Len(st)] = f[n]
    BY <1>4, <1>6
<1>14. Encoded(st, m, size + chunk)
    BY <1>5, <1>6, <1>9, <1>10, <1>11, <1>12, <1>13 DEF Encoded
<1> QED
    BY <1>14 DEF st, f

\* FlattenSeq joins the sequences from the left.
LEMMA FlattenEquation ==
    ASSUME NEW seqs, Len(seqs) \in Nat \ {0}
    PROVE  \E flat : /\ flat[1] = seqs[1]
                     /\ \A i \in 2 .. Len(seqs) : flat[i] = flat[i - 1] \o seqs[i]
                     /\ FlattenSeq(seqs) = flat[Len(seqs)]
<1> DEFINE n == Len(seqs)
           Body(f, i) == IF i = 1 THEN seqs[i] ELSE f[i - 1] \o seqs[i]
           S == {k \in 0 .. n : \E f : \A i \in 1 .. k : f[i] = Body(f, i)}
<1>1. 0 \in S
    OBVIOUS
<1>2. ASSUME NEW k \in 0 .. n - 1, k \in S
      PROVE  k + 1 \in S
    <2>1. PICK g : \A i \in 1 .. k : g[i] = Body(g, i)
        BY <1>2
    <2> DEFINE f == [i \in 1 .. k + 1 |-> IF i = k + 1 THEN Body(g, i) ELSE g[i]]
    <2>2. f[k + 1] = Body(g, k + 1) /\ \A i \in 1 .. k : f[i] = g[i]
        <3> HIDE DEF Body
        <3> QED
            OBVIOUS
    <2>3. \A i \in 1 .. k + 1 : f[i] = Body(g, i)
        <3> TAKE i \in 1 .. k + 1
        <3>1. i = k + 1 \/ i \in 1 .. k
            OBVIOUS
        <3> HIDE DEF f
        <3> QED
            BY <2>1, <2>2, <3>1
    <2>4. \A i \in 1 .. k + 1 : Body(f, i) = Body(g, i)
        <3> TAKE i \in 1 .. k + 1
        <3>1. i = 1 \/ i - 1 \in 1 .. k
            OBVIOUS
        <3> HIDE DEF f
        <3> QED
            BY <2>2, <3>1
    <2>5. \A i \in 1 .. k + 1 : f[i] = Body(f, i)
        <3> HIDE DEF f
        <3> QED
            BY <2>3, <2>4
    <2>6. k + 1 \in 0 .. n
        OBVIOUS
    <2> HIDE DEF f, Body
    <2> QED
        BY <2>5, <2>6
<1>3. n \in S
    <2> HIDE DEF S
    <2>1. \A k \in 0 .. n : k \in S
        BY <1>1, <1>2, Upward
    <2> QED
        BY <2>1
<1>4. \E f : f = [i \in 1 .. Len(seqs) |-> Body(f, i)]
    <2>1. PICK g : \A i \in 1 .. n : g[i] = Body(g, i)
        BY <1>3
    <2> DEFINE f == [i \in 1 .. n |-> g[i]]
    <2>2. \A i \in 1 .. n : f[i] = g[i]
        OBVIOUS
    <2>3. \A i \in 1 .. n : Body(f, i) = Body(g, i)
        <3> TAKE i \in 1 .. n
        <3>1. i = 1 \/ i - 1 \in 1 .. n
            OBVIOUS
        <3> HIDE DEF f
        <3> QED
            BY <2>2, <3>1
    <2>4. f = [i \in 1 .. n |-> Body(f, i)]
        <3>1. \A i \in 1 .. n : g[i] = Body(f, i)
            <4> HIDE DEF f, Body
            <4> QED
                BY <2>1, <2>3
        <3> DEFINE h == [i \in 1 .. n |-> Body(f, i)]
        <3>2. \A i \in 1 .. n : h[i] = Body(f, i)
            <4> HIDE DEF Body
            <4> QED
                OBVIOUS
        <3>3. h = [i \in 1 .. n |-> g[i]]
            <4> HIDE DEF f, Body
            <4> QED
                BY <3>1
        <3> HIDE DEF h
        <3>4. f = h
            BY <3>3
        <3> QED
            BY <3>4 DEF h
    <2> HIDE DEF f, Body
    <2> QED
        BY <2>4
<1> DEFINE flat == CHOOSE f : f = [i \in 1 .. Len(seqs) |-> Body(f, i)]
<1>5. flat = [i \in 1 .. Len(seqs) |-> Body(flat, i)]
    <2> HIDE DEF Body
    <2> QED
        BY <1>4
<1>6. FlattenSeq(seqs) = flat[Len(seqs)]
    <2>1. Len(seqs) # 0
        OBVIOUS
    <2> QED
        BY <2>1, Zenon DEF FlattenSeq
<1> HIDE DEF flat
<1>7. \A i \in 1 .. Len(seqs) : flat[i] = Body(flat, i)
    <2> HIDE DEF Body
    <2> QED
        BY <1>5
<1>8. flat[1] = seqs[1] /\ \A i \in 2 .. Len(seqs) : flat[i] = flat[i - 1] \o seqs[i]
    <2>1. flat[1] = Body(flat, 1)
        <3> HIDE DEF Body
        <3> QED
            BY <1>7
    <2>2. ASSUME NEW i \in 2 .. Len(seqs) PROVE flat[i] = flat[i - 1] \o seqs[i]
        <3>1. i \in 1 .. Len(seqs) /\ i # 1
            OBVIOUS
        <3>2. flat[i] = Body(flat, i)
            <4> HIDE DEF Body
            <4> QED
                BY <1>7, <3>1
        <3> QED
            BY <3>1, <3>2, Zenon
    <2> QED
        BY <2>1, <2>2
<1> QED
    BY <1>6, <1>8

\* As many chunks as it takes, the last one not empty.
LEMMA ChunkCount ==
    ASSUME NEW size \in Nat \ {0}
    PROVE  LET T == TotalFrames(size)
           IN  /\ T \in Nat \ {0} /\ size <= T * ChunkSize
               /\ \A k \in 0 .. T - 1 : k * ChunkSize \in Nat /\ k * ChunkSize < size
<1> DEFINE C == ChunkSize
           T == TotalFrames(size)
<1>0. C \in Nat \ {0}
    BY SizesAssumption
<1>1. T = (size + C - 1) \div C
    BY DEF TotalFrames
<1> HIDE DEF C, T
<1>2. T \in Int /\ T * C <= size + C - 1 /\ size + C - 1 < T * C + C
    BY <1>0, <1>1
<1>3. T * C >= size
    BY <1>0, <1>2
<1>4. T > 0
    <2> SUFFICES ASSUME T <= 0 PROVE FALSE
        BY <1>2
    <2>1. T * C <= 0
        BY <1>0, <1>2
    <2> QED
        BY <1>0, <1>2, <1>3, <2>1
<1>5. ASSUME NEW k \in 0 .. T - 1 PROVE k * C \in Nat /\ k * C < size
    <2>1. k + 1 <= T /\ k \in Nat
        BY <1>2
    <2>2. (k + 1) * C <= T * C
        BY <1>0, <1>2, <2>1
    <2>3. (k + 1) * C = k * C + C /\ k * C \in Nat
        BY <1>0, <2>1
    <2> QED
        BY <1>0, <1>2, <2>2, <2>3
<1> QED
    BY <1>2, <1>3, <1>4, <1>5 DEF C, T

\* EncodeSync makes the frames that carry the whole payload, if it does not
\* refuse the message.
THEOREM EncodeSyncTiles ==
    ASSUME NEW m \in Nat \ {0}, NEW type \in Types, NEW size \in Nat
    PROVE  /\ EncodeRefuses(type, size) => EncodeSync(m, type, size) = << >>
           /\ ~EncodeRefuses(type, size) => Encoded(EncodeSync(m, type, size), m, size)
<1>1. EncodeRefuses(type, size) => EncodeSync(m, type, size) = << >>
    BY DEF EncodeSync
<1>2. ASSUME ~EncodeRefuses(type, size)
      PROVE  Encoded(EncodeSync(m, type, size), m, size)
    <2> DEFINE C == ChunkSize
               T == TotalFrames(size)
               chunk(k) == Min({C, size - k * C})
               seqs == [n \in 1 .. T |-> Frame(m, type, (n - 1) * C, PrefixSize + chunk(n - 1))]
    <2>1. size \in Nat \ {0} /\ type = "Data" /\ C \in Nat \ {0}
        BY <1>2, SizesAssumption DEF EncodeRefuses, Types
    <2>2. /\ T \in Nat \ {0} /\ size <= T * C
          /\ \A k \in 0 .. T - 1 : k * C \in Nat /\ k * C < size
        BY <2>1, ChunkCount
    <2>3. EncodeSync(m, type, size) = FlattenSeq(seqs)
        BY <1>2, Zenon DEF EncodeSync
    <2> HIDE DEF C, T
    <2>4. ASSUME NEW k \in 0 .. T - 1
          PROVE  /\ chunk(k) \in 1 .. C
                 /\ k + 1 < T => k * C + chunk(k) = (k + 1) * C
                 /\ k + 1 = T => k * C + chunk(k) = size
        <3>1. k * C \in Nat /\ k * C < size /\ k \in Nat
            BY <2>2
        <3> DEFINE kc == k * C
                   rest == size - kc
        <3>2. rest \in Nat \ {0} /\ kc \in Nat
            BY <2>1, <3>1
        <3>3. (k + 1) * C = kc + C
            BY <2>1, <3>1
        <3>4. k + 1 < T => (k + 1) * C < size
            <4>1. k + 1 < T => k + 1 \in 0 .. T - 1
                BY <2>2
            <4> QED
                BY <2>2, <4>1
        <3>5. k + 1 = T => size <= (k + 1) * C
            BY <2>2
        <3> DEFINE ch == chunk(k)
        <3>6. ch = IF C <= rest THEN C ELSE rest
            BY <2>1, <3>2, MinOfTwo
        <3> HIDE DEF ch, kc
        <3>7. /\ ch \in 1 .. C
              /\ k + 1 < T => kc + ch = kc + C
              /\ k + 1 = T => kc + ch = size
            BY <2>1, <3>2, <3>3, <3>4, <3>5, <3>6
        <3> QED
            BY <3>3, <3>7 DEF ch, kc
    <2> HIDE DEF chunk
    <2>5. Len(seqs) = T
        BY <2>2
    <2>6. \A n \in 1 .. T : seqs[n] = Frame(m, "Data", (n - 1) * C, PrefixSize + chunk(n - 1))
        BY <2>1
    <2> HIDE DEF seqs
    <2>7. PICK flat : /\ flat[1] = seqs[1]
                      /\ \A i \in 2 .. T : flat[i] = flat[i - 1] \o seqs[i]
                      /\ FlattenSeq(seqs) = flat[T]
        BY <2>2, <2>5, FlattenEquation
    <2> DEFINE upTo(i) == (i - 1) * C + chunk(i - 1)
               S == {o \in 0 .. T - 1 : Encoded(flat[o + 1], m, upTo(o + 1))}
    <2>8. 0 \in S
        <3>1. 0 \in 0 .. T - 1 /\ 1 \in 1 .. T /\ 1 - 1 = 0 /\ 0 * C = 0 /\ 0 + 1 = 1
            BY <2>1, <2>2
        <3>2. chunk(0) \in 1 .. C /\ chunk(0) \in 0 .. ChunkSize /\ upTo(1) = chunk(0)
            BY <2>1, <2>4, <3>1 DEF C
        <3>3. flat[1] = Frame(m, "Data", 0, PrefixSize + chunk(0))
            BY <2>6, <2>7, <3>1
        <3>4. Encoded(flat[1], m, upTo(1))
            BY <3>2, <3>3, EncodedFrame
        <3> QED
            BY <3>1, <3>4
    <2>9. ASSUME NEW o \in 0 .. (T - 1) - 1, o \in S
          PROVE  o + 1 \in S
        <3>1. /\ o \in 0 .. T - 1 /\ o + 1 \in 0 .. T - 1 /\ o + 2 \in 2 .. T /\ o + 2 \in 1 .. T
              /\ (o + 2) - 1 = o + 1 /\ (o + 1) + 1 = o + 2 /\ (o + 1) - 1 = o /\ o + 1 < T
            BY <2>2
        <3>2. chunk(o) \in 1 .. C /\ o * C + chunk(o) = (o + 1) * C
            BY <2>4, <3>1
        <3>3. chunk(o + 1) \in 1 .. ChunkSize /\ (o + 1) * C \in Nat
            BY <2>2, <2>4, <3>1 DEF C
        <3>4. Encoded(flat[o + 1], m, (o + 1) * C)
            BY <2>9, <3>1, <3>2
        <3>5. flat[o + 2] = flat[o + 1] \o Frame(m, "Data", (o + 1) * C, PrefixSize + chunk(o + 1))
            BY <2>6, <2>7, <3>1
        <3>6. Encoded(flat[o + 2], m, (o + 1) * C + chunk(o + 1))
            BY <3>3, <3>4, <3>5, EncodedNext
        <3>7. upTo((o + 1) + 1) = (o + 1) * C + chunk(o + 1)
            BY <3>1
        <3> QED
            BY <3>1, <3>6, <3>7
    <2>10. T - 1 \in S
        <3> HIDE DEF S
        <3>1. T - 1 \in Nat /\ T - 1 \in 0 .. T - 1
            BY <2>2
        <3>2. \A o \in 0 .. T - 1 : o \in S
            BY <2>8, <2>9, <3>1, Upward
        <3> QED
            BY <3>1, <3>2
    <2>11. (T - 1) + 1 = T /\ T - 1 \in 0 .. T - 1
        BY <2>2
    <2>12. Encoded(flat[T], m, upTo(T))
        BY <2>10, <2>11
    <2>13. upTo(T) = size
        BY <2>4, <2>11
    <2> QED
        BY <2>3, <2>7, <2>12, <2>13
<1> QED
    BY <1>1, <1>2

-----------------------------------------------------------------------------
(* The inductive invariant.  `Pending' is what has been sent and not been   *)
(* taken off the buffer; the parts below that speak of a sequence of bytes  *)
(* and an offset speak of the bytes behind the offset, so that they can be  *)
(* followed through the decoding loop.                                      *)

TypeOK ==
    /\ sent \in Seq([size : Nat, accepted : BOOLEAN])
    /\ stream \in Seq(Bytes) /\ buffer \in Seq(Bytes)
    /\ delivered \in Seq(Parts)
    /\ clean \in BOOLEAN /\ lost \in BOOLEAN

Pending == buffer \o stream

\* m is the number of a message that could be encoded.
Accepted(msgs, m) == m \in DOMAIN msgs /\ msgs[m].accepted

\* Part d was sent before x, a part or a byte.
Before(d, x) ==
    \/ d.msg < x.msg
    \/ d.msg = x.msg /\ d.first + d.size <= x.first

InOrder(parts) == \A i, j \in DOMAIN parts : i < j => Before(parts[i], parts[j])

\* All parts were sent before the bytes.
Ahead(parts, s, o) ==
    \A i \in DOMAIN parts, j \in o + 1 .. Len(s) : s[j].msg # 0 => Before(parts[i], s[j])

\* Frames without junk, each followed by the next one of its message or, if
\* it is the message's last, by the first of another.
Gapless(s, o, msgs) ==
    /\ o < Len(s) => s[o + 1].pos = 0
    /\ \A j \in o + 1 .. Len(s) : s[j].msg # 0
    /\ \A j \in o + 1 .. Len(s) : s[j].pos = s[j].len - 1 =>
          /\ j < Len(s) => s[j + 1].pos = 0
          /\ \/ /\ s[j].first + Carried(s[j]) = msgs[s[j].msg].size
                /\ j < Len(s) => s[j + 1].msg # s[j].msg
             \/ /\ j < Len(s)
                /\ s[j + 1].msg = s[j].msg
                /\ s[j + 1].first = s[j].first + Carried(s[j])

\* Message m has been delivered whole, or the next frame goes on where its
\* delivered parts end, or nothing of it has been delivered.
Done(parts, s, o, m, size) ==
    Tiles(parts, m, size) /\ \A j \in o + 1 .. Len(s) : s[j].msg # m

UnderWay(parts, s, o, m) ==
    /\ o < Len(s) /\ s[o + 1].msg = m
    /\ Tiles(parts, m, s[o + 1].first)
    /\ parts # << >> /\ parts[Len(parts)].msg = m

Waiting(parts, s, o, m) ==
    /\ \A i \in DOMAIN parts : parts[i].msg # m
    /\ \E j \in o + 1 .. Len(s) :
          s[j].msg = m /\ s[j].first = 0 /\ \A i \in o + 1 .. j - 1 : s[i].msg # m

Progress(parts, s, o, msgs) ==
    \A m \in DOMAIN msgs : msgs[m].accepted =>
        \/ Done(parts, s, o, m, msgs[m].size)
        \/ UnderWay(parts, s, o, m)
        \/ Waiting(parts, s, o, m)

\* What holds at an offset of the loop, `parts' having been handed on.
Holds(parts, s, o, msgs, isClean, isWhole) ==
    /\ \A i \in DOMAIN parts : Accepted(msgs, parts[i].msg)
    /\ InOrder(parts) /\ Ahead(parts, s, o)
    /\ isClean => Gapless(s, o, msgs)
    /\ isClean /\ isWhole => Progress(parts, s, o, msgs)

Inv ==
    /\ TypeOK
    /\ Stream(Pending)
    /\ \A j \in DOMAIN Pending : Pending[j].msg # 0 => Accepted(sent, Pending[j].msg)
    /\ Holds(delivered, Pending, 0, sent, clean, ~lost)
    /\ DecoderKeepsPlace
    /\ clean => Len(buffer) <= HeaderSize + PrefixSize + ChunkSize - 1

-----------------------------------------------------------------------------
(* A round of the decoding loop.                                            *)

\* The input of the decoder is the front of the stream `s'.
Begins(input, s) ==
    /\ input \in Seq(Bytes) /\ Len(input) <= Len(s)
    /\ \A i \in 1 .. Len(input) : input[i] = s[i]

LEMMA FrontSound ==
    ASSUME NEW s, Stream(s), NEW input, Begins(input, s)
    PROVE  Sound(input)
<1>1. \A i \in DOMAIN input : i \in DOMAIN s /\ input[i] = s[i]
    BY DEF Begins, Stream
<1> QED
    BY <1>1 DEF Sound, Stream

\* A frame that is decoded is one of the stream's, and whole.
LEMMA FrameInStream ==
    ASSUME NEW s, Stream(s), NEW input, Begins(input, s), NEW o \in 0 .. Len(input),
           FrameAt(input, o).at = "frame"
    PROVE  LET c == FrameAt(input, o).cost
               head == s[o + 1]
               part == Decoded(SubSeq(input, o + 1, c))
           IN  /\ o \in Nat /\ c \in Nat /\ Len(s) \in Nat /\ o < c /\ c <= Len(input) /\ c <= Len(s)
               /\ \A j \in o + 1 .. c :
                     /\ s[j] \in Bytes /\ SameFrame(head, s[j]) /\ s[j].msg # 0
                     /\ s[j].pos = j - (o + 1) /\ Carried(s[j]) = Carried(head)
               /\ s[c].pos = s[c].len - 1
               /\ part \in Parts /\ part.msg = head.msg /\ part.first = head.first
               /\ part.size = Carried(head)
<1> DEFINE c == FrameAt(input, o).cost
           head == s[o + 1]
           part == Decoded(SubSeq(input, o + 1, c))
<1>0. /\ s \in Seq(Bytes) /\ input \in Seq(Bytes) /\ Sound(input)
      /\ Len(s) \in Nat /\ Len(input) \in Nat /\ Len(input) <= Len(s) /\ DOMAIN s = 1 .. Len(s)
    BY FrontSound DEF Stream, Begins
<1>1. /\ o + 1 \in DOMAIN input /\ input[o + 1] \in Bytes /\ FrameByte(input[o + 1])
      /\ c = o + input[o + 1].len /\ c \in o + 1 .. Len(input)
      /\ input[o + 1].msg # 0 /\ input[o + 1].pos = 0
    BY <1>0, FrameCases
<1>2. input[o + 1] = head /\ o + 1 \in DOMAIN s
    BY <1>0, <1>1 DEF Begins
<1>3. part = [msg |-> head.msg, first |-> head.first, size |-> Carried(head)] /\ part \in Parts
    BY <1>0, <1>2, PartDecoded
<1> HIDE DEF c, head, part
<1>4. head.len \in Nat /\ head.pos = 0 /\ c = o + head.len /\ head.msg # 0 /\ head = s[o + 1]
    BY <1>1, <1>2 DEF Bytes, head
<1>5. \A j \in o + 1 .. (o + 1) + (head.len - head.pos) - 1 :
         SameFrame(head, s[j]) /\ s[j].pos = head.pos + (j - (o + 1))
    BY <1>2, <1>4 DEF Stream, Whole
<1>6. (o + 1) + (head.len - head.pos) - 1 = c
    BY <1>4
<1>7. \A j \in o + 1 .. c : SameFrame(head, s[j]) /\ s[j].pos = j - (o + 1)
    BY <1>4, <1>5, <1>6
<1>8. \A j \in o + 1 .. c : s[j] \in Bytes
    BY <1>0, <1>1
<1>9. \A j \in o + 1 .. c : s[j].msg # 0 /\ Carried(s[j]) = Carried(head)
    BY <1>4, <1>7 DEF SameFrame, Carried
<1>10. c \in o + 1 .. c /\ s[c].pos = s[c].len - 1
    <2>1. c \in o + 1 .. c
        BY <1>1
    <2>2. s[c].pos = c - (o + 1) /\ s[c].len = head.len
        BY <1>7, <2>1 DEF SameFrame
    <2> QED
        BY <1>4, <2>1, <2>2
<1>11. part.msg = head.msg /\ part.first = head.first /\ part.size = Carried(head)
    BY <1>3
<1> QED
    BY <1>0, <1>1, <1>3, <1>7, <1>8, <1>9, <1>10, <1>11 DEF c, head, part

\* One part more.
LEMMA AppendPart ==
    ASSUME NEW D \in Seq(Parts), NEW part \in Parts
    PROVE  LET E == Append(D, part)
           IN  /\ E \in Seq(Parts) /\ Len(D) \in Nat /\ Len(E) = Len(D) + 1 /\ E # << >>
               /\ DOMAIN D = 1 .. Len(D) /\ DOMAIN E = 1 .. Len(D) + 1
               /\ E[Len(D) + 1] = part /\ \A i \in 1 .. Len(D) : E[i] = D[i]
BY AppendProperties

\* The order is kept.
LEMMA RoundInOrder ==
    ASSUME NEW s, Stream(s), NEW input, Begins(input, s), NEW o \in 0 .. Len(input),
           FrameAt(input, o).at = "frame",
           NEW D \in Seq(Parts), InOrder(D), Ahead(D, s, o)
    PROVE  LET c == FrameAt(input, o).cost
               E == Append(D, Decoded(SubSeq(input, o + 1, c)))
           IN  InOrder(E) /\ Ahead(E, s, c)
<1> DEFINE c == FrameAt(input, o).cost
           head == s[o + 1]
           part == Decoded(SubSeq(input, o + 1, c))
           E == Append(D, part)
<1>1. /\ o \in Nat /\ c \in Nat /\ Len(s) \in Nat /\ o < c /\ c <= Len(s)
      /\ \A j \in o + 1 .. c :
            /\ s[j] \in Bytes /\ SameFrame(head, s[j]) /\ s[j].msg # 0
            /\ s[j].pos = j - (o + 1) /\ Carried(s[j]) = Carried(head)
      /\ s[c].pos = s[c].len - 1
      /\ part \in Parts /\ part.msg = head.msg /\ part.first = head.first
      /\ part.size = Carried(head)
    BY FrameInStream
<1> HIDE DEF c, part, head
<1>2. /\ Len(D) \in Nat /\ DOMAIN D = 1 .. Len(D) /\ DOMAIN E = 1 .. Len(D) + 1
      /\ E[Len(D) + 1] = part /\ \A i \in 1 .. Len(D) : E[i] = D[i]
    BY <1>1, AppendPart
<1> HIDE DEF E
<1>3. s \in Seq(Bytes) /\ DOMAIN s = 1 .. Len(s)
    BY DEF Stream
<1>4. \A i \in DOMAIN D : Before(D[i], part)
    <2>1. o + 1 \in o + 1 .. Len(s) /\ o + 1 \in o + 1 .. c
        BY <1>1
    <2>2. \A i \in DOMAIN D : Before(D[i], head)
        BY <1>1, <2>1 DEF Ahead, head
    <2> QED
        BY <1>1, <2>2 DEF Before
<1>5. InOrder(E)
    <2> SUFFICES ASSUME NEW i \in DOMAIN E, NEW j \in DOMAIN E, i < j
                 PROVE  Before(E[i], E[j])
        BY DEF InOrder
    <2>1. i \in DOMAIN D /\ E[i] = D[i]
        BY <1>2
    <2>2. CASE j \in DOMAIN D
        BY <1>2, <2>1, <2>2 DEF InOrder
    <2>3. CASE j = Len(D) + 1
        BY <1>2, <1>4, <2>1, <2>3
    <2> QED
        BY <1>2, <2>2, <2>3
<1>6. ASSUME NEW j \in c + 1 .. Len(s), s[j].msg # 0
      PROVE  Before(part, s[j])
    <2>1. c \in o + 1 .. c /\ c \in DOMAIN s /\ j \in DOMAIN s /\ c < j
        BY <1>1, <1>3
    <2>2. Earlier(s[c], s[j])
        BY <1>1, <1>6, <2>1 DEF Stream, Ordered
    <2>3. s[j] \in Bytes /\ FrameByte(s[j])
        BY <1>3, <1>6, <2>1 DEF Stream, Sound
    <2>4. ~ (SameFrame(s[c], s[j]) /\ s[c].pos < s[j].pos)
        BY <1>1, <2>1, <2>3 DEF SameFrame, FrameByte, Bytes
    <2>5. s[c].msg = part.msg /\ s[c].first = part.first /\ Carried(s[c]) = part.size
        BY <1>1, <2>1 DEF SameFrame
    <2> QED
        BY <2>2, <2>4, <2>5 DEF Earlier, Before
<1>7. Ahead(E, s, c)
    <2> SUFFICES ASSUME NEW i \in DOMAIN E, NEW j \in c + 1 .. Len(s), s[j].msg # 0
                 PROVE  Before(E[i], s[j])
        BY DEF Ahead
    <2>1. CASE i \in DOMAIN D
        <3>1. j \in o + 1 .. Len(s)
            BY <1>1
        <3> QED
            BY <1>2, <2>1, <3>1 DEF Ahead
    <2>2. CASE i = Len(D) + 1
        BY <1>2, <1>6, <2>2
    <2> QED
        BY <1>2, <2>1, <2>2
<1> QED
    BY <1>5, <1>7 DEF E, part, c

LEMMA RoundGapless ==
    ASSUME NEW s, Stream(s), NEW input, Begins(input, s), NEW o \in 0 .. Len(input),
           FrameAt(input, o).at = "frame", NEW msgs, Gapless(s, o, msgs)
    PROVE  Gapless(s, FrameAt(input, o).cost, msgs)
<1> DEFINE c == FrameAt(input, o).cost
<1>1. /\ o \in Nat /\ c \in Nat /\ Len(s) \in Nat /\ o < c /\ c <= Len(s)
      /\ s[c].pos = s[c].len - 1
    BY FrameInStream
<1> HIDE DEF c
<1>2. c \in o + 1 .. Len(s) /\ \A j \in c + 1 .. Len(s) : j \in o + 1 .. Len(s)
    BY <1>1
<1>3. c < Len(s) => s[c + 1].pos = 0
    BY <1>1, <1>2 DEF Gapless
<1> QED
    BY <1>2, <1>3 DEF Gapless, c

\* A part of another message does not disturb a message's parts.
LEMMA TilesKept ==
    ASSUME NEW D \in Seq(Parts), NEW part \in Parts, NEW m, NEW f, Tiles(D, m, f), part.msg # m
    PROVE  Tiles(Append(D, part), m, f)
<1> DEFINE E == Append(D, part)
<1>1. /\ Len(D) \in Nat /\ DOMAIN D = 1 .. Len(D) /\ DOMAIN E = 1 .. Len(D) + 1
      /\ E[Len(D) + 1] = part /\ \A i \in 1 .. Len(D) : E[i] = D[i]
    BY AppendPart
<1> HIDE DEF E
<1>2. PICK a \in DOMAIN D, b \in DOMAIN D :
         /\ a <= b
         /\ \A i \in DOMAIN D : D[i].msg = m <=> i \in a .. b
         /\ D[a].first = 0
         /\ \A i \in a .. b - 1 : D[i + 1].first = D[i].first + D[i].size
         /\ D[b].first + D[b].size = f
    BY DEF Tiles
<1>3. a \in DOMAIN E /\ b \in DOMAIN E /\ E[a] = D[a] /\ E[b] = D[b]
    BY <1>1
<1>4. \A i \in DOMAIN E : E[i].msg = m <=> i \in a .. b
    <2> TAKE i \in DOMAIN E
    <2>1. CASE i \in DOMAIN D
        BY <1>1, <1>2, <2>1
    <2>2. CASE i = Len(D) + 1
        <3>1. i \notin a .. b
            BY <1>1, <2>2
        <3> QED
            BY <1>1, <2>2, <3>1
    <2> QED
        BY <1>1, <2>1, <2>2
<1>5. \A i \in a .. b - 1 : E[i + 1].first = E[i].first + E[i].size
    <2> TAKE i \in a .. b - 1
    <2>1. i \in 1 .. Len(D) /\ i + 1 \in 1 .. Len(D)
        BY <1>1
    <2> QED
        BY <1>1, <1>2, <2>1
<1>6. Tiles(E, m, f)
    BY <1>2, <1>3, <1>4, <1>5 DEF Tiles
<1> QED
    BY <1>6 DEF E

\* The next part of a message extends its parts.
LEMMA TilesExtended ==
    ASSUME NEW D \in Seq(Parts), NEW part \in Parts, NEW m,
           Tiles(D, m, part.first), D[Len(D)].msg = m, part.msg = m
    PROVE  Tiles(Append(D, part), m, part.first + part.size)
<1> DEFINE E == Append(D, part)
<1>1. /\ Len(D) \in Nat /\ DOMAIN D = 1 .. Len(D) /\ DOMAIN E = 1 .. Len(D) + 1
      /\ E[Len(D) + 1] = part /\ \A i \in 1 .. Len(D) : E[i] = D[i]
    BY AppendPart
<1> HIDE DEF E
<1>2. PICK a \in DOMAIN D, b \in DOMAIN D :
         /\ a <= b
         /\ \A i \in DOMAIN D : D[i].msg = m <=> i \in a .. b
         /\ D[a].first = 0
         /\ \A i \in a .. b - 1 : D[i + 1].first = D[i].first + D[i].size
         /\ D[b].first + D[b].size = part.first
    BY DEF Tiles
<1> DEFINE n == Len(D)
<1>3. b = n
    <2>1. n \in DOMAIN D
        BY <1>1
    <2>2. n \in a .. b
        BY <1>2, <2>1
    <2> QED
        BY <1>1, <2>2
<1> HIDE DEF n
<1>4. /\ n \in Nat /\ DOMAIN D = 1 .. n /\ DOMAIN E = 1 .. n + 1 /\ a \in 1 .. n
      /\ E[n + 1] = part /\ \A i \in 1 .. n : E[i] = D[i]
    BY <1>1 DEF n
<1>5. a \in DOMAIN E /\ n + 1 \in DOMAIN E /\ E[a] = D[a] /\ a <= n + 1
    BY <1>4
<1>6. \A i \in DOMAIN E : E[i].msg = m <=> i \in a .. n + 1
    <2> TAKE i \in DOMAIN E
    <2>1. CASE i \in 1 .. n
        <3>1. D[i].msg = m <=> i \in a .. n
            BY <1>2, <1>3, <1>4, <2>1
        <3>2. i \in a .. n <=> i \in a .. n + 1
            BY <1>4, <2>1
        <3> QED
            BY <1>4, <2>1, <3>1, <3>2
    <2>2. CASE i = n + 1
        <3>1. i \in a .. n + 1
            BY <1>4, <2>2
        <3> QED
            BY <1>4, <2>2, <3>1
    <2> QED
        BY <1>4, <2>1, <2>2
<1>7. \A i \in a .. (n + 1) - 1 : E[i + 1].first = E[i].first + E[i].size
    <2> TAKE i \in a .. (n + 1) - 1
    <2>1. CASE i = n
        BY <1>2, <1>3, <1>4, <2>1
    <2>2. CASE i # n
        <3>1. i \in 1 .. n /\ i + 1 \in 1 .. n /\ i \in a .. n - 1
            BY <1>4, <2>2
        <3> QED
            BY <1>2, <1>3, <1>4, <3>1
    <2> QED
        BY <2>1, <2>2
<1>8. E[n + 1].first + E[n + 1].size = part.first + part.size
    BY <1>4
<1>9. Tiles(E, m, part.first + part.size)
    BY <1>2, <1>5, <1>6, <1>7, <1>8 DEF Tiles
<1> QED
    BY <1>9 DEF E

\* The first part of a message starts its parts.
LEMMA TilesStarted ==
    ASSUME NEW D \in Seq(Parts), NEW part \in Parts, NEW m,
           \A i \in DOMAIN D : D[i].msg # m, part.msg = m, part.first = 0
    PROVE  Tiles(Append(D, part), m, part.first + part.size)
<1> DEFINE E == Append(D, part)
           n == Len(D) + 1
<1>1. /\ n \in Nat \ {0} /\ DOMAIN D = 1 .. n - 1 /\ DOMAIN E = 1 .. n
      /\ E[n] = part /\ \A i \in 1 .. n - 1 : E[i] = D[i]
    BY AppendPart
<1> HIDE DEF E, n
<1>2. \A i \in DOMAIN E : E[i].msg = m <=> i \in n .. n
    <2> TAKE i \in DOMAIN E
    <2>1. CASE i = n
        BY <1>1, <2>1
    <2>2. CASE i # n
        <3>1. i \in 1 .. n - 1 /\ i \notin n .. n
            BY <1>1, <2>2
        <3> QED
            BY <1>1, <3>1
    <2> QED
        BY <2>1, <2>2
<1>3. n \in DOMAIN E /\ n <= n /\ \A i \in n .. n - 1 : FALSE
    BY <1>1
<1>4. Tiles(E, m, part.first + part.size)
    BY <1>1, <1>2, <1>3 DEF Tiles
<1> QED
    BY <1>4 DEF E

\* A delivered frame takes its message on, or completes it.
LEMMA RoundProgress ==
    ASSUME NEW s, Stream(s), NEW input, Begins(input, s), NEW o \in 0 .. Len(input),
           FrameAt(input, o).at = "frame", NEW msgs, Gapless(s, o, msgs),
           NEW D \in Seq(Parts), Progress(D, s, o, msgs)
    PROVE  LET c == FrameAt(input, o).cost
           IN  Progress(Append(D, Decoded(SubSeq(input, o + 1, c))), s, c, msgs)
<1> DEFINE c == FrameAt(input, o).cost
           head == s[o + 1]
           part == Decoded(SubSeq(input, o + 1, c))
           E == Append(D, part)
<1>1. /\ o \in Nat /\ c \in Nat /\ Len(s) \in Nat /\ o < c /\ c <= Len(s)
      /\ \A j \in o + 1 .. c : s[j] \in Bytes /\ SameFrame(head, s[j]) /\ Carried(s[j]) = Carried(head)
      /\ s[c].pos = s[c].len - 1
      /\ part \in Parts /\ part.msg = head.msg /\ part.first = head.first
      /\ part.size = Carried(head)
    BY FrameInStream
<1> HIDE DEF c, part
<1>2. /\ Len(D) \in Nat /\ DOMAIN D = 1 .. Len(D) /\ DOMAIN E = 1 .. Len(D) + 1
      /\ E \in Seq(Parts) /\ E # << >> /\ Len(E) = Len(D) + 1
      /\ E[Len(D) + 1] = part /\ \A i \in 1 .. Len(D) : E[i] = D[i]
    BY <1>1, AppendPart
<1>3. /\ o + 1 \in o + 1 .. Len(s) /\ c \in o + 1 .. Len(s) /\ c \in o + 1 .. c /\ o < Len(s)
      /\ s \in Seq(Bytes) /\ DOMAIN s = 1 .. Len(s)
    BY <1>1 DEF Stream
<1>4. \A j \in o + 1 .. c : s[j].msg = part.msg
    BY <1>1 DEF SameFrame
<1>5. s[c].msg = part.msg /\ s[c].first = part.first /\ Carried(s[c]) = part.size
    BY <1>1, <1>3 DEF SameFrame
<1> SUFFICES ASSUME NEW m \in DOMAIN msgs, msgs[m].accepted
             PROVE  \/ Done(E, s, c, m, msgs[m].size)
                    \/ UnderWay(E, s, c, m)
                    \/ Waiting(E, s, c, m)
    BY DEF Progress, E, part, c
<1>6. \/ Done(D, s, o, m, msgs[m].size)
      \/ UnderWay(D, s, o, m)
      \/ Waiting(D, s, o, m)
    BY DEF Progress
<1>7. CASE m = part.msg
    <2>1. ~Done(D, s, o, m, msgs[m].size)
        BY <1>1, <1>3, <1>7 DEF Done
    <2>2. Tiles(E, m, part.first + part.size)
        <3>1. CASE UnderWay(D, s, o, m)
            BY <1>1, <1>7, <3>1, TilesExtended DEF UnderWay
        <3>2. CASE Waiting(D, s, o, m)
            <4>1. PICK j \in o + 1 .. Len(s) :
                     s[j].msg = m /\ s[j].first = 0 /\ \A i \in o + 1 .. j - 1 : s[i].msg # m
                BY <3>2 DEF Waiting
            <4>2. o + 1 \notin o + 1 .. j - 1
                BY <1>1, <1>7, <4>1
            <4>3. j = o + 1
                BY <1>1, <4>2
            <4> QED
                BY <1>1, <1>7, <3>2, <4>1, <4>3, TilesStarted DEF Waiting
        <3> QED
            BY <1>6, <2>1, <3>1, <3>2
    <2>3. \/ /\ part.first + part.size = msgs[m].size
             /\ c < Len(s) => s[c + 1].msg # m
          \/ /\ c < Len(s) /\ s[c + 1].msg = m
             /\ s[c + 1].first = part.first + part.size
        BY <1>1, <1>3, <1>5, <1>7 DEF Gapless
    <2>4. CASE /\ part.first + part.size = msgs[m].size
               /\ c < Len(s) => s[c + 1].msg # m
        <3>1. ASSUME NEW j \in c + 1 .. Len(s) PROVE s[j].msg # m
            <4>1. /\ c < Len(s) /\ c \in DOMAIN s /\ c + 1 \in DOMAIN s /\ j \in DOMAIN s /\ c < c + 1
                  /\ j = c + 1 \/ c + 1 < j
                  /\ c + 1 \in o + 1 .. Len(s) /\ j \in o + 1 .. Len(s)
                BY <1>1, <1>3
            <4>2. s[c].msg # 0 /\ s[c + 1].msg # 0 /\ s[j].msg # 0
                BY <1>3, <4>1 DEF Gapless
            <4>3. Earlier(s[c], s[c + 1]) /\ (j # c + 1 => Earlier(s[c + 1], s[j]))
                BY <4>1, <4>2 DEF Stream, Ordered
            <4>4. s[c].msg \in Nat /\ s[c + 1].msg \in Nat /\ s[j].msg \in Nat
                <5>1. s[c] \in Bytes /\ s[c + 1] \in Bytes /\ s[j] \in Bytes
                    BY <1>3, <4>1
                <5> QED
                    BY <5>1 DEF Bytes
            <4>5. s[c].msg < s[c + 1].msg
                BY <1>5, <1>7, <2>4, <4>1, <4>3 DEF Earlier, SameFrame
            <4>6. s[c + 1].msg <= s[j].msg
                BY <4>1, <4>3, <4>4 DEF Earlier, SameFrame
            <4> QED
                BY <1>5, <1>7, <4>4, <4>5, <4>6
        <3> QED
            BY <2>2, <2>4, <3>1 DEF Done
    <2>5. CASE /\ c < Len(s) /\ s[c + 1].msg = m
               /\ s[c + 1].first = part.first + part.size
        <3>1. E[Len(E)].msg = m
            BY <1>2, <1>7
        <3> HIDE DEF E
        <3> QED
            BY <1>2, <2>2, <2>5, <3>1 DEF UnderWay
    <2> QED
        BY <2>3, <2>4, <2>5
<1>8. CASE m # part.msg
    <2>1. CASE Done(D, s, o, m, msgs[m].size)
        <3>1. Tiles(E, m, msgs[m].size)
            BY <1>1, <1>8, <2>1, TilesKept DEF Done
        <3>2. \A j \in c + 1 .. Len(s) : j \in o + 1 .. Len(s)
            BY <1>1
        <3> QED
            BY <2>1, <3>1, <3>2 DEF Done
    <2>2. ~UnderWay(D, s, o, m)
        BY <1>1, <1>8 DEF UnderWay
    <2>3. CASE Waiting(D, s, o, m)
        <3>1. PICK j \in o + 1 .. Len(s) :
                 s[j].msg = m /\ s[j].first = 0 /\ \A i \in o + 1 .. j - 1 : s[i].msg # m
            BY <2>3 DEF Waiting
        <3>2. j \notin o + 1 .. c
            BY <1>4, <1>8, <3>1
        <3>3. j \in c + 1 .. Len(s) /\ \A i \in c + 1 .. j - 1 : i \in o + 1 .. j - 1
            BY <1>1, <3>2
        <3>4. \A i \in DOMAIN E : E[i].msg # m
            <4>1. \A i \in DOMAIN E : i \in 1 .. Len(D) \/ i = Len(D) + 1
                BY <1>2
            <4> HIDE DEF E
            <4> QED
                BY <1>2, <1>8, <2>3, <4>1 DEF Waiting
        <3> HIDE DEF E
        <3> QED
            BY <3>1, <3>3, <3>4 DEF Waiting
    <2> QED
        BY <1>6, <2>1, <2>2, <2>3
<1> QED
    BY <1>7, <1>8

\* A decoded frame keeps what holds of the offset and the parts.
LEMMA RoundHolds ==
    ASSUME NEW s, Stream(s), NEW input, Begins(input, s), NEW o \in 0 .. Len(input),
           FrameAt(input, o).at = "frame", NEW msgs,
           \A j \in DOMAIN s : s[j].msg # 0 => Accepted(msgs, s[j].msg),
           NEW D \in Seq(Parts), NEW isClean \in BOOLEAN, NEW isWhole \in BOOLEAN,
           Holds(D, s, o, msgs, isClean, isWhole)
    PROVE  LET c == FrameAt(input, o).cost
               E == Append(D, Decoded(SubSeq(input, o + 1, c)))
           IN  Holds(E, s, c, msgs, isClean, isWhole)
<1> DEFINE c == FrameAt(input, o).cost
           part == Decoded(SubSeq(input, o + 1, c))
           E == Append(D, part)
<1>1. /\ o \in Nat /\ c \in Nat /\ Len(s) \in Nat /\ o < c /\ c <= Len(s)
      /\ \A j \in o + 1 .. c : s[j].msg # 0
      /\ part \in Parts /\ part.msg = s[o + 1].msg
    BY FrameInStream
<1>2. Accepted(msgs, part.msg)
    <2>1. o + 1 \in DOMAIN s /\ s[o + 1].msg # 0
        BY <1>1 DEF Stream
    <2> QED
        BY <1>1, <2>1
<1>3. \A i \in DOMAIN E : Accepted(msgs, E[i].msg)
    <2> HIDE DEF part
    <2>1. /\ Len(D) \in Nat /\ DOMAIN D = 1 .. Len(D) /\ DOMAIN E = 1 .. Len(D) + 1
          /\ E[Len(D) + 1] = part /\ \A i \in 1 .. Len(D) : E[i] = D[i]
        BY <1>1, AppendPart
    <2> HIDE DEF E
    <2>2. \A i \in DOMAIN E : (i \in DOMAIN D /\ E[i] = D[i]) \/ E[i] = part
        BY <2>1
    <2> QED
        BY <1>2, <2>2 DEF Holds
<1>4. InOrder(E) /\ Ahead(E, s, c)
    BY RoundInOrder DEF Holds
<1>5. isClean => Gapless(s, c, msgs)
    BY RoundGapless DEF Holds
<1>6. isClean /\ isWhole => Progress(E, s, c, msgs)
    BY RoundProgress DEF Holds
<1> QED
    BY <1>3, <1>4, <1>5, <1>6 DEF Holds

-----------------------------------------------------------------------------
(* A read.                                                                  *)

\* Two sequences of bytes, one behind the other.
LEMMA JoinBytes ==
    ASSUME NEW s \in Seq(Bytes), NEW t \in Seq(Bytes)
    PROVE  /\ s \o t \in Seq(Bytes) /\ Len(s) \in Nat /\ Len(t) \in Nat
           /\ Len(s \o t) = Len(s) + Len(t)
           /\ \A i \in 1 .. Len(s) + Len(t) :
                 (s \o t)[i] = IF i <= Len(s) THEN s[i] ELSE t[i - Len(s)]
BY ConcatProperties

\* What is behind the first bytes of a sequence.
LEMMA RestOfBytes ==
    ASSUME NEW s \in Seq(Bytes), NEW c \in 0 .. Len(s)
    PROVE  LET t == SubSeq(s, c + 1, Len(s))
           IN  /\ t \in Seq(Bytes) /\ Len(t) = Len(s) - c
               /\ \A i \in 1 .. Len(s) - c : t[i] = s[c + i]
<1> DEFINE n == Len(s)
<1>0. n \in Nat /\ c \in 0 .. n /\ \A i \in 1 .. n : s[i] \in Bytes
    OBVIOUS
<1> HIDE DEF n
<1>1. c + 1 \in Int /\ n \in Int /\ \A i \in c + 1 .. n : s[i] \in Bytes
    BY <1>0
<1>2. /\ SubSeq(s, c + 1, n) \in Seq(Bytes)
      /\ Len(SubSeq(s, c + 1, n)) = IF c + 1 <= n THEN n - (c + 1) + 1 ELSE 0
      /\ \A i \in 1 .. n - (c + 1) + 1 : SubSeq(s, c + 1, n)[i] = s[(c + 1) + i - 1]
    BY <1>1, SubSeqProperties
<1>3. n - (c + 1) + 1 = n - c /\ (c + 1 <= n \/ n - c = 0)
    BY <1>0
<1>4. \A i \in 1 .. n - c : (c + 1) + i - 1 = c + i
    BY <1>0
<1> QED
    BY <1>2, <1>3, <1>4 DEF n

\* What the decoder gets is the front of what is pending.
LEMMA ReadFront ==
    ASSUME TypeOK, NEW n \in 1 .. Min({ReadSize, Len(stream)}),
           NEW bytes, bytes = buffer \o SubSeq(stream, 1, n)
    PROVE  Begins(bytes, Pending)
<1>1. /\ stream \in Seq(Bytes) /\ buffer \in Seq(Bytes)
      /\ Len(stream) \in Nat /\ Len(buffer) \in Nat
    BY DEF TypeOK
<1>2. n \in 1 .. Len(stream)
    <2>1. Min({ReadSize, Len(stream)}) <= Len(stream) /\ Min({ReadSize, Len(stream)}) \in Nat
        BY <1>1, StreamAssumption, MinOfTwo
    <2> QED
        BY <1>1, <2>1
<1>3. /\ SubSeq(stream, 1, n) \in Seq(Bytes) /\ Len(SubSeq(stream, 1, n)) = n
      /\ \A i \in 1 .. n : SubSeq(stream, 1, n)[i] = stream[i]
    BY <1>1, <1>2
<1> DEFINE read == SubSeq(stream, 1, n)
<1> HIDE DEF read
<1>4. read \in Seq(Bytes) /\ Len(read) = n /\ \A i \in 1 .. n : read[i] = stream[i]
    BY <1>3 DEF read
<1>5. bytes = buffer \o read
    BY DEF read
<1>6. /\ bytes \in Seq(Bytes) /\ Len(bytes) = Len(buffer) + n
      /\ \A i \in 1 .. Len(buffer) + n :
            bytes[i] = IF i <= Len(buffer) THEN buffer[i] ELSE read[i - Len(buffer)]
    BY <1>1, <1>4, <1>5, JoinBytes
<1>7. /\ Len(Pending) = Len(buffer) + Len(stream)
      /\ \A i \in 1 .. Len(buffer) + Len(stream) :
            Pending[i] = IF i <= Len(buffer) THEN buffer[i] ELSE stream[i - Len(buffer)]
    BY <1>1, JoinBytes DEF Pending
<1>8. ASSUME NEW i \in 1 .. Len(buffer) + n PROVE bytes[i] = Pending[i]
    <2>1. i \in 1 .. Len(buffer) + Len(stream) /\ (i <= Len(buffer) \/ i - Len(buffer) \in 1 .. n)
        BY <1>1, <1>2
    <2> QED
        BY <1>4, <1>6, <1>7, <2>1
<1> QED
    BY <1>1, <1>2, <1>6, <1>7, <1>8 DEF Begins

\* What a read leaves is a suffix of what was pending.
LEMMA ReadBytes ==
    ASSUME TypeOK, NEW n \in 1 .. Min({ReadSize, Len(stream)}),
           NEW bytes, bytes = buffer \o SubSeq(stream, 1, n), NEW cost \in 0 .. Len(bytes),
           buffer' = SubSeq(bytes, cost + 1, Len(bytes)),
           stream' = SubSeq(stream, n + 1, Len(stream))
    PROVE  /\ Begins(bytes, Pending)
           /\ Pending \in Seq(Bytes) /\ cost \in 0 .. Len(Pending)
           /\ buffer' \in Seq(Bytes) /\ stream' \in Seq(Bytes) /\ Pending' \in Seq(Bytes)
           /\ Len(Pending') = Len(Pending) - cost
           /\ \A i \in 1 .. Len(Pending') : Pending'[i] = Pending[cost + i]
           /\ Len(buffer') = Len(bytes) - cost
           /\ \A i \in 1 .. Len(buffer') : buffer'[i] = bytes[cost + i]
<1> DEFINE ls == Len(stream)
           lb == Len(buffer)
           read == SubSeq(stream, 1, n)
<1>0. stream \in Seq(Bytes) /\ buffer \in Seq(Bytes) /\ ls \in Nat /\ lb \in Nat
    BY DEF TypeOK
<1>1. n \in 1 .. ls
    <2>1. Min({ReadSize, ls}) <= ls /\ Min({ReadSize, ls}) \in Nat
        BY <1>0, StreamAssumption, MinOfTwo
    <2> QED
        BY <1>0, <2>1
<1>2. /\ read \in Seq(Bytes) /\ Len(read) = n
      /\ \A i \in 1 .. n : read[i] = stream[i]
    BY <1>0, <1>1
<1>3. /\ stream' \in Seq(Bytes) /\ Len(stream') = ls - n
      /\ \A i \in 1 .. ls - n : stream'[i] = stream[n + i]
    <2>1. n \in 0 .. Len(stream)
        BY <1>0, <1>1
    <2> QED
        BY <1>0, <2>1, RestOfBytes
<1>4. /\ bytes \in Seq(Bytes) /\ Len(bytes) = lb + n
      /\ \A i \in 1 .. lb + n : bytes[i] = IF i <= lb THEN buffer[i] ELSE read[i - lb]
    BY <1>0, <1>1, <1>2, JoinBytes
<1>5. /\ Pending \in Seq(Bytes) /\ Len(Pending) = lb + ls
      /\ \A i \in 1 .. lb + ls : Pending[i] = IF i <= lb THEN buffer[i] ELSE stream[i - lb]
    BY <1>0, JoinBytes DEF Pending
<1>6. /\ buffer' \in Seq(Bytes) /\ Len(buffer') = (lb + n) - cost
      /\ \A i \in 1 .. (lb + n) - cost : buffer'[i] = bytes[cost + i]
    BY <1>4, RestOfBytes
<1> HIDE DEF ls, lb, read
<1>7. /\ Pending' \in Seq(Bytes) /\ Len(Pending') = ((lb + n) - cost) + (ls - n)
      /\ \A i \in 1 .. ((lb + n) - cost) + (ls - n) :
            Pending'[i] = IF i <= (lb + n) - cost THEN buffer'[i] ELSE stream'[i - ((lb + n) - cost)]
    <2> DEFINE b == buffer'
               t == stream'
               k == (lb + n) - cost
               l == ls - n
    <2>1. Pending' = b \o t
        BY DEF Pending
    <2>2. b \in Seq(Bytes) /\ t \in Seq(Bytes) /\ Len(b) = k /\ Len(t) = l
        BY <1>3, <1>6
    <2> HIDE DEF b, t, k, l
    <2>3. /\ Pending' \in Seq(Bytes) /\ Len(Pending') = k + l
          /\ \A i \in 1 .. k + l : Pending'[i] = IF i <= k THEN b[i] ELSE t[i - k]
        BY <2>1, <2>2, JoinBytes
    <2> QED
        BY <2>3 DEF b, t, k, l
<1>8. cost \in Nat /\ cost <= lb + n /\ n <= ls /\ n \in Nat /\ n >= 1
    BY <1>0, <1>1, <1>4
<1>9. \A i \in 1 .. lb + n : bytes[i] = Pending[i]
    <2> TAKE i \in 1 .. lb + n
    <2>1. i \in 1 .. lb + ls /\ (i <= lb \/ i - lb \in 1 .. n)
        BY <1>0, <1>8
    <2> QED
        BY <1>2, <1>4, <1>5, <2>1
<1>10. ((lb + n) - cost) + (ls - n) = (lb + ls) - cost
    BY <1>0, <1>8
<1>11. ASSUME NEW i \in 1 .. (lb + ls) - cost PROVE Pending'[i] = Pending[cost + i]
    <2>1. i \in 1 .. ((lb + n) - cost) + (ls - n) /\ cost + i \in 1 .. lb + ls
        BY <1>0, <1>8
    <2>2. CASE i <= (lb + n) - cost
        <3>1. i \in 1 .. (lb + n) - cost /\ cost + i \in 1 .. lb + n
            BY <1>0, <1>8, <2>2
        <3> QED
            BY <1>6, <1>7, <1>9, <2>1, <2>2, <3>1
    <2>3. CASE ~ (i <= (lb + n) - cost)
        <3> DEFINE j == i - ((lb + n) - cost)
        <3>1. j \in 1 .. ls - n /\ n + j = (cost + i) - lb /\ ~ (cost + i <= lb)
            BY <1>0, <1>8, <2>3
        <3>2. Pending'[i] = stream'[j] /\ stream'[j] = stream[n + j]
            BY <1>3, <1>7, <2>1, <2>3, <3>1
        <3>3. Pending[cost + i] = stream[(cost + i) - lb]
            BY <1>5, <2>1, <3>1
        <3> QED
            BY <3>1, <3>2, <3>3
    <2> QED
        BY <2>2, <2>3
<1>12. Begins(bytes, Pending)
    BY ReadFront
<1>13. cost \in 0 .. Len(Pending)
    BY <1>0, <1>5, <1>8
<1> QED
    BY <1>3, <1>4, <1>5, <1>6, <1>7, <1>10, <1>11, <1>12, <1>13

\* Nothing that is decoded from the stream is lost in the loop.
LEMMA ReadDecodes ==
    ASSUME Inv, NEW bytes, Begins(bytes, Pending)
    PROVE  LET result == DecodeSync(bytes)
           IN  /\ result.messages \in Seq(Parts) /\ result.success \in BOOLEAN
               /\ delivered \o result.messages \in Seq(Parts)
               /\ \E o \in 0 .. Len(bytes) :
                     /\ Holds(delivered \o result.messages, Pending, o, sent, clean, ~lost)
                     /\ IF o = 0 THEN delivered \o result.messages = delivered
                                 ELSE Len(delivered \o result.messages) > Len(delivered)
                     /\ FrameAt(bytes, o).at # "frame"
                     /\ result.cost = FrameAt(bytes, o).cost
                     /\ result.success => FrameAt(bytes, o).at = "end"
                     /\ \/ result.success \/ FrameAt(bytes, o).at # "end"
                        \/ o = 0 /\ result.messages = << >>
<1> DEFINE S == {x \in (0 .. Len(bytes)) \X Seq(Parts) :
                   /\ Holds(x[2], Pending, x[1], sent, clean, ~lost)
                   /\ IF x[1] = 0 THEN x[2] = delivered ELSE Len(x[2]) > Len(delivered)}
<1>0. /\ bytes \in Seq(Bytes) /\ Len(bytes) \in Nat /\ delivered \in Seq(Parts)
      /\ Stream(Pending) /\ clean \in BOOLEAN /\ (~lost) \in BOOLEAN
      /\ \A j \in DOMAIN Pending : Pending[j].msg # 0 => Accepted(sent, Pending[j].msg)
    BY DEF Inv, TypeOK, Begins
<1>1. Sound(bytes)
    BY <1>0, FrontSound
<1>2. <<0, delivered>> \in S
    BY <1>0 DEF Inv
<1>3. ASSUME NEW o \in 0 .. Len(bytes), NEW D \in Seq(Parts), <<o, D>> \in S,
             FrameAt(bytes, o).at = "frame"
      PROVE  LET c == FrameAt(bytes, o).cost
             IN  <<c, Append(D, Decoded(SubSeq(bytes, o + 1, c)))>> \in S
    <2> DEFINE c == FrameAt(bytes, o).cost
               part == Decoded(SubSeq(bytes, o + 1, c))
               E == Append(D, part)
    <2>1. Holds(D, Pending, o, sent, clean, ~lost) 
             /\ IF o = 0 THEN D = delivered ELSE Len(D) > Len(delivered)
        BY <1>3
    <2>2. o \in Nat /\ c \in 0 .. Len(bytes) /\ part \in Parts
        BY <1>0, <1>3, FrameInStream
    <2>3. Holds(E, Pending, c, sent, clean, ~lost)
        BY <1>0, <1>3, <2>1, RoundHolds
    <2>4. /\ E \in Seq(Parts) /\ Len(E) = Len(D) + 1 /\ Len(D) \in Nat /\ Len(delivered) \in Nat
        BY <1>0, <2>2, AppendPart
    <2>5. Len(E) > Len(delivered)
        <3>1. CASE o = 0
            BY <2>1, <2>4, <3>1
        <3>2. CASE o # 0
            BY <2>1, <2>4, <3>2
        <3> QED
            BY <3>1, <3>2
    <2>6. c # 0
        BY <1>0, <1>3, FrameInStream
    <2> HIDE DEF c, E
    <2> QED
        BY <2>2, <2>3, <2>4, <2>5, <2>6 DEF c, E
<1> HIDE DEF S
<1> DEFINE result == DecodeSync(bytes)
<1>4. /\ result.messages \in Seq(Parts) /\ result.success \in BOOLEAN
      /\ \E o \in 0 .. Len(bytes) :
            /\ <<o, delivered \o result.messages>> \in S
            /\ FrameAt(bytes, o).at # "frame"
            /\ result.cost = FrameAt(bytes, o).cost
            /\ result.success => FrameAt(bytes, o).at = "end"
            /\ \/ result.success \/ FrameAt(bytes, o).at # "end"
               \/ o = 0 /\ result.messages = << >>
    BY <1>0, <1>1, <1>2, <1>3, DecodingRule
<1> HIDE DEF result
<1>5. delivered \o result.messages \in Seq(Parts)
    BY <1>0, <1>4, ConcatProperties
<1> QED
    BY <1>4, <1>5 DEF S, result

\* What holds at an offset holds of the bytes behind it.
LEMMA HoldsOfRest ==
    ASSUME NEW s, NEW o \in 0 .. Len(s), NEW t, Len(s) \in Nat, Len(t) = Len(s) - o,
           \A i \in 1 .. Len(t) : t[i] = s[o + i],
           NEW D, NEW msgs
    PROVE  /\ Ahead(D, s, o) => Ahead(D, t, 0)
           /\ Gapless(s, o, msgs) => Gapless(t, 0, msgs)
           /\ Progress(D, s, o, msgs) => Progress(D, t, 0, msgs)
<1>0. /\ o \in Nat /\ Len(t) \in Nat
      /\ \A j \in 0 + 1 .. Len(t) : j \in Nat /\ o + j \in o + 1 .. Len(s) /\ t[j] = s[o + j]
    OBVIOUS
<1>1. ASSUME Ahead(D, s, o) PROVE Ahead(D, t, 0)
    BY <1>0, <1>1 DEF Ahead
<1>2. ASSUME Gapless(s, o, msgs) PROVE Gapless(t, 0, msgs)
    <2>1. 0 < Len(t) => t[0 + 1].pos = 0
        <3> SUFFICES ASSUME 0 < Len(t) PROVE t[1].pos = 0
            OBVIOUS
        <3>1. 1 \in 0 + 1 .. Len(t) /\ o < Len(s)
            BY <1>0
        <3> QED
            BY <1>0, <1>2, <3>1 DEF Gapless
    <2>2. \A j \in 0 + 1 .. Len(t) : t[j].msg # 0
        BY <1>0, <1>2 DEF Gapless
    <2>3. ASSUME NEW j \in 0 + 1 .. Len(t), t[j].pos = t[j].len - 1
          PROVE  /\ j < Len(t) => t[j + 1].pos = 0
                 /\ \/ /\ t[j].first + Carried(t[j]) = msgs[t[j].msg].size
                       /\ j < Len(t) => t[j + 1].msg # t[j].msg
                    \/ /\ j < Len(t)
                       /\ t[j + 1].msg = t[j].msg
                       /\ t[j + 1].first = t[j].first + Carried(t[j])
        <3> DEFINE k == o + j
        <3>1. k \in o + 1 .. Len(s) /\ t[j] = s[k]
            BY <1>0
        <3>2. j < Len(t) <=> k < Len(s)
            BY <1>0
        <3>3. j < Len(t) => t[j + 1] = s[k + 1]
            <4> SUFFICES ASSUME j < Len(t) PROVE t[j + 1] = s[k + 1]
                OBVIOUS
            <4>1. j + 1 \in 0 + 1 .. Len(t) /\ o + (j + 1) = k + 1
                BY <1>0
            <4> QED
                BY <1>0, <4>1
        <3> HIDE DEF k
        <3>4. /\ k < Len(s) => s[k + 1].pos = 0
              /\ \/ /\ s[k].first + Carried(s[k]) = msgs[s[k].msg].size
                    /\ k < Len(s) => s[k + 1].msg # s[k].msg
                 \/ /\ k < Len(s)
                    /\ s[k + 1].msg = s[k].msg
                    /\ s[k + 1].first = s[k].first + Carried(s[k])
            BY <1>2, <2>3, <3>1 DEF Gapless
        <3> QED
            BY <3>1, <3>2, <3>3, <3>4
    <2> QED
        BY <2>1, <2>2, <2>3 DEF Gapless
<1>3. ASSUME Progress(D, s, o, msgs) PROVE Progress(D, t, 0, msgs)
    <2> SUFFICES ASSUME NEW m \in DOMAIN msgs, msgs[m].accepted
                 PROVE  \/ Done(D, t, 0, m, msgs[m].size)
                        \/ UnderWay(D, t, 0, m)
                        \/ Waiting(D, t, 0, m)
        BY DEF Progress
    <2>1. CASE Done(D, s, o, m, msgs[m].size)
        BY <1>0, <2>1 DEF Done
    <2>2. CASE UnderWay(D, s, o, m)
        <3>1. 0 < Len(t) /\ t[0 + 1] = s[o + 1]
            BY <1>0, <2>2 DEF UnderWay
        <3> QED
            BY <2>2, <3>1 DEF UnderWay
    <2>3. CASE Waiting(D, s, o, m)
        <3>1. PICK j \in o + 1 .. Len(s) :
                 s[j].msg = m /\ s[j].first = 0 /\ \A i \in o + 1 .. j - 1 : s[i].msg # m
            BY <2>3 DEF Waiting
        <3>2. j - o \in 0 + 1 .. Len(t) /\ o + (j - o) = j
            BY <1>0
        <3>3. \A i \in 0 + 1 .. (j - o) - 1 : i \in 0 + 1 .. Len(t) /\ o + i \in o + 1 .. j - 1
            BY <1>0
        <3>4. t[j - o] = s[j] /\ \A i \in 0 + 1 .. (j - o) - 1 : t[i].msg # m
            BY <1>0, <3>1, <3>2, <3>3
        <3> QED
            BY <2>3, <3>1, <3>2, <3>4 DEF Waiting
    <2> QED
        BY <1>3, <2>1, <2>2, <2>3 DEF Progress
<1> QED
    BY <1>1, <1>2, <1>3

\* In a stream without gaps the decoder never looks for a magic number.
LEMMA NoJunkFound ==
    ASSUME NEW s, Stream(s), NEW input, Begins(input, s), NEW o \in 0 .. Len(input),
           NEW msgs, Gapless(s, o, msgs)
    PROVE  FrameAt(input, o).at # "junk"
<1>0. /\ s \in Seq(Bytes) /\ input \in Seq(Bytes) /\ Sound(input)
      /\ Len(s) \in Nat /\ Len(input) \in Nat /\ Len(input) <= Len(s) /\ DOMAIN s = 1 .. Len(s)
      /\ \A i \in 1 .. Len(input) : input[i] = s[i]
    BY FrontSound DEF Stream, Begins
<1>1. SUFFICES ASSUME o + HeaderSize <= Len(input) PROVE MagicAt(input, o)
    BY <1>0, FrameCases
<1>2. HeaderSize \in Nat \ {0} /\ MagicSize \in Nat /\ MagicSize <= HeaderSize
    BY SizesAssumption
<1>3. o < Len(s) /\ o + 1 \in o + 1 .. Len(s) /\ o + 1 \in DOMAIN s
    BY <1>0, <1>1, <1>2
<1>4. s[o + 1].pos = 0 /\ s[o + 1].msg # 0 /\ s[o + 1] \in Bytes
    BY <1>0, <1>3 DEF Gapless
<1>5. s[o + 1].len \in Nat /\ HeaderSize <= s[o + 1].len
    BY <1>3, <1>4 DEF Stream, Sound, FrameByte, Bytes
<1>6. \A j \in o + 1 .. (o + 1) + (s[o + 1].len - s[o + 1].pos) - 1 :
         SameFrame(s[o + 1], s[j]) /\ s[j].pos = s[o + 1].pos + (j - (o + 1))
    BY <1>3, <1>4 DEF Stream, Whole
<1>7. ASSUME NEW i \in 1 .. MagicSize
      PROVE  input[o + i].msg # 0 /\ input[o + i].pos = i - 1
    <2>1. /\ o + i \in o + 1 .. (o + 1) + (s[o + 1].len - s[o + 1].pos) - 1
          /\ (o + i) - (o + 1) = i - 1 /\ o + i \in 1 .. Len(input)
        BY <1>0, <1>1, <1>2, <1>4, <1>5
    <2>2. SameFrame(s[o + 1], s[o + i]) /\ s[o + i].pos = i - 1
        BY <1>2, <1>4, <1>6, <2>1
    <2> QED
        BY <1>0, <1>4, <2>1, <2>2 DEF SameFrame
<1>8. o + MagicSize <= Len(input)
    BY <1>0, <1>1, <1>2
<1> QED
    BY <1>7, <1>8 DEF MagicAt

LEMMA ReadStep ==
    ASSUME Inv, NEW n \in 1 .. Min({ReadSize, Len(stream)}), onSocketRecv(n)
    PROVE  /\ Inv'
           /\ clean /\ StartsWithFrame(buffer \o SubSeq(stream, 1, n)) =>
                 delivered' # delivered \/ Len(buffer') >= HeaderSize
<1>20. PICK bytes, result, cost, D :
          /\ bytes = buffer \o SubSeq(stream, 1, n)
          /\ result = DecodeSync(bytes)
          /\ cost = result.cost
          /\ D = delivered \o result.messages
    OBVIOUS
<1>0. /\ TypeOK /\ Stream(Pending) /\ delivered \in Seq(Parts)
      /\ clean \in BOOLEAN /\ lost \in BOOLEAN
    BY DEF Inv, TypeOK
<1>1. /\ stream' = SubSeq(stream, n + 1, Len(stream))
      /\ buffer' = SubSeq(bytes, cost + 1, Len(bytes))
      /\ delivered' = IF result.success THEN D ELSE delivered
      /\ lost' = (lost \/ (~result.success /\ result.messages # << >>))
      /\ sent' = sent /\ clean' = clean
    BY <1>20 DEF onSocketRecv
<1>2. bytes = buffer \o SubSeq(stream, 1, n)
    BY <1>20
<1>3. Begins(bytes, Pending) /\ bytes \in Seq(Bytes) /\ Len(bytes) \in Nat
    <2>1. Begins(bytes, Pending)
        BY <1>0, <1>2, ReadFront
    <2> QED
        BY <2>1 DEF Begins
<1>4. Sound(bytes)
    BY <1>0, <1>3, FrontSound
<1>5. result.messages \in Seq(Parts) /\ result.success \in BOOLEAN /\ D \in Seq(Parts)
    BY <1>3, <1>20, ReadDecodes
<1>6. PICK o \in 0 .. Len(bytes) :
         /\ Holds(D, Pending, o, sent, clean, ~lost)
         /\ IF o = 0 THEN D = delivered ELSE Len(D) > Len(delivered)
         /\ FrameAt(bytes, o).at # "frame"
         /\ cost = FrameAt(bytes, o).cost
         /\ result.success => FrameAt(bytes, o).at = "end"
         /\ \/ result.success \/ FrameAt(bytes, o).at # "end"
            \/ o = 0 /\ result.messages = << >>
    BY <1>3, <1>20, ReadDecodes
<1>7. cost \in 0 .. Len(bytes)
    BY <1>3, <1>4, <1>6, FrameCases
<1>18. buffer' = SubSeq(bytes, cost + 1, Len(bytes)) /\ stream' = SubSeq(stream, n + 1, Len(stream))
    BY <1>1
<1>8. /\ Pending \in Seq(Bytes) /\ cost \in 0 .. Len(Pending)
      /\ buffer' \in Seq(Bytes) /\ stream' \in Seq(Bytes) /\ Pending' \in Seq(Bytes)
      /\ Len(Pending') = Len(Pending) - cost
      /\ \A i \in 1 .. Len(Pending') : Pending'[i] = Pending[cost + i]
      /\ Len(buffer') = Len(bytes) - cost
      /\ \A i \in 1 .. Len(buffer') : buffer'[i] = bytes[cost + i]
    <2>1. Pending \in Seq(Bytes)
        BY <1>0, <1>2, <1>7, <1>18, ReadBytes, Zenon
    <2>2. cost \in 0 .. Len(Pending)
        BY <1>0, <1>2, <1>7, <1>18, ReadBytes, Zenon
    <2>3. buffer' \in Seq(Bytes)
        BY <1>0, <1>2, <1>7, <1>18, ReadBytes, Zenon
    <2>4. stream' \in Seq(Bytes)
        BY <1>0, <1>2, <1>7, <1>18, ReadBytes, Zenon
    <2>5. Pending' \in Seq(Bytes)
        BY <1>0, <1>2, <1>7, <1>18, ReadBytes, Zenon
    <2>6. Len(Pending') = Len(Pending) - cost
        BY <1>0, <1>2, <1>7, <1>18, ReadBytes, Zenon
    <2>7. \A i \in 1 .. Len(Pending') : Pending'[i] = Pending[cost + i]
        BY <1>0, <1>2, <1>7, <1>18, ReadBytes, Zenon
    <2>8. Len(buffer') = Len(bytes) - cost
        BY <1>0, <1>2, <1>7, <1>18, ReadBytes, Zenon
    <2>9. \A i \in 1 .. Len(buffer') : buffer'[i] = bytes[cost + i]
        <3>1. \A i \in 1 .. Len(bytes) - cost : SubSeq(bytes, cost + 1, Len(bytes))[i] = bytes[cost + i]
            BY <1>3, <1>7, RestOfBytes
        <3> QED
            BY <1>18, <2>8, <3>1, Zenon
    <2> QED
        BY <2>1, <2>2, <2>3, <2>4, <2>5, <2>6, <2>7, <2>8, <2>9, Zenon
<1>9. TypeOK'
    BY <1>0, <1>1, <1>5, <1>8 DEF TypeOK
<1>10. Stream(Pending')
    BY <1>0, <1>8, StreamSuffix
<1>11. \A j \in DOMAIN Pending' : Pending'[j].msg # 0 => Accepted(sent, Pending'[j].msg)
    <2>1. \A j \in DOMAIN Pending' : cost + j \in DOMAIN Pending /\ Pending'[j] = Pending[cost + j]
        <3>1. Len(Pending) \in Nat /\ cost \in Nat /\ Len(Pending') \in Nat
            BY <1>8
        <3> QED
            BY <1>8, <3>1
    <2> QED
        BY <2>1 DEF Inv
\* Where the loop of a stream of frames stops.
<1>12. ASSUME clean
       PROVE  /\ cost = o
              /\ \/ o + HeaderSize > Len(bytes)
                 \/ /\ FrameAt(bytes, o).at = "partial" /\ o + HeaderSize <= Len(bytes)
                    /\ o + 1 \in DOMAIN bytes /\ o + bytes[o + 1].len > Len(bytes)
                    /\ FrameByte(bytes[o + 1])
    <2>1. FrameAt(bytes, o).at # "junk"
        BY <1>0, <1>3, <1>6, <1>12, NoJunkFound DEF Holds
    <2>2. CASE FrameAt(bytes, o).at = "end"
        BY <1>3, <1>4, <1>6, <2>2, FrameCases
    <2>3. CASE FrameAt(bytes, o).at = "partial"
        <3>1. /\ cost = o /\ o + HeaderSize <= Len(bytes) /\ MagicAt(bytes, o)
              /\ o + 1 \in DOMAIN bytes /\ o + bytes[o + 1].len > Len(bytes)
            BY <1>3, <1>4, <1>6, <2>3, FrameCases
        <3>2. bytes[o + 1].msg # 0
            <4>1. 1 \in 1 .. MagicSize
                BY SizesAssumption
            <4> QED
                BY <3>1, <4>1 DEF MagicAt
        <3> QED
            BY <1>4, <2>3, <3>1, <3>2 DEF Sound
    <2> QED
        BY <1>3, <1>4, <1>6, <2>1, <2>2, <2>3, FrameCases
<1>13. Holds(delivered', Pending, cost, sent, clean, ~lost')
    <2>1. CASE result.success
        <3>1. cost = o /\ delivered' = D /\ lost' = lost
            <4>1. cost = o
                BY <1>3, <1>4, <1>6, <2>1, FrameCases
            <4>2. delivered' = D
                BY <1>1, <2>1
            <4>3. lost' = lost
                BY <1>0, <1>1, <2>1, Zenon
            <4> QED
                BY <4>1, <4>2, <4>3
        <3> QED
            BY <1>6, <3>1
    <2>2. CASE ~result.success
        <3>1. delivered' = delivered
            BY <1>1, <2>2
        <3>2. /\ \A i \in DOMAIN delivered : Accepted(sent, delivered[i].msg)
              /\ InOrder(delivered) /\ Ahead(delivered, Pending, 0)
              /\ clean /\ ~lost => Progress(delivered, Pending, 0, sent)
            BY DEF Inv, Holds
        <3>3. \A j \in cost + 1 .. Len(Pending) : j \in 0 + 1 .. Len(Pending)
            BY <1>8
        <3>4. Ahead(delivered, Pending, cost)
            BY <3>2, <3>3 DEF Ahead
        <3>5. clean => Gapless(Pending, cost, sent)
            BY <1>6, <1>12 DEF Holds
        <3>6. ASSUME clean, ~lost' PROVE Progress(delivered, Pending, cost, sent)
            <4>1. ~lost /\ result.messages = << >>
                BY <1>1, <2>2, <3>6
            <4>2. D = delivered
                BY <1>0, <4>1, <1>20, ConcatEmptySeq
            <4>3. Len(D) \in Nat /\ o = 0
                BY <1>5, <1>6, <4>2
            <4> QED
                BY <1>12, <3>2, <3>6, <4>1, <4>3
        <3> QED
            BY <3>1, <3>2, <3>4, <3>5, <3>6 DEF Holds
    <2> QED
        BY <1>5, <2>1, <2>2
<1>14. Holds(delivered', Pending', 0, sent, clean, ~lost')
    <2>1. PICK p, t : p = delivered' /\ t = Pending'
        OBVIOUS
    <2>2. /\ Len(Pending) \in Nat /\ cost \in 0 .. Len(Pending)
          /\ Len(t) = Len(Pending) - cost /\ \A i \in 1 .. Len(t) : t[i] = Pending[cost + i]
        BY <1>8, <2>1
    <2>3. /\ Ahead(p, Pending, cost) => Ahead(p, t, 0)
          /\ Gapless(Pending, cost, sent) => Gapless(t, 0, sent)
          /\ Progress(p, Pending, cost, sent) => Progress(p, t, 0, sent)
        BY <2>2, HoldsOfRest
    <2> QED
        BY <1>13, <2>1, <2>3, Zenon DEF Holds
<1>15. ASSUME clean
       PROVE  /\ Len(buffer') <= HeaderSize + PrefixSize + ChunkSize - 1
              /\ buffer' # << >> => Head(buffer').pos = 0 /\ ~StartsWithFrame(buffer')
    <2> DEFINE b == buffer'
    <2>0. /\ HeaderSize \in Nat /\ PrefixSize \in Nat /\ ChunkSize \in Nat \ {0} /\ o \in Nat
          /\ Len(b) = Len(bytes) - o /\ Len(b) \in Nat /\ b \in Seq(Bytes)
          /\ \A i \in 1 .. Len(b) : b[i] = bytes[o + i]
        BY <1>3, <1>8, <1>12, <1>15, SizesAssumption
    <2> HIDE DEF b
    <2>1. b # << >> => b[1] = bytes[o + 1] /\ Head(b) = b[1] /\ Len(b) >= 1
        BY <2>0
    <2>2. b # << >> => b[1].pos = 0
        <3> SUFFICES ASSUME b # << >> PROVE bytes[o + 1].pos = 0
            BY <2>1
        <3>1. o + 1 \in 1 .. Len(bytes) /\ o < Len(bytes)
            BY <1>3, <2>0, <2>1
        <3>2. bytes[o + 1] = Pending[o + 1] /\ Len(bytes) <= Len(Pending)
            BY <1>3, <3>1 DEF Begins
        <3>3. Gapless(Pending, o, sent) /\ o < Len(Pending)
            BY <1>3, <1>6, <1>8, <1>15, <3>1, <3>2 DEF Holds
        <3> QED
            BY <3>2, <3>3 DEF Gapless
    <2>3. CASE o + HeaderSize > Len(bytes)
        <3>1. Len(b) < HeaderSize
            BY <1>3, <2>0, <2>3
        <3> QED
            BY <2>0, <2>1, <2>2, <3>1 DEF StartsWithFrame, b
    <2>4. CASE o + 1 \in DOMAIN bytes /\ o + bytes[o + 1].len > Len(bytes) /\ FrameByte(bytes[o + 1])
        <3>1. bytes[o + 1].len \in Nat
            <4>1. bytes[o + 1] \in Bytes
                BY <1>3, <2>4
            <4> QED
                BY <4>1 DEF Bytes
        <3>2. /\ bytes[o + 1].len <= HeaderSize + PrefixSize + ChunkSize
              /\ Len(b) < bytes[o + 1].len
            BY <1>3, <2>0, <2>4, <3>1 DEF FrameByte
        <3>3. Len(b) <= HeaderSize + PrefixSize + ChunkSize - 1
            BY <2>0, <3>1, <3>2
        <3>4. b # << >> => ~StartsWithFrame(b)
            BY <2>0, <2>1, <3>1, <3>2 DEF StartsWithFrame
        <3> QED
            BY <2>1, <2>2, <3>3, <3>4 DEF b
    <2> QED
        BY <1>12, <1>15, <2>3, <2>4
<1>16. ASSUME clean, StartsWithFrame(bytes)
       PROVE  delivered' # delivered \/ Len(buffer') >= HeaderSize
    <2>1. /\ 0 \in 0 .. Len(bytes) /\ Len(bytes) >= HeaderSize /\ HeaderSize \in Nat /\ 0 + 1 = 1
          /\ MagicAt(bytes, 0) /\ Len(bytes) >= bytes[1].len
        BY <1>3, <1>16, SizesAssumption DEF StartsWithFrame
    <2>2. FrameAt(bytes, 0).at = "frame"
        <3>1. bytes[1].len \in Nat
            <4>1. HeaderSize >= 1
                BY SizesAssumption
            <4>2. bytes[1] \in Bytes
                BY <1>3, <2>1, <4>1
            <4> QED
                BY <4>2 DEF Bytes
        <3>2. FrameAt(bytes, 0).at \notin {"end", "junk", "partial"}
            BY <1>3, <1>4, <2>1, <3>1, FrameCases
        <3> QED
            BY <1>3, <1>4, <2>1, <3>2, FrameCases
    <2>3. o # 0 /\ D # delivered
        BY <1>0, <1>5, <1>6, <2>2
    <2>4. CASE result.success
        BY <1>1, <2>3, <2>4
    <2>5. CASE ~result.success
        <3>1. FrameAt(bytes, o).at # "end"
            BY <1>6, <2>3, <2>5
        <3>2. cost = o /\ o + HeaderSize <= Len(bytes)
            BY <1>3, <1>4, <1>6, <1>12, <1>16, <3>1, FrameCases
        <3> QED
            BY <1>3, <1>8, <2>1, <3>2
    <2> QED
        BY <1>5, <2>4, <2>5
<1>17. Inv'
    <2>1. DecoderKeepsPlace'
        BY <1>1, <1>15 DEF DecoderKeepsPlace, StartsWithFrame, MagicAt
    <2> QED
        BY <1>1, <1>9, <1>10, <1>11, <1>14, <1>15, <2>1 DEF Inv
<1> QED
    BY <1>2, <1>16, <1>17

-----------------------------------------------------------------------------
(* Sending.                                                                 *)

Messages == [size : Nat, accepted : BOOLEAN]

LEMMA OneMoreMessage ==
    ASSUME NEW msgs \in Seq(Messages), NEW x \in Messages
    PROVE  LET more == Append(msgs, x)
           IN  /\ more \in Seq(Messages) /\ Len(msgs) + 1 \in Nat \ {0}
               /\ DOMAIN more = DOMAIN msgs \cup {Len(msgs) + 1}
               /\ more[Len(msgs) + 1] = x
               /\ \A m \in DOMAIN msgs : m \in Nat \ {0} /\ m < Len(msgs) + 1 /\ more[m] = msgs[m]
<1>1. /\ Append(msgs, x) \in Seq(Messages) /\ Len(msgs) \in Nat /\ DOMAIN msgs = 1 .. Len(msgs)
      /\ Len(Append(msgs, x)) = Len(msgs) + 1
      /\ \A i \in 1 .. Len(msgs) : Append(msgs, x)[i] = msgs[i]
      /\ Append(msgs, x)[Len(msgs) + 1] = x
    BY AppendProperties
<1>2. DOMAIN Append(msgs, x) = 1 .. Len(msgs) + 1
    BY <1>1
<1> QED
    BY <1>1, <1>2

\* The bytes of a new message behind those of older ones.
LEMMA StreamGrows ==
    ASSUME NEW s, Stream(s), NEW t, Stream(t), NEW m0 \in Nat,
           \A i \in DOMAIN s : s[i].msg # 0 => s[i].msg < m0,
           \A j \in DOMAIN t : t[j].msg \in {0, m0}
    PROVE  Stream(s \o t)
<1>1. ASSUME NEW i \in DOMAIN s, NEW j \in DOMAIN t, s[i].msg # 0, t[j].msg # 0
      PROVE  Earlier(s[i], t[j])
    <2>1. s[i].msg < m0 /\ t[j].msg = m0
        BY <1>1
    <2> QED
        BY <2>1 DEF Earlier
<1> QED
    BY <1>1, StreamConcat

\* Everything delivered was sent before the bytes of a new message.
LEMMA AheadGrows ==
    ASSUME NEW s \in Seq(Bytes), NEW t \in Seq(Bytes), NEW m0 \in Nat,
           \A j \in DOMAIN t : t[j].msg \in {0, m0},
           NEW parts, Ahead(parts, s, 0), \A i \in DOMAIN parts : parts[i].msg < m0
    PROVE  Ahead(parts, s \o t, 0)
<1> SUFFICES ASSUME NEW i \in DOMAIN parts, NEW j \in 0 + 1 .. Len(s \o t), (s \o t)[j].msg # 0
             PROVE  Before(parts[i], (s \o t)[j])
    BY DEF Ahead
<1>1. /\ Len(s) \in Nat /\ Len(t) \in Nat /\ DOMAIN t = 1 .. Len(t) /\ j \in 1 .. Len(s) + Len(t)
      /\ (s \o t)[j] = IF j <= Len(s) THEN s[j] ELSE t[j - Len(s)]
    BY JoinBytes
<1>2. CASE j <= Len(s)
    <2>1. j \in 0 + 1 .. Len(s) /\ (s \o t)[j] = s[j]
        BY <1>1, <1>2
    <2> QED
        BY <2>1 DEF Ahead
<1>3. CASE ~(j <= Len(s))
    <2>1. j - Len(s) \in DOMAIN t /\ (s \o t)[j] = t[j - Len(s)]
        BY <1>1, <1>3
    <2>2. (s \o t)[j].msg = m0
        BY <2>1
    <2> QED
        BY <2>2 DEF Before
<1> QED
    BY <1>2, <1>3

\* A stream of frames goes on without a gap with the frames of a new message.
LEMMA GaplessGrows ==
    ASSUME NEW s \in Seq(Bytes), NEW t \in Seq(Bytes), NEW msgs, NEW more, NEW m0 \in Nat, NEW size,
           Gapless(s, 0, msgs), \A i \in DOMAIN s : s[i].msg \in DOMAIN msgs,
           m0 \notin DOMAIN msgs, m0 # 0, \A m \in DOMAIN msgs : more[m] = msgs[m],
           t = << >> \/ (Encoded(t, m0, size) /\ more[m0].size = size)
    PROVE  Gapless(s \o t, 0, more)
<1> DEFINE u == s \o t
           ls == Len(s)
           lt == Len(t)
<1>0. /\ ls \in Nat /\ lt \in Nat /\ DOMAIN s = 1 .. ls /\ DOMAIN t = 1 .. lt /\ Len(u) = ls + lt
      /\ \A i \in 1 .. ls + lt : u[i] = IF i <= ls THEN s[i] ELSE t[i - ls]
    BY JoinBytes
<1>1. lt > 0 => /\ Encoded(t, m0, size) /\ more[m0].size = size
                /\ t[1].pos = 0 /\ t[1].msg = m0 /\ 1 \in 1 .. lt
    <2> SUFFICES ASSUME lt > 0
                 PROVE  /\ Encoded(t, m0, size) /\ more[m0].size = size
                        /\ t[1].pos = 0 /\ t[1].msg = m0 /\ 1 \in 1 .. lt
        OBVIOUS
    <2>1. t # << >>
        OBVIOUS
    <2>2. Encoded(t, m0, size) /\ more[m0].size = size /\ 1 \in 1 .. lt
        BY <1>0, <2>1
    <2> QED
        BY <1>0, <2>2 DEF Encoded
<1>2. \A j \in 1 .. ls :
         /\ s[j].msg # 0 /\ s[j].msg \in DOMAIN msgs /\ s[j].msg # m0
         /\ more[s[j].msg] = msgs[s[j].msg]
    BY <1>0 DEF Gapless
<1>3. \A j \in 1 .. lt : t[j].msg = m0
    <2> SUFFICES ASSUME NEW j \in 1 .. lt PROVE t[j].msg = m0
        OBVIOUS
    <2>1. lt > 0
        BY <1>0
    <2> QED
        BY <1>0, <1>1, <2>1 DEF Encoded
<1>4. ls < ls + lt => u[ls + 1] = t[1]
    <2> SUFFICES ASSUME ls < ls + lt PROVE u[ls + 1] = t[1]
        OBVIOUS
    <2> HIDE DEF ls, lt, u
    <2>1. ls + 1 \in 1 .. ls + lt /\ ~(ls + 1 <= ls) /\ (ls + 1) - ls = 1
        BY <1>0
    <2> QED
        BY <1>0, <2>1
<1> HIDE DEF u, ls, lt
<1>5. 0 < Len(u) => u[0 + 1].pos = 0
    <2> SUFFICES ASSUME 0 < Len(u) PROVE u[1].pos = 0
        OBVIOUS
    <2>1. CASE ls > 0
        <3>1. 1 \in 1 .. ls + lt /\ u[1] = s[1]
            BY <1>0, <2>1
        <3> QED
            BY <2>1, <3>1 DEF Gapless, ls
    <2>2. CASE ls = 0
        BY <1>0, <1>1, <1>4, <2>2
    <2> QED
        BY <1>0, <2>1, <2>2
<1>6. \A j \in 0 + 1 .. Len(u) : u[j].msg # 0
    <2> SUFFICES ASSUME NEW j \in 1 .. ls + lt PROVE u[j].msg # 0
        BY <1>0
    <2>1. j <= ls \/ j - ls \in 1 .. lt
        BY <1>0
    <2> QED
        BY <1>0, <1>2, <1>3, <2>1
<1>7. ASSUME NEW j \in 0 + 1 .. Len(u), u[j].pos = u[j].len - 1
      PROVE  /\ j < Len(u) => u[j + 1].pos = 0
             /\ \/ /\ u[j].first + Carried(u[j]) = more[u[j].msg].size
                   /\ j < Len(u) => u[j + 1].msg # u[j].msg
                \/ /\ j < Len(u)
                   /\ u[j + 1].msg = u[j].msg
                   /\ u[j + 1].first = u[j].first + Carried(u[j])
    <2>0. j \in Nat /\ j \in 1 .. ls + lt
        BY <1>0
    <2>1. CASE j < ls
        <3>1. /\ u[j] = s[j] /\ u[j + 1] = s[j + 1] /\ j < Len(u)
              /\ j \in 0 + 1 .. Len(s) /\ j < Len(s) /\ j \in 1 .. ls
            <4>1. j \in 1 .. ls + lt /\ j + 1 \in 1 .. ls + lt /\ j <= ls /\ j + 1 <= ls
                BY <1>0, <2>0, <2>1
            <4> QED
                BY <1>0, <2>0, <2>1, <4>1 DEF ls
        <3>2. /\ s[j + 1].pos = 0
              /\ \/ /\ s[j].first + Carried(s[j]) = msgs[s[j].msg].size
                    /\ s[j + 1].msg # s[j].msg
                 \/ /\ s[j + 1].msg = s[j].msg
                    /\ s[j + 1].first = s[j].first + Carried(s[j])
            BY <1>7, <3>1 DEF Gapless
        <3> QED
            BY <1>2, <3>1, <3>2
    <2>2. CASE j = ls
        <3>1. u[j] = s[j] /\ j \in 1 .. ls /\ j \in 0 + 1 .. Len(s) /\ ~(j < Len(s))
            BY <1>0, <2>0, <2>2 DEF ls
        <3>2. s[j].first + Carried(s[j]) = msgs[s[j].msg].size
            BY <1>7, <3>1 DEF Gapless
        <3>3. j < Len(u) => u[j + 1].pos = 0 /\ u[j + 1].msg = m0
            <4> SUFFICES ASSUME j < Len(u) PROVE u[j + 1].pos = 0 /\ u[j + 1].msg = m0
                OBVIOUS
            <4>1. lt > 0 /\ ls < ls + lt
                BY <1>0, <2>2
            <4> QED
                BY <1>1, <1>4, <2>2, <4>1
        <3> QED
            BY <1>2, <3>1, <3>2, <3>3
    <2>3. CASE j > ls
        <3>1. PICK k : k = j - ls /\ k \in 1 .. lt /\ u[j] = t[k] /\ lt > 0
            BY <1>0, <2>0, <2>3
        <3>2. (j < Len(u) <=> k < lt) /\ (k < lt => u[j + 1] = t[k + 1])
            <4>1. j < Len(u) <=> k < lt
                BY <1>0, <2>0, <3>1
            <4>2. ASSUME k < lt PROVE u[j + 1] = t[k + 1]
                <5>1. j + 1 \in 1 .. ls + lt /\ ~(j + 1 <= ls) /\ (j + 1) - ls = k + 1
                    BY <1>0, <2>0, <2>3, <3>1, <4>2
                <5> QED
                    BY <1>0, <5>1
            <4> QED
                BY <4>1, <4>2
        <3>3. CASE k < lt
            <4>1. k \in 1 .. lt - 1 /\ k + 1 \in 1 .. lt
                BY <1>0, <3>1, <3>3
            <4>2. t[k + 1].pos = 0 /\ t[k + 1].first = t[k].first + Carried(t[k])
                BY <1>1, <1>7, <3>1, <4>1 DEF Encoded, lt
            <4> QED
                BY <1>3, <3>1, <3>2, <3>3, <4>1, <4>2
        <3>4. CASE k = lt
            <4>1. t[k].first + Carried(t[k]) = size
                BY <1>1, <3>1, <3>4 DEF Encoded, lt
            <4>2. ~(j < Len(u))
                BY <1>0, <3>1, <3>2, <3>4
            <4> QED
                BY <1>1, <1>3, <3>1, <4>1, <4>2
        <3> QED
            BY <1>0, <3>1, <3>3, <3>4
    <2> QED
        BY <1>0, <2>0, <2>1, <2>2, <2>3
<1> QED
    BY <1>5, <1>6, <1>7 DEF Gapless, u

\* A new message waits behind the bytes of older ones, whose state stays.
LEMMA ProgressGrows ==
    ASSUME NEW s \in Seq(Bytes), NEW t \in Seq(Bytes), NEW msgs, NEW more, NEW m0 \in Nat, NEW size,
           NEW parts, Progress(parts, s, 0, msgs),
           \A i \in DOMAIN parts : parts[i].msg # m0, \A i \in DOMAIN s : s[i].msg # m0,
           m0 \notin DOMAIN msgs, DOMAIN more = DOMAIN msgs \cup {m0},
           \A m \in DOMAIN msgs : more[m] = msgs[m],
           (t = << >> /\ ~more[m0].accepted) \/ Encoded(t, m0, size)
    PROVE  Progress(parts, s \o t, 0, more)
<1> DEFINE u == s \o t
           ls == Len(s)
           lt == Len(t)
<1>0. /\ ls \in Nat /\ lt \in Nat /\ DOMAIN s = 1 .. ls /\ DOMAIN t = 1 .. lt /\ Len(u) = ls + lt
      /\ \A i \in 1 .. ls + lt : u[i] = IF i <= ls THEN s[i] ELSE t[i - ls]
    BY JoinBytes
<1>1. t # << >> => Encoded(t, m0, size)
    OBVIOUS
<1>2. \A j \in DOMAIN t : t[j].msg = m0
    <2> SUFFICES ASSUME NEW j \in DOMAIN t PROVE t[j].msg = m0
        OBVIOUS
    <2>1. t # << >>
        BY <1>0
    <2> QED
        BY <1>1, <2>1 DEF Encoded
<1> HIDE DEF u, ls, lt
<1>3. ASSUME NEW m \in DOMAIN msgs, msgs[m].accepted
      PROVE  \/ Done(parts, u, 0, m, msgs[m].size)
             \/ UnderWay(parts, u, 0, m)
             \/ Waiting(parts, u, 0, m)
    <2>0. m # m0
        OBVIOUS
    <2>1. CASE Done(parts, s, 0, m, msgs[m].size)
        <3>1. ASSUME NEW j \in 0 + 1 .. Len(u) PROVE u[j].msg # m
            <4>1. j \in 1 .. ls + lt /\ (j <= ls \/ j - ls \in 1 .. lt)
                BY <1>0
            <4>2. CASE j <= ls
                <5>1. j \in 0 + 1 .. Len(s) /\ u[j] = s[j]
                    BY <1>0, <4>1, <4>2 DEF ls
                <5> QED
                    BY <2>1, <5>1 DEF Done
            <4>3. CASE ~(j <= ls)
                BY <1>0, <1>2, <2>0, <4>1, <4>3
            <4> QED
                BY <4>2, <4>3
        <3> QED
            BY <2>1, <3>1 DEF Done
    <2>2. CASE UnderWay(parts, s, 0, m)
        <3>1. 0 < ls
            BY <2>2 DEF UnderWay, ls
        <3>2. 1 \in 1 .. ls + lt /\ u[1] = s[1] /\ 0 < Len(u) /\ 0 + 1 = 1
            BY <1>0, <3>1
        <3> QED
            BY <2>2, <3>2 DEF UnderWay
    <2>3. CASE Waiting(parts, s, 0, m)
        <3>1. PICK j \in 0 + 1 .. Len(s) :
                 s[j].msg = m /\ s[j].first = 0 /\ \A i \in 0 + 1 .. j - 1 : s[i].msg # m
            BY <2>3 DEF Waiting
        <3>2. /\ j \in 0 + 1 .. Len(u) /\ u[j] = s[j]
              /\ \A i \in 0 + 1 .. j - 1 : u[i] = s[i]
            BY <1>0, <3>1 DEF ls
        <3> QED
            BY <2>3, <3>1, <3>2 DEF Waiting
    <2> QED
        BY <1>3, <2>1, <2>2, <2>3 DEF Progress
<1>4. ASSUME more[m0].accepted PROVE Waiting(parts, u, 0, m0)
    <2>1. /\ Encoded(t, m0, size) /\ t # << >> /\ 1 \in DOMAIN t
          /\ t[1].first = 0 /\ t[1].msg = m0 /\ lt > 0
        <3>1. Encoded(t, m0, size) /\ t # << >>
            BY <1>4 DEF Encoded
        <3>2. lt > 0
            BY <1>0, <3>1 DEF lt
        <3> QED
            BY <1>0, <1>2, <3>1, <3>2 DEF Encoded
    <2>2. /\ ls + 1 \in 0 + 1 .. Len(u) /\ u[ls + 1] = t[1]
          /\ \A i \in 0 + 1 .. (ls + 1) - 1 : i \in DOMAIN s /\ u[i] = s[i]
        <3>1. /\ ls + 1 \in 1 .. ls + lt /\ ~(ls + 1 <= ls) /\ (ls + 1) - ls = 1
              /\ \A i \in 0 + 1 .. (ls + 1) - 1 : i \in 1 .. ls /\ i \in 1 .. ls + lt /\ i <= ls
            BY <1>0, <2>1
        <3> QED
            BY <1>0, <3>1
    <2> QED
        BY <2>1, <2>2 DEF Waiting
<1> QED
    BY <1>3, <1>4 DEF Progress, u

LEMMA JoinTwice ==
    ASSUME NEW s \in Seq(Bytes), NEW t \in Seq(Bytes), NEW u \in Seq(Bytes)
    PROVE  (s \o t) \o u = s \o (t \o u) /\ t \o u \in Seq(Bytes)
BY ConcatAssociative, ConcatProperties

\* What is put behind the stream is put behind everything that is pending.
LEMMA PendingGrows ==
    ASSUME TypeOK, NEW t \in Seq(Bytes), NEW v \in Seq(Bytes),
           stream' = (stream \o t) \o v, buffer' = buffer
    PROVE  /\ Pending \in Seq(Bytes) /\ stream' \in Seq(Bytes)
           /\ Pending' = Pending \o (t \o v)
<1>1. PICK w : w = t \o v
    OBVIOUS
<1>2. stream \in Seq(Bytes) /\ buffer \in Seq(Bytes)
    BY DEF TypeOK
<1>3. stream' = stream \o w /\ w \in Seq(Bytes)
    BY <1>1, <1>2, JoinTwice
<1>4. (buffer \o stream) \o w = buffer \o (stream \o w)
    BY <1>2, <1>3, JoinTwice
<1>5. buffer \o stream \in Seq(Bytes) /\ stream \o w \in Seq(Bytes)
    BY <1>2, <1>3, JoinBytes
<1> QED
    BY <1>1, <1>3, <1>4, <1>5 DEF Pending

\* Junk and the frames of a message.
LEMMA JunkAndFrames ==
    ASSUME NEW n \in Nat, NEW m0 \in Nat, NEW size, NEW v, v = << >> \/ Encoded(v, m0, size)
    PROVE  /\ v \in Seq(Bytes) /\ Junk(n) \in Seq(Bytes)
           /\ Junk(n) \o v \in Seq(Bytes) /\ Stream(Junk(n) \o v)
           /\ \A j \in DOMAIN (Junk(n) \o v) :
                 \/ (Junk(n) \o v)[j].msg = 0
                 \/ (Junk(n) \o v)[j].msg = m0 /\ Encoded(v, m0, size)
           /\ n = 0 => Junk(n) \o v = v
<1>1. Stream(v) /\ v \in Seq(Bytes)
    <2>1. CASE v = << >>
        BY <2>1 DEF Stream, Sound, Whole, Ordered
    <2>2. CASE Encoded(v, m0, size)
        BY <2>2 DEF Encoded, Stream
    <2> QED
        BY <2>1, <2>2
<1>2. /\ Stream(Junk(n)) /\ Junk(n) \in Seq(Bytes) /\ Len(Junk(n)) = n
      /\ \A i \in DOMAIN Junk(n) : Junk(n)[i].msg = 0
    BY JunkStream DEF Stream
<1>3. \A j \in DOMAIN v : v[j].msg = m0 /\ Encoded(v, m0, size)
    <2> SUFFICES ASSUME NEW j \in DOMAIN v PROVE v[j].msg = m0 /\ Encoded(v, m0, size)
        OBVIOUS
    <2>1. v # << >>
        BY <1>1
    <2>2. Encoded(v, m0, size)
        BY <2>1
    <2> QED
        BY <2>2 DEF Encoded
<1>4. Stream(Junk(n) \o v)
    BY <1>1, <1>2, <1>3, StreamConcat
<1>5. /\ Junk(n) \o v \in Seq(Bytes) /\ Len(v) \in Nat /\ Len(Junk(n) \o v) = n + Len(v)
      /\ \A i \in 1 .. n + Len(v) :
            (Junk(n) \o v)[i] = IF i <= n THEN Junk(n)[i] ELSE v[i - n]
    <2>1. PICK u : u = Junk(n) /\ u \in Seq(Bytes) /\ Len(u) = n
        BY <1>2
    <2>2. /\ u \o v \in Seq(Bytes) /\ Len(v) \in Nat /\ Len(u \o v) = Len(u) + Len(v)
          /\ \A i \in 1 .. Len(u) + Len(v) :
                (u \o v)[i] = IF i <= Len(u) THEN u[i] ELSE v[i - Len(u)]
        BY <1>1, <2>1, JoinBytes
    <2>3. /\ u \o v \in Seq(Bytes) /\ Len(v) \in Nat /\ Len(u \o v) = n + Len(v)
          /\ \A i \in 1 .. n + Len(v) : (u \o v)[i] = IF i <= n THEN u[i] ELSE v[i - n]
        BY <2>1, <2>2, Zenon
    <2> QED
        BY <2>1, <2>3, Zenon
<1>6. ASSUME NEW j \in DOMAIN (Junk(n) \o v)
      PROVE  \/ (Junk(n) \o v)[j].msg = 0
             \/ (Junk(n) \o v)[j].msg = m0 /\ Encoded(v, m0, size)
    <2>1. j \in 1 .. n + Len(v) /\ DOMAIN v = 1 .. Len(v) /\ DOMAIN Junk(n) = 1 .. n
        BY <1>1, <1>2, <1>5
    <2>2. CASE j <= n
        BY <1>2, <1>5, <2>1, <2>2
    <2>3. CASE ~(j <= n)
        <3>1. j - n \in DOMAIN v /\ (Junk(n) \o v)[j] = v[j - n]
            BY <1>5, <2>1, <2>3
        <3> QED
            BY <1>3, <3>1
    <2> QED
        BY <2>2, <2>3
<1>7. n = 0 => Junk(n) \o v = v
    <2> SUFFICES ASSUME n = 0 PROVE Junk(n) \o v = v
        OBVIOUS
    <2>1. Junk(n) = << >>
        BY <1>2
    <2> QED
        BY <1>1, <2>1, ConcatEmptySeq
<1> QED
    BY <1>1, <1>2, <1>4, <1>5, <1>6, <1>7

\* A message that is sent.
LEMMA TransmitStep ==
    ASSUME Inv, NEW size \in Nat, NEW n \in Nat, NEW bytes,
           bytes = << >> \/ Encoded(bytes, Len(sent) + 1, size),
           Transmit(size, bytes, n)
    PROVE  Inv'
<1>1. PICK m0, x, more, t :
         /\ m0 = Len(sent) + 1 /\ x = [size |-> size, accepted |-> bytes # << >>]
         /\ more = Append(sent, x) /\ t = Junk(n) \o bytes
    OBVIOUS
<1>2. /\ sent' = more /\ stream' = (stream \o Junk(n)) \o bytes
      /\ clean' = (clean /\ n = 0)
      /\ buffer' = buffer /\ delivered' = delivered /\ lost' = lost
    BY <1>1 DEF Transmit
<1>3. TypeOK /\ sent \in Seq(Messages) /\ x \in Messages
    BY <1>1 DEF Inv, TypeOK, Messages
<1>4. /\ more \in Seq(Messages) /\ m0 \in Nat \ {0} /\ DOMAIN more = DOMAIN sent \cup {m0}
      /\ more[m0] = x /\ \A m \in DOMAIN sent : m \in Nat \ {0} /\ m < m0 /\ more[m] = sent[m]
    BY <1>1, <1>3, OneMoreMessage
<1>5. bytes = << >> \/ Encoded(bytes, m0, size)
    BY <1>1
<1>6. /\ Encoded(bytes, m0, size) => x.accepted /\ x.size = size
      /\ bytes = << >> => ~x.accepted
    <2>1. x.size = size /\ (x.accepted <=> bytes # << >>)
        BY <1>1
    <2> QED
        BY <2>1 DEF Encoded
<1>7. /\ bytes \in Seq(Bytes) /\ Junk(n) \in Seq(Bytes) /\ t \in Seq(Bytes) /\ Stream(t)
      /\ \A j \in DOMAIN t : t[j].msg = 0 \/ (t[j].msg = m0 /\ Encoded(bytes, m0, size))
      /\ n = 0 => t = bytes
    <2>1. m0 \in Nat
        BY <1>4
    <2>2. /\ bytes \in Seq(Bytes) /\ Junk(n) \in Seq(Bytes)
          /\ Junk(n) \o bytes \in Seq(Bytes) /\ Stream(Junk(n) \o bytes)
          /\ \A j \in DOMAIN (Junk(n) \o bytes) :
                \/ (Junk(n) \o bytes)[j].msg = 0
                \/ (Junk(n) \o bytes)[j].msg = m0 /\ Encoded(bytes, m0, size)
          /\ n = 0 => Junk(n) \o bytes = bytes
        BY <1>5, <2>1, JunkAndFrames
    <2> QED
        BY <1>1, <2>2, Zenon
<1>8. Pending \in Seq(Bytes) /\ stream' \in Seq(Bytes) /\ Pending' = Pending \o t
    BY <1>1, <1>2, <1>3, <1>7, PendingGrows
<1>9. TypeOK'
    <2>1. sent' \in Seq([size : Nat, accepted : BOOLEAN])
        BY <1>2, <1>4 DEF Messages
    <2>2. clean' \in BOOLEAN /\ lost' \in BOOLEAN
        BY <1>2, <1>3 DEF TypeOK
    <2> QED
        BY <1>2, <1>3, <1>8, <2>1, <2>2 DEF TypeOK
<1>10. /\ Stream(Pending) /\ \A j \in DOMAIN Pending : Pending[j].msg # 0 => Accepted(sent, Pending[j].msg)
       /\ \A i \in DOMAIN delivered : Accepted(sent, delivered[i].msg)
       /\ InOrder(delivered) /\ Ahead(delivered, Pending, 0)
       /\ clean => Gapless(Pending, 0, sent)
       /\ clean /\ ~lost => Progress(delivered, Pending, 0, sent)
    BY DEF Inv, Holds
<1>11. \A m : Accepted(sent, m) => Accepted(more, m) /\ m < m0
    BY <1>4 DEF Accepted
<1>12. \A j \in DOMAIN t : t[j].msg \in {0, m0}
    BY <1>7
<1>13. Stream(Pending')
    BY <1>4, <1>7, <1>8, <1>10, <1>11, <1>12, StreamGrows
<1>14. \A j \in DOMAIN Pending' : Pending'[j].msg # 0 => Accepted(sent', Pending'[j].msg)
    <2> SUFFICES ASSUME NEW j \in DOMAIN (Pending \o t), (Pending \o t)[j].msg # 0
                 PROVE  Accepted(more, (Pending \o t)[j].msg)
        BY <1>2, <1>8
    <2>1. /\ Len(Pending) \in Nat /\ Len(t) \in Nat /\ Len(Pending \o t) = Len(Pending) + Len(t)
          /\ Pending \o t \in Seq(Bytes)
          /\ \A i \in 1 .. Len(Pending) + Len(t) :
                (Pending \o t)[i] = IF i <= Len(Pending) THEN Pending[i] ELSE t[i - Len(Pending)]
        BY <1>7, <1>8, JoinBytes
    <2>2. /\ j \in 1 .. Len(Pending) + Len(t)
          /\ DOMAIN Pending = 1 .. Len(Pending) /\ DOMAIN t = 1 .. Len(t)
        BY <1>7, <1>8, <2>1
    <2>3. CASE j <= Len(Pending)
        <3>1. j \in DOMAIN Pending /\ (Pending \o t)[j] = Pending[j]
            BY <2>1, <2>2, <2>3
        <3> QED
            BY <1>10, <1>11, <3>1
    <2>4. CASE ~(j <= Len(Pending))
        <3>1. j - Len(Pending) \in DOMAIN t /\ (Pending \o t)[j] = t[j - Len(Pending)]
            BY <2>1, <2>2, <2>4
        <3>2. (Pending \o t)[j].msg = m0 /\ Encoded(bytes, m0, size)
            BY <1>7, <3>1
        <3> QED
            BY <1>4, <1>6, <3>2 DEF Accepted
    <2> QED
        BY <2>3, <2>4
<1>15. Ahead(delivered, Pending \o t, 0)
    BY <1>4, <1>7, <1>8, <1>10, <1>11, <1>12, AheadGrows
<1>16. \A i \in DOMAIN Pending : clean => Pending[i].msg \in DOMAIN sent /\ Pending[i].msg # m0
    <2> SUFFICES ASSUME NEW i \in DOMAIN Pending, clean
                 PROVE  Pending[i].msg \in DOMAIN sent /\ Pending[i].msg # m0
        OBVIOUS
    <2>1. i \in 0 + 1 .. Len(Pending)
        BY <1>8
    <2>2. Accepted(sent, Pending[i].msg)
        BY <1>10, <2>1 DEF Gapless
    <2> QED
        BY <1>4, <2>2 DEF Accepted
<1>17. m0 \notin DOMAIN sent
    BY <1>4
<1>18. ASSUME clean, n = 0 PROVE Gapless(Pending \o t, 0, more)
    <2>1. t = << >> \/ (Encoded(t, m0, size) /\ more[m0].size = size)
        <3>1. t = bytes
            BY <1>7, <1>18
        <3>2. CASE bytes = << >>
            BY <3>1, <3>2
        <3>3. CASE Encoded(bytes, m0, size)
            BY <1>4, <1>6, <3>1, <3>3
        <3> QED
            BY <1>5, <3>2, <3>3
    <2> QED
        BY <1>4, <1>7, <1>8, <1>10, <1>16, <1>17, <1>18, <2>1, GaplessGrows
<1>19. ASSUME clean, ~lost, n = 0 PROVE Progress(delivered, Pending \o t, 0, more)
    <2>1. (t = << >> /\ ~more[m0].accepted) \/ Encoded(t, m0, size)
        <3>1. t = bytes
            BY <1>7, <1>19
        <3>2. CASE bytes = << >>
            BY <1>4, <1>6, <3>1, <3>2
        <3>3. CASE Encoded(bytes, m0, size)
            BY <3>1, <3>3
        <3> QED
            BY <1>5, <3>2, <3>3
    <2>2. \A i \in DOMAIN delivered : delivered[i].msg # m0
        BY <1>10, <1>17 DEF Accepted
    <2> QED
        BY <1>4, <1>7, <1>8, <1>10, <1>16, <1>17, <1>19, <2>1, <2>2, ProgressGrows
<1>20. Holds(delivered, Pending \o t, 0, more, clean /\ n = 0, ~lost)
    BY <1>10, <1>11, <1>15, <1>18, <1>19 DEF Holds
<1>21. Holds(delivered', Pending', 0, sent', clean', ~lost')
    BY <1>2, <1>8, <1>20
<1>22. DecoderKeepsPlace' /\ (clean' => Len(buffer') <= HeaderSize + PrefixSize + ChunkSize - 1)
    BY <1>2 DEF Inv, DecoderKeepsPlace, StartsWithFrame, MagicAt
<1> QED
    BY <1>9, <1>13, <1>14, <1>21, <1>22 DEF Inv

-----------------------------------------------------------------------------
(* The theorems.                                                            *)

LEMMA InvInit == Init => Inv
<1> SUFFICES ASSUME Init PROVE Inv
    OBVIOUS
<1>1. /\ sent = << >> /\ stream = << >> /\ buffer = << >> /\ delivered = << >>
      /\ clean = TRUE /\ lost = FALSE
    BY DEF Init
<1>2. TypeOK
    <2>1. << >> \in Seq([size : Nat, accepted : BOOLEAN]) /\ << >> \in Seq(Parts) /\ << >> \in Seq(Bytes)
        BY EmptySeq
    <2>2. TRUE \in BOOLEAN /\ FALSE \in BOOLEAN
        OBVIOUS
    <2> QED
        BY <1>1, <2>1, <2>2 DEF TypeOK
<1>3. Pending = << >>
    BY <1>1, <1>2, ConcatEmptySeq DEF Pending, TypeOK
<1>4. Stream(Pending)
    BY <1>3 DEF Stream, Sound, Whole, Ordered
<1>5. Len(Pending) = 0 /\ DOMAIN Pending = {} /\ DOMAIN delivered = {} /\ DOMAIN sent = {}
    BY <1>1, <1>3
<1>6. Holds(delivered, Pending, 0, sent, clean, ~lost)
    BY <1>5 DEF Holds, InOrder, Ahead, Gapless, Progress
<1>7. DecoderKeepsPlace
    BY <1>1 DEF DecoderKeepsPlace
<1>8. Len(buffer) <= HeaderSize + PrefixSize + ChunkSize - 1
    BY <1>1, SizesAssumption
<1> QED
    BY <1>2, <1>4, <1>5, <1>6, <1>7, <1>8 DEF Inv

LEMMA InvNext ==
    ASSUME Inv, [Next]_vars
    PROVE  Inv'
<1>0. Len(sent) + 1 \in Nat \ {0} /\ 0 \in Nat /\ Payloads \subseteq Nat /\ JunkSizes \subseteq Nat
    BY StreamAssumption DEF Inv, TypeOK
<1>1. ASSUME NEW type \in Types, NEW size \in Payloads, NEW n \in JunkSizes,
             SendMessage(type, size, n)
      PROVE  Inv'
    <2>1. size \in Nat /\ n \in Nat
        BY <1>0
    <2>2. \/ EncodeSync(Len(sent) + 1, type, size) = << >>
          \/ Encoded(EncodeSync(Len(sent) + 1, type, size), Len(sent) + 1, size)
        BY <1>0, <2>1, EncodeSyncTiles
    <2>3. Transmit(size, EncodeSync(Len(sent) + 1, type, size), n)
        BY <1>1 DEF SendMessage
    <2> QED
        BY <2>1, <2>2, <2>3, TransmitStep
<1>2. ASSUME NEW n \in JunkSizes, SendHeartbeat(n)
      PROVE  Inv'
    <2>1. Encoded(createHeartbeatFrame(Len(sent) + 1), Len(sent) + 1, 0)
        <3>1. 0 \in 0 .. ChunkSize
            BY SizesAssumption
        <3> QED
            BY <1>0, <3>1, EncodedFrame
    <2>2. Transmit(0, createHeartbeatFrame(Len(sent) + 1), n)
        BY <1>2 DEF SendHeartbeat
    <2> QED
        BY <1>0, <2>1, <2>2, TransmitStep
<1>3. ASSUME NEW n \in 1 .. Min({ReadSize, Len(stream)}), onSocketRecv(n)
      PROVE  Inv'
    BY <1>3, ReadStep
<1>4. CASE UNCHANGED vars
    <2>1. /\ sent' = sent /\ stream' = stream /\ buffer' = buffer /\ delivered' = delivered
          /\ clean' = clean /\ lost' = lost
        BY <1>4 DEF vars
    <2>2. Pending' = Pending
        BY <2>1 DEF Pending
    <2>3. TypeOK' /\ DecoderKeepsPlace'
        BY <2>1 DEF Inv, TypeOK, DecoderKeepsPlace, StartsWithFrame, MagicAt
    <2>4. Holds(delivered', Pending', 0, sent', clean', ~lost')
        BY <2>1, <2>2 DEF Inv
    <2> QED
        BY <2>1, <2>2, <2>3, <2>4 DEF Inv
<1> QED
    BY <1>1, <1>2, <1>3, <1>4 DEF Next

LEMMA InvAlways == Spec => []Inv
BY InvInit, InvNext, PTL DEF Spec

\* What is sent, pending in the stream and collected in the buffer are
\* sequences of messages and of bytes, whatever is read when.
THEOREM SessionTypeCorrect == Spec => []TypeOK
<1>1. Inv => TypeOK
    BY DEF Inv
<1> QED
    BY <1>1, InvAlways, PTL

\* The router is handed the messages, and the parts of one that EncodeSync cut
\* into frames, in the order SendMessage was given them, none twice and none
\* that was refused, for every size of message, frame and read.
THEOREM SessionDeliversInOrder == Spec => []DeliveredInOrder
<1>1. Inv => DeliveredInOrder
    BY DEF Inv, Holds, InOrder, Before, Accepted, DeliveredInOrder
<1> QED
    BY <1>1, InvAlways, PTL

\* A buffer that starts at a frame of a stream that has been read to its end
\* starts with that whole frame.
LEMMA NothingLeft ==
    ASSUME Inv, clean, stream = << >>
    PROVE  buffer = << >> /\ Pending = << >>
<1>1. buffer \in Seq(Bytes) /\ Pending = buffer
    BY ConcatEmptySeq DEF Inv, TypeOK, Pending
<1>2. SUFFICES ASSUME buffer # << >> PROVE FALSE
    BY <1>1
<1>3. 1 \in DOMAIN buffer /\ Head(buffer) = buffer[1] /\ 1 \in 0 + 1 .. Len(buffer)
      /\ Len(buffer) \in Nat /\ buffer[1] \in Bytes
    BY <1>1, <1>2
<1>4. Head(buffer).pos = 0 /\ ~StartsWithFrame(buffer)
    BY <1>2 DEF Inv, DecoderKeepsPlace
<1>5. Stream(buffer) /\ Gapless(buffer, 0, sent)
    BY <1>1 DEF Inv, Holds
<1>6. buffer[1].msg # 0 /\ buffer[1].pos = 0
    BY <1>3, <1>4, <1>5 DEF Gapless
<1>7. buffer[1].len \in Nat /\ HeaderSize <= buffer[1].len
    BY <1>3, <1>5, <1>6 DEF Stream, Sound, FrameByte, Bytes
<1>8. /\ 1 + (buffer[1].len - buffer[1].pos) - 1 <= Len(buffer)
      /\ \A j \in 1 .. 1 + (buffer[1].len - buffer[1].pos) - 1 :
            SameFrame(buffer[1], buffer[j]) /\ buffer[j].pos = buffer[1].pos + (j - 1)
    BY <1>3, <1>5, <1>6 DEF Stream, Whole
<1>9. buffer[1].len <= Len(buffer) /\ HeaderSize <= Len(buffer)
    BY <1>3, <1>6, <1>7, <1>8, SizesAssumption
<1>10. MagicAt(buffer, 0)
    <2>1. 0 + MagicSize <= Len(buffer)
        BY <1>3, <1>9, SizesAssumption
    <2>2. ASSUME NEW i \in 1 .. MagicSize
          PROVE  buffer[0 + i].msg # 0 /\ buffer[0 + i].pos = i - 1
        <3>1. i \in 1 .. 1 + (buffer[1].len - buffer[1].pos) - 1 /\ 0 + i = i
            BY <1>6, <1>7, SizesAssumption
        <3>2. buffer[i].msg = buffer[1].msg /\ buffer[i].pos = 0 + (i - 1)
            BY <1>6, <1>8, <3>1 DEF SameFrame
        <3> QED
            BY <1>6, <3>1, <3>2
    <2> QED
        BY <2>1, <2>2 DEF MagicAt
<1> QED
    BY <1>4, <1>9, <1>10 DEF StartsWithFrame

\* If nothing but frames was sent and no read dropped its messages, then once
\* all bytes have been read every message SendMessage accepted has reached
\* the router whole: decoding undoes encoding, however the reads cut the stream.
THEOREM SessionRoundTrip == Spec => []RoundTrip
<1>1. ASSUME Inv, clean, ~lost, stream = << >>, NEW m \in DOMAIN sent, sent[m].accepted
      PROVE  Arrived(m)
    <2>1. Pending = << >> /\ Len(Pending) = 0
        BY <1>1, NothingLeft
    <2>2. Progress(delivered, Pending, 0, sent)
        BY <1>1 DEF Inv, Holds
    <2>3. ~UnderWay(delivered, Pending, 0, m)
        BY <2>1 DEF UnderWay
    <2>4. ~Waiting(delivered, Pending, 0, m)
        BY <2>1 DEF Waiting
    <2>5. Done(delivered, Pending, 0, m, sent[m].size)
        BY <1>1, <2>2, <2>3, <2>4 DEF Progress
    <2> QED
        BY <2>5 DEF Done, Arrived
<1>2. Inv => RoundTrip
    BY <1>1 DEF RoundTrip
<1> QED
    BY <1>2, InvAlways, PTL

\* In a stream of frames onSocketRecv always leaves read_buffer_ at the start of
\* a frame that has not arrived completely, also when it drops messages.
THEOREM SessionKeepsPlace == Spec => []DecoderKeepsPlace
<1>1. Inv => DecoderKeepsPlace
    BY DEF Inv
<1> QED
    BY <1>1, InvAlways, PTL

\* In a stream of frames as EncodeSync and createHeartbeatFrame write them,
\* onSocketRecv always leaves less in read_buffer_ than the longest frame: room
\* for that and for one read is enough for such a stream, however it is cut.
\* Streams with other bytes, or with frames longer than the codec's, are not
\* covered.
THEOREM SessionLeftoverShort == Spec => []LeftoverIsShort
<1>1. ASSUME Inv, clean PROVE Len(buffer) < HeaderSize + PrefixSize + ChunkSize
    <2>1. Len(buffer) \in Nat /\ Len(buffer) <= HeaderSize + PrefixSize + ChunkSize - 1
        BY <1>1 DEF Inv, TypeOK
    <2> QED
        BY <2>1, SizesAssumption
<1>2. Inv => LeftoverIsShort
    BY <1>1 DEF LeftoverIsShort
<1> QED
    BY <1>2, InvAlways, PTL

\* In a stream of frames a read that is handed at least one whole frame and
\* passes nothing on to the router leaves a frame behind whose header has
\* arrived: only then does onSocketRecv drop what DecodeSync decoded.
THEOREM SessionLossNeedsPartialFrame == Spec => LossNeedsPartialFrame
<1>1. ASSUME Inv, Next, clean, sent' = sent,
             StartsWithFrame(buffer \o SubSeq(stream, 1, Len(stream) - Len(stream')))
      PROVE  delivered' # delivered \/ Len(buffer') >= HeaderSize
    <2>1. sent \in Seq(Messages) /\ stream \in Seq(Bytes)
        BY <1>1 DEF Inv, TypeOK, Messages
    <2>2. ASSUME NEW size, NEW bytes, NEW n, Transmit(size, bytes, n) PROVE FALSE
        <3>1. sent = Append(sent, [size |-> size, accepted |-> bytes # << >>])
            BY <1>1, <2>2 DEF Transmit
        <3>2. Len(sent) = Len(sent) + 1 /\ Len(sent) \in Nat
            BY <2>1, <3>1
        <3> QED
            BY <3>2
    <2>3. PICK n \in 1 .. Min({ReadSize, Len(stream)}) : onSocketRecv(n)
        BY <1>1, <2>2, Zenon DEF Next, SendMessage, SendHeartbeat
    <2>4. Len(stream) - Len(stream') = n
        <3>1. n \in 0 .. Len(stream) /\ Len(stream) \in Nat
            BY <2>1, MinOfTwo, StreamAssumption
        <3>2. stream' = SubSeq(stream, n + 1, Len(stream))
            BY <2>3 DEF onSocketRecv
        <3>3. Len(stream') = Len(stream) - n
            BY <2>1, <3>1, <3>2, RestOfBytes
        <3> QED
            BY <3>1, <3>3
    <2> QED
        BY <1>1, <2>3, <2>4, ReadStep
<1>2. Inv /\ [Next]_vars =>
         [clean /\ sent' = sent
             /\ StartsWithFrame(buffer \o SubSeq(stream, 1, Len(stream) - Len(stream')))
          => delivered' # delivered \/ Len(buffer') >= HeaderSize]_vars
    BY <1>1
<1> QED
    BY <1>2, InvAlways, PTL DEF Spec, LossNeedsPartialFrame

-----------------------------------------------------------------------------
(* The codec by itself.                                                     *)

\* What holds at the start of the frames of one message.
LEMMA EncodedHolds ==
    ASSUME NEW m \in Nat \ {0}, NEW size, NEW s, Encoded(s, m, size),
           NEW msgs, msgs = [k \in {m} |-> [size |-> size, accepted |-> TRUE]]
    PROVE  /\ Stream(s) /\ Begins(s, s)
           /\ \A j \in DOMAIN s : Accepted(msgs, s[j].msg)
           /\ Holds(<< >>, s, 0, msgs, TRUE, TRUE)
<1>0. Stream(s) /\ s \in Seq(Bytes) /\ DOMAIN msgs = {m} /\ msgs[m].size = size /\ msgs[m].accepted
    BY DEF Encoded, Stream
<1>1. Begins(s, s)
    BY <1>0 DEF Begins
<1>2. \A j \in DOMAIN s : Accepted(msgs, s[j].msg)
    BY <1>0 DEF Encoded, Accepted
<1>3. PICK e : e = << >>
    OBVIOUS
<1>4. e \in Seq(Bytes) /\ e \o s = s /\ Len(e) = 0 /\ DOMAIN e = {}
    BY <1>0, <1>3, EmptySeq, ConcatEmptySeq
<1>5. Gapless(e, 0, e) /\ Progress(e, e, 0, e)
    BY <1>4 DEF Gapless, Progress
<1>6. /\ m \in Nat /\ m # 0 /\ m \notin DOMAIN e /\ DOMAIN msgs = DOMAIN e \cup {m}
      /\ \A k \in DOMAIN e : msgs[k] = e[k] /\ e[k].msg \in DOMAIN e /\ e[k].msg # m
      /\ Encoded(s, m, size) /\ msgs[m].size = size
    BY <1>0, <1>4
<1>7. Gapless(e \o s, 0, msgs)
    <2>1. s = << >> \/ (Encoded(s, m, size) /\ msgs[m].size = size)
        BY <1>6
    <2> QED
        BY <1>0, <1>4, <1>5, <1>6, <2>1, GaplessGrows
<1>8. Progress(e, e \o s, 0, msgs)
    <2>1. (s = << >> /\ ~msgs[m].accepted) \/ Encoded(s, m, size)
        BY <1>6
    <2> QED
        BY <1>0, <1>4, <1>5, <1>6, <2>1, ProgressGrows
<1>9. Gapless(s, 0, msgs) /\ Progress(e, s, 0, msgs)
    BY <1>4, <1>7, <1>8
<1>10. Holds(e, s, 0, msgs, TRUE, TRUE)
    BY <1>4, <1>9 DEF Holds, InOrder, Ahead
<1> QED
    BY <1>0, <1>1, <1>2, <1>3, <1>10

\* Where the loop ends in the frames of one message.
LEMMA EncodedEnd ==
    ASSUME NEW m \in Nat \ {0}, NEW size, NEW s, Encoded(s, m, size),
           NEW msgs, NEW o \in 0 .. Len(s), Gapless(s, o, msgs), FrameAt(s, o).at # "frame"
    PROVE  o = Len(s) /\ FrameAt(s, o).at = "end" /\ FrameAt(s, o).cost = o
<1>0. /\ Stream(s) /\ s \in Seq(Bytes) /\ Sound(s) /\ Begins(s, s)
      /\ Len(s) \in Nat /\ DOMAIN s = 1 .. Len(s)
    BY DEF Encoded, Stream, Begins
<1>1. HeaderSize \in Nat \ {0} /\ o \in Nat
    BY SizesAssumption
<1>2. ASSUME o < Len(s)
      PROVE  /\ o + HeaderSize <= Len(s) /\ s[o + 1].len \in Nat
             /\ ~(o + s[o + 1].len > Len(s))
    <2>1. o + 1 \in DOMAIN s /\ o + 1 \in o + 1 .. Len(s)
        BY <1>0, <1>1, <1>2
    <2>2. s[o + 1].pos = 0 /\ s[o + 1].msg # 0 /\ s[o + 1] \in Bytes
        BY <1>0, <1>2, <2>1 DEF Gapless
    <2>3. s[o + 1].len \in Nat /\ HeaderSize <= s[o + 1].len
        BY <1>0, <2>1, <2>2 DEF Sound, FrameByte, Bytes
    <2>4. (o + 1) + (s[o + 1].len - s[o + 1].pos) - 1 <= Len(s)
        BY <1>0, <2>1, <2>2 DEF Stream, Whole
    <2> QED
        BY <1>0, <1>1, <2>2, <2>3, <2>4
<1>3. FrameAt(s, o).at # "junk"
    BY <1>0, NoJunkFound
<1>4. FrameAt(s, o).at # "partial"
    <2> SUFFICES ASSUME FrameAt(s, o).at = "partial" PROVE FALSE
        OBVIOUS
    <2>1. o + HeaderSize <= Len(s) /\ o + s[o + 1].len > Len(s)
        BY <1>0, FrameCases
    <2>2. o < Len(s)
        BY <1>0, <1>1, <2>1
    <2> QED
        BY <1>2, <2>1, <2>2
<1>5. FrameAt(s, o).at = "end" /\ FrameAt(s, o).cost = o /\ o + HeaderSize > Len(s)
    BY <1>0, <1>3, <1>4, FrameCases
<1>6. ~(o < Len(s))
    BY <1>0, <1>1, <1>2, <1>5
<1>7. o = Len(s)
    <2> DEFINE ls == Len(s)
    <2>1. o \in 0 .. ls /\ ls \in Nat /\ ~(o < ls)
        BY <1>0, <1>6
    <2> HIDE DEF ls
    <2>2. o = ls
        BY <2>1
    <2> QED
        BY <2>2 DEF ls
<1> QED
    BY <1>5, <1>7

\* What EncodeSync makes of a message it accepts, DecodeSync turns into parts
\* that hold its whole payload in order, and all of the bytes are used up.
THEOREM DecodeUndoesEncode ==
    ASSUME NEW m \in Nat \ {0}, NEW type \in Types, NEW size \in Nat, ~EncodeRefuses(type, size)
    PROVE  LET input == EncodeSync(m, type, size)
               result == DecodeSync(input)
           IN  /\ result.success /\ result.cost = Len(input)
               /\ Tiles(result.messages, m, size)
               /\ \A i \in DOMAIN result.messages : result.messages[i].msg = m
<1>1. PICK s, msgs : /\ s = EncodeSync(m, type, size)
                     /\ msgs = [k \in {m} |-> [size |-> size, accepted |-> TRUE]]
    OBVIOUS
<1>2. Encoded(s, m, size) /\ s # << >>
    BY <1>1, EncodeSyncTiles DEF Encoded
<1>3. /\ Stream(s) /\ Begins(s, s) /\ s \in Seq(Bytes) /\ Sound(s) /\ Len(s) \in Nat
      /\ \A j \in DOMAIN s : Accepted(msgs, s[j].msg)
      /\ Holds(<< >>, s, 0, msgs, TRUE, TRUE)
    <2>1. /\ Stream(s) /\ Begins(s, s) /\ \A j \in DOMAIN s : Accepted(msgs, s[j].msg)
          /\ Holds(<< >>, s, 0, msgs, TRUE, TRUE)
        BY <1>1, <1>2, EncodedHolds
    <2>2. s \in Seq(Bytes) /\ Sound(s)
        BY <2>1 DEF Stream
    <2>3. Len(s) \in Nat
        BY <2>2
    <2> QED
        BY <2>1, <2>2, <2>3, Zenon
<1> DEFINE S == {x \in (0 .. Len(s)) \X Seq(Parts) : Holds(x[2], s, x[1], msgs, TRUE, TRUE)}
           result == DecodeSync(s)
<1>4. << >> \in Seq(Parts) /\ <<0, << >>>> \in S
    <2>1. << >> \in Seq(Parts) /\ 0 \in 0 .. Len(s)
        BY <1>3
    <2> QED
        BY <1>3, <2>1
<1>5. ASSUME NEW o \in 0 .. Len(s), NEW D \in Seq(Parts), <<o, D>> \in S,
             FrameAt(s, o).at = "frame"
      PROVE  LET c == FrameAt(s, o).cost
             IN  <<c, Append(D, Decoded(SubSeq(s, o + 1, c)))>> \in S
    <2> DEFINE c == FrameAt(s, o).cost
               part == Decoded(SubSeq(s, o + 1, c))
               E == Append(D, part)
    <2>1. Holds(D, s, o, msgs, TRUE, TRUE)
        BY <1>5
    <2>2. c \in 0 .. Len(s) /\ part \in Parts
        BY <1>3, <1>5, FrameInStream
    <2>3. TRUE \in BOOLEAN
        OBVIOUS
    <2>4. Holds(E, s, c, msgs, TRUE, TRUE)
        BY <1>3, <1>5, <2>1, <2>3, RoundHolds
    <2>5. E \in Seq(Parts)
        BY <2>2, AppendPart
    <2> HIDE DEF c, E
    <2> QED
        BY <2>2, <2>4, <2>5 DEF c, E
<1> HIDE DEF S
<1>6. /\ result.messages \in Seq(Parts) /\ result.success \in BOOLEAN
      /\ \E o \in 0 .. Len(s) :
            /\ <<o, << >> \o result.messages>> \in S
            /\ FrameAt(s, o).at # "frame"
            /\ result.cost = FrameAt(s, o).cost
            /\ result.success => FrameAt(s, o).at = "end"
            /\ \/ result.success \/ FrameAt(s, o).at # "end"
               \/ o = 0 /\ result.messages = << >>
    BY <1>3, <1>4, <1>5, DecodingRule
<1> HIDE DEF result
<1>7. << >> \o result.messages = result.messages
    BY <1>6, ConcatEmptySeq
<1>8. PICK o \in 0 .. Len(s) :
         /\ Holds(result.messages, s, o, msgs, TRUE, TRUE)
         /\ FrameAt(s, o).at # "frame" /\ result.cost = FrameAt(s, o).cost
         /\ \/ result.success \/ FrameAt(s, o).at # "end"
            \/ o = 0 /\ result.messages = << >>
    BY <1>6, <1>7 DEF S
<1>9. /\ Gapless(s, o, msgs) /\ Progress(result.messages, s, o, msgs)
      /\ \A i \in DOMAIN result.messages : Accepted(msgs, result.messages[i].msg)
    BY <1>8 DEF Holds
<1>10. o = Len(s) /\ FrameAt(s, o).at = "end" /\ FrameAt(s, o).cost = o
    <2>1. Encoded(s, m, size) /\ Gapless(s, o, msgs) /\ o \in 0 .. Len(s)
        BY <1>2, <1>9
    <2>2. FrameAt(s, o).at # "frame"
        BY <1>8
    <2> QED
        BY <2>1, <2>2, EncodedEnd
<1>11. o # 0
    BY <1>2, <1>3, <1>10
<1>12. result.success /\ result.cost = Len(s)
    BY <1>8, <1>10, <1>11
<1>13. DOMAIN msgs = {m} /\ msgs[m].accepted /\ msgs[m].size = size
    BY <1>1
<1>14. Tiles(result.messages, m, size)
    <2>1. ~UnderWay(result.messages, s, o, m)
        BY <1>3, <1>10 DEF UnderWay
    <2>2. ~Waiting(result.messages, s, o, m)
        BY <1>3, <1>10 DEF Waiting
    <2> QED
        BY <1>9, <1>13, <2>1, <2>2 DEF Progress, Done
<1>15. \A i \in DOMAIN result.messages : result.messages[i].msg = m
    BY <1>9, <1>13 DEF Accepted
<1> QED
    BY <1>1, <1>12, <1>14, <1>15 DEF result
=============================================================================
