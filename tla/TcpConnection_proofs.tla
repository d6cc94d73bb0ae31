------------------------ MODULE TcpConnection_proofs ------------------------
(***************************************************************************)
(* What holds of a connection however many calls of Send and Close are     *)
(* made, in any interleaving with the socket: one write at a time, and the *)
(* messages on the wire in the order of the calls.                         *)
(***************************************************************************)
EXTENDS TcpConnection, SequenceTheorems, TLAPS

-----------------------------------------------------------------------------
(* The inductive invariant.                                                 *)

\* A write has completed and its handler has not run yet.
WriteDone == \E i \in Submitted("write") : tasks[i].ok

\* The number of messages that have left the queue: a message on the wire is
\* still its front until the handler of its write has run.
Popped == IF WriteDone THEN Len(wire) - 1 ELSE Len(wire)

\* The queue goes on where the wire ends.
QueueFollowsWire == ~closed => \A i \in DOMAIN writeQ : writeQ[i] = Popped + i

\* The submitted messages go on where the queue ends.
SendsFollowQueue ==
    ~closed =>
        /\ Popped + Len(writeQ) <= sent
        /\ \A i \in Submitted("send") : tasks[i].msg \in Popped + Len(writeQ) + 1 .. sent
        /\ \A m \in Popped + Len(writeQ) + 1 .. sent :
              \E i \in Submitted("send") : tasks[i].msg = m
        /\ \A i, j \in Submitted("send") : i < j => tasks[i].msg < tasks[j].msg

WriteInv == OneWriteAtATime /\ QueueFollowsWire /\ SendsFollowQueue

Inv == TypeOK /\ WriteInv /\ WireInOrder /\ CloseNotifiedOnce

-----------------------------------------------------------------------------
(* The strand's queue.                                                      *)

\* Appending a task adds its place to those of its kind.
LEMMA AppendTask ==
    ASSUME TypeOK, NEW t \in Tasks, tasks' = Append(tasks, t)
    PROVE  /\ tasks' \in Seq(Tasks) /\ Len(tasks') = Len(tasks) + 1
           /\ \A i \in DOMAIN tasks : i \in DOMAIN tasks' /\ tasks'[i] = tasks[i]
           /\ Len(tasks) + 1 \in DOMAIN tasks' /\ tasks'[Len(tasks) + 1] = t
           /\ \A i \in DOMAIN tasks' : i \in DOMAIN tasks \/ i = Len(tasks) + 1
           /\ \A i \in DOMAIN tasks : i \in Nat /\ i < Len(tasks) + 1
BY AppendProperties DEF TypeOK

\* Taking the first task moves the others up.
LEMMA TakeTask ==
    ASSUME TypeOK, tasks # << >>, tasks' = Tail(tasks)
    PROVE  /\ tasks' \in Seq(Tasks) /\ Head(tasks) = tasks[1] /\ 1 \in DOMAIN tasks
           /\ tasks[1] \in Tasks
           /\ \A i \in DOMAIN tasks' : i \in Nat /\ i + 1 \in DOMAIN tasks /\ tasks'[i] = tasks[i + 1]
           /\ \A i \in DOMAIN tasks :
                 i \in Nat /\ (i = 1 \/ (i > 1 /\ i - 1 \in DOMAIN tasks' /\ tasks'[i - 1] = tasks[i]))
<1>1. tasks \in Seq(Tasks) /\ Len(tasks) \in Nat /\ Len(tasks) > 0
    BY DEF TypeOK
<1>2. /\ Tail(tasks) \in Seq(Tasks) /\ Len(Tail(tasks)) = Len(tasks) - 1
      /\ \A i \in 1 .. Len(Tail(tasks)) : Tail(tasks)[i] = tasks[i + 1]
      /\ Head(tasks) = tasks[1]
    BY <1>1, HeadTailProperties
<1>3. DOMAIN tasks = 1 .. Len(tasks) /\ DOMAIN tasks' = 1 .. Len(tasks) - 1
    BY <1>1, <1>2
<1>4. \A i \in DOMAIN tasks :
         i \in Nat /\ (i = 1 \/ (i > 1 /\ i - 1 \in DOMAIN tasks' /\ tasks'[i - 1] = tasks[i]))
    BY <1>1, <1>2, <1>3
<1> QED
    BY <1>1, <1>2, <1>3, <1>4

\* What a task is, by its kind.
LEMMA TaskKinds ==
    ASSUME NEW t \in Tasks
    PROVE  /\ t.kind = "send" => t.msg \in Messages
           /\ t.kind = "write" => t.ok \in BOOLEAN
           /\ t.kind = "read" => t.ok \in BOOLEAN
BY DEF Tasks

-----------------------------------------------------------------------------
(* Steps that do not concern writing.                                       *)

\* Submitting a close, or the completion of a read, leaves writing alone.
LEMMA QuietAppend ==
    ASSUME Inv, NEW t \in Tasks, t.kind \notin {"send", "write"}, tasks' = Append(tasks, t),
           UNCHANGED <<closed, writeQ, writing, underflow, sent, wire>>
    PROVE  WriteInv'
<1>1. /\ \A i \in DOMAIN tasks : i \in DOMAIN tasks' /\ tasks'[i] = tasks[i]
      /\ \A i \in DOMAIN tasks' : i \in DOMAIN tasks \/ tasks'[i] = t
    BY AppendTask DEF Inv
<1>2. /\ Submitted("send")' = Submitted("send") /\ Submitted("write")' = Submitted("write")
      /\ \A i \in Submitted("send") : tasks'[i] = tasks[i]
      /\ \A i \in Submitted("write") : tasks'[i] = tasks[i]
    BY <1>1 DEF Submitted
<1>3. WriteDone' = WriteDone
    BY <1>2 DEF WriteDone
<1>4. Popped' = Popped
    BY <1>3 DEF Popped
<1> QED
    BY <1>2, <1>4 DEF Inv, WriteInv, OneWriteAtATime, QueueFollowsWire, SendsFollowQueue

\* Taking a task that is no send leaves the submitted sends as they are.
LEMMA TakeKeepsSends ==
    ASSUME Inv, ~closed, tasks # << >>, Head(tasks).kind # "send", tasks' = Tail(tasks)
    PROVE  /\ \A i \in Submitted("send")' : tasks'[i].msg \in Popped + Len(writeQ) + 1 .. sent
           /\ \A m \in Popped + Len(writeQ) + 1 .. sent :
                 \E i \in Submitted("send")' : tasks'[i].msg = m
           /\ \A i, j \in Submitted("send")' : i < j => tasks'[i].msg < tasks'[j].msg
<1>1. /\ Head(tasks) = tasks[1]
      /\ \A i \in DOMAIN tasks' : i \in Nat /\ i + 1 \in DOMAIN tasks /\ tasks'[i] = tasks[i + 1]
      /\ \A i \in DOMAIN tasks :
            i \in Nat /\ (i = 1 \/ (i > 1 /\ i - 1 \in DOMAIN tasks' /\ tasks'[i - 1] = tasks[i]))
    BY TakeTask DEF Inv
<1>2. \A i \in Submitted("send")' :
         i \in Nat /\ i + 1 \in Submitted("send") /\ tasks'[i] = tasks[i + 1]
    BY <1>1 DEF Submitted
<1>3. \A i \in Submitted("send") : i - 1 \in Submitted("send")' /\ tasks'[i - 1] = tasks[i]
    BY <1>1 DEF Submitted
<1>4. /\ \A i \in Submitted("send") : tasks[i].msg \in Popped + Len(writeQ) + 1 .. sent
      /\ \A m \in Popped + Len(writeQ) + 1 .. sent :
            \E i \in Submitted("send") : tasks[i].msg = m
      /\ \A i, j \in Submitted("send") : i < j => tasks[i].msg < tasks[j].msg
    BY DEF Inv, WriteInv, SendsFollowQueue
<1>5. \A i \in Submitted("send")' : tasks'[i].msg \in Popped + Len(writeQ) + 1 .. sent
    BY <1>2, <1>4
<1>6. ASSUME NEW m \in Popped + Len(writeQ) + 1 .. sent
      PROVE  \E i \in Submitted("send")' : tasks'[i].msg = m
    <2>1. PICK i \in Submitted("send") : tasks[i].msg = m
        BY <1>4
    <2> QED
        BY <2>1, <1>3
<1>7. ASSUME NEW i \in Submitted("send")', NEW j \in Submitted("send")', i < j
      PROVE  tasks'[i].msg < tasks'[j].msg
    <2>1. i + 1 \in Submitted("send") /\ j + 1 \in Submitted("send") /\ i + 1 < j + 1
        BY <1>2, <1>7
    <2>2. tasks[i + 1].msg < tasks[j + 1].msg
        BY <1>4, <2>1
    <2> QED
        BY <1>2, <2>2
<1> QED
    BY <1>5, <1>6, <1>7

\* Running a task that is neither a send nor a write leaves writing alone.
LEMMA QuietTake ==
    ASSUME Inv, tasks # << >>, Head(tasks).kind \notin {"send", "write"}, tasks' = Tail(tasks),
           UNCHANGED <<closed, writeQ, writing, underflow, sent, wire>>
    PROVE  WriteInv'
<1>1. /\ Head(tasks) = tasks[1]
      /\ \A i \in DOMAIN tasks' : i \in Nat /\ i + 1 \in DOMAIN tasks /\ tasks'[i] = tasks[i + 1]
      /\ \A i \in DOMAIN tasks :
            i \in Nat /\ (i = 1 \/ (i > 1 /\ i - 1 \in DOMAIN tasks' /\ tasks'[i - 1] = tasks[i]))
    BY TakeTask DEF Inv
<1>2. \A k \in {"send", "write"} :
         /\ \A i \in Submitted(k)' : i \in Nat /\ i + 1 \in Submitted(k) /\ tasks'[i] = tasks[i + 1]
         /\ \A i \in Submitted(k) : i \in Nat /\ i - 1 \in Submitted(k)' /\ tasks'[i - 1] = tasks[i]
    BY <1>1 DEF Submitted
<1>3. WriteDone' = WriteDone
    BY <1>2 DEF WriteDone
<1>4. Popped' = Popped
    BY <1>3 DEF Popped
<1>5. Submitted("write")' = {} <=> Submitted("write") = {}
    BY <1>2
<1>6. OneWriteAtATime'
    <2>1. ~closed => \A i, j \in Submitted("write")' : i = j
        BY <1>2 DEF Inv, WriteInv, OneWriteAtATime
    <2> QED
        BY <2>1, <1>5 DEF Inv, WriteInv, OneWriteAtATime
<1>7. QueueFollowsWire'
    BY <1>4 DEF Inv, WriteInv, QueueFollowsWire
<1>8. SendsFollowQueue'
    <2> SUFFICES ASSUME ~closed PROVE SendsFollowQueue'
        BY DEF SendsFollowQueue
    <2>1. /\ \A i \in Submitted("send")' : tasks'[i].msg \in Popped + Len(writeQ) + 1 .. sent
          /\ \A m \in Popped + Len(writeQ) + 1 .. sent :
                \E i \in Submitted("send")' : tasks'[i].msg = m
          /\ \A i, j \in Submitted("send")' : i < j => tasks'[i].msg < tasks'[j].msg
        BY TakeKeepsSends
    <2>2. Popped + Len(writeQ) <= sent
        BY DEF Inv, WriteInv, SendsFollowQueue
    <2> QED
        BY <1>4, <2>1, <2>2 DEF SendsFollowQueue
<1> QED
    BY <1>6, <1>7, <1>8 DEF WriteInv

\* A closed connection has nothing left to promise about writing.
LEMMA ClosedWriting ==
    ASSUME closed'
    PROVE  WriteInv'
BY DEF WriteInv, OneWriteAtATime, QueueFollowsWire, SendsFollowQueue

\* DoClose leaves a closed connection of which the manager heard once.
LEMMA DoCloseEffect ==
    ASSUME Inv, DoClose
    PROVE  closed' /\ CloseNotifiedOnce' /\ writeQ' \in Seq(Messages) /\ notified' \in 0 .. 1
BY DEF Inv, TypeOK, DoClose, CloseNotifiedOnce

-----------------------------------------------------------------------------
(* One lemma per action.                                                    *)

\* A call of Send submits the next message.
LEMMA SendKeepsInv ==
    ASSUME Inv, Send
    PROVE  Inv'
<1> DEFINE t == [kind |-> "send", msg |-> sent + 1]
<1>1. /\ sent' = sent + 1 /\ sent + 1 \in Messages /\ tasks' = Append(tasks, t)
      /\ UNCHANGED <<started, closed, notified, writeQ, reading, writing, underflow,
                     closes, reads, wire>>
    BY LimitsAssumption DEF Send, Inv, TypeOK, Messages
<1>2. t \in Tasks /\ t.kind = "send" /\ t.msg = sent + 1
    BY <1>1 DEF Tasks
<1> HIDE DEF t
<1>3. /\ tasks' \in Seq(Tasks)
      /\ \A i \in DOMAIN tasks : i \in DOMAIN tasks' /\ tasks'[i] = tasks[i]
      /\ Len(tasks) + 1 \in DOMAIN tasks' /\ tasks'[Len(tasks) + 1] = t
      /\ \A i \in DOMAIN tasks' : i \in DOMAIN tasks \/ i = Len(tasks) + 1
      /\ \A i \in DOMAIN tasks : i \in Nat /\ i < Len(tasks) + 1
    BY <1>1, <1>2, AppendTask DEF Inv
<1>4. /\ Submitted("write")' = Submitted("write")
      /\ \A i \in Submitted("write") : tasks'[i] = tasks[i]
    BY <1>2, <1>3 DEF Submitted
<1>5. Popped' = Popped
    <2>1. WriteDone' = WriteDone
        BY <1>4 DEF WriteDone
    <2> QED
        BY <2>1, <1>1 DEF Popped
<1>6. /\ Submitted("send")' = Submitted("send") \cup {Len(tasks) + 1}
      /\ \A i \in Submitted("send") : i \in Nat /\ i < Len(tasks) + 1 /\ tasks'[i] = tasks[i]
    BY <1>2, <1>3 DEF Submitted
<1>7. SendsFollowQueue'
    <2> SUFFICES ASSUME ~closed PROVE SendsFollowQueue'
        BY <1>1 DEF SendsFollowQueue
    <2>1. Popped \in Int /\ Len(writeQ) \in Nat /\ sent \in Nat
        BY DEF Inv, TypeOK, Popped
    <2>2. Popped + Len(writeQ) <= sent
        BY DEF Inv, WriteInv, SendsFollowQueue
    <2>3. \A i \in Submitted("send")' : tasks'[i].msg \in Popped + Len(writeQ) + 1 .. sent + 1
        BY <1>2, <1>3, <1>6, <2>1, <2>2 DEF Inv, WriteInv, SendsFollowQueue
    <2>4. \A m \in Popped + Len(writeQ) + 1 .. sent + 1 :
             \E i \in Submitted("send")' : tasks'[i].msg = m
        <3> SUFFICES ASSUME NEW m \in Popped + Len(writeQ) + 1 .. sent + 1
                     PROVE  \E i \in Submitted("send")' : tasks'[i].msg = m
            OBVIOUS
        <3>1. CASE m = sent + 1
            BY <3>1, <1>2, <1>3, <1>6
        <3>2. CASE m # sent + 1
            <4>1. m \in Popped + Len(writeQ) + 1 .. sent
                BY <3>2, <2>1
            <4>2. PICK i \in Submitted("send") : tasks[i].msg = m
                BY <4>1 DEF Inv, WriteInv, SendsFollowQueue
            <4> QED
                BY <4>2, <1>6
        <3> QED
            BY <3>1, <3>2
    <2>5. \A i, j \in Submitted("send")' : i < j => tasks'[i].msg < tasks'[j].msg
        <3> SUFFICES ASSUME NEW i \in Submitted("send")', NEW j \in Submitted("send")', i < j
                     PROVE  tasks'[i].msg < tasks'[j].msg
            OBVIOUS
        <3>1. Len(tasks) \in Nat
            BY DEF Inv, TypeOK
        <3>2. i \in Submitted("send") /\ tasks'[i].msg = tasks[i].msg
              /\ tasks[i].msg \in Popped + Len(writeQ) + 1 .. sent
            BY <3>1, <1>6 DEF Inv, WriteInv, SendsFollowQueue
        <3>3. CASE j \in Submitted("send")
            BY <3>2, <3>3, <1>6 DEF Inv, WriteInv, SendsFollowQueue
        <3>4. CASE j = Len(tasks) + 1
            BY <3>2, <3>4, <1>2, <1>3, <2>1
        <3> QED
            BY <3>3, <3>4, <1>6
    <2>6. /\ Popped' + Len(writeQ') = Popped + Len(writeQ)
          /\ Popped' + Len(writeQ') <= sent' /\ sent' = sent + 1
        BY <1>1, <1>5, <2>1, <2>2
    <2> QED
        BY <2>3, <2>4, <2>5, <2>6 DEF SendsFollowQueue
<1>8. OneWriteAtATime' /\ QueueFollowsWire'
    BY <1>1, <1>4, <1>5 DEF Inv, WriteInv, OneWriteAtATime, QueueFollowsWire
<1>9. TypeOK'
    BY <1>1, <1>3 DEF Inv, TypeOK, Messages
<1> QED
    BY <1>1, <1>7, <1>8, <1>9 DEF Inv, WriteInv, WireInOrder, CloseNotifiedOnce

\* A call of Close submits a close.
LEMMA CloseKeepsInv ==
    ASSUME Inv, Close
    PROVE  Inv'
<1> DEFINE t == [kind |-> "close"]
<1>1. t \in Tasks /\ t.kind \notin {"send", "write"} /\ tasks' = Append(tasks, t)
    BY DEF Tasks, Close
<1>2. /\ closes' \in 0 .. CloseLimit
      /\ UNCHANGED <<started, closed, notified, writeQ, reading, writing, underflow,
                     sent, reads, wire>>
    BY LimitsAssumption DEF Close, Inv, TypeOK
<1> HIDE DEF t
<1>3. WriteInv'
    BY <1>1, <1>2, QuietAppend
<1>4. tasks' \in Seq(Tasks)
    BY <1>1, AppendTask DEF Inv
<1> QED
    BY <1>2, <1>3, <1>4 DEF Inv, TypeOK, WireInOrder, CloseNotifiedOnce

\* The completion of a read submits its handler.
LEMMA ReadCompletesKeepsInv ==
    ASSUME Inv, NEW ok \in BOOLEAN, ReadCompletes(ok)
    PROVE  Inv'
<1> DEFINE t == [kind |-> "read", ok |-> ok]
<1>1. t \in Tasks /\ t.kind \notin {"send", "write"} /\ tasks' = Append(tasks, t)
    BY DEF Tasks, ReadCompletes
<1>2. /\ reads' \in 0 .. ReadLimit /\ reading' \in BOOLEAN
      /\ UNCHANGED <<started, closed, notified, writeQ, writing, underflow,
                     sent, closes, wire>>
    <2>1. /\ reading' = FALSE
          /\ UNCHANGED <<started, closed, notified, writeQ, writing, underflow, sent, closes, wire>>
        BY DEF ReadCompletes
    <2>2. reads \in 0 .. ReadLimit
        BY DEF Inv, TypeOK
    <2>3. CASE ok
        <3>1. reads < ReadLimit /\ reads' = reads + 1
            BY <2>3 DEF ReadCompletes
        <3>2. reads' \in 0 .. ReadLimit
            BY <2>2, <3>1, LimitsAssumption
        <3> QED
            BY <2>1, <3>2
    <2>4. CASE ~ok
        <3>1. reads' = reads
            BY <2>4 DEF ReadCompletes
        <3> QED
            BY <2>1, <2>2, <3>1
    <2> QED
        BY <2>3, <2>4
<1> HIDE DEF t
<1>3. WriteInv'
    BY <1>1, <1>2, QuietAppend
<1>4. tasks' \in Seq(Tasks)
    BY <1>1, AppendTask DEF Inv
<1> QED
    BY <1>2, <1>3, <1>4 DEF Inv, TypeOK, WireInOrder, CloseNotifiedOnce

\* The completion of a write submits its handler; the message is then on the
\* wire and still at the front of the queue.
LEMMA WriteCompletesKeepsInv ==
    ASSUME Inv, NEW ok \in BOOLEAN, WriteCompletes(ok)
    PROVE  Inv'
<1> DEFINE t == [kind |-> "write", ok |-> ok]
<1>1. /\ t \in Tasks /\ t.kind = "write" /\ t.ok = ok /\ tasks' = Append(tasks, t)
      /\ UNCHANGED <<started, closed, notified, writeQ, reading, underflow, sent, closes, reads>>
      /\ writing \in Messages /\ writing' = NoMessage /\ (ok => ~closed)
      /\ wire' = IF ok THEN Append(wire, writing) ELSE wire
    BY DEF WriteCompletes, Inv, TypeOK, Tasks
<1> HIDE DEF t
<1>2. /\ tasks' \in Seq(Tasks)
      /\ \A i \in DOMAIN tasks : i \in DOMAIN tasks' /\ tasks'[i] = tasks[i]
      /\ Len(tasks) + 1 \in DOMAIN tasks' /\ tasks'[Len(tasks) + 1] = t
      /\ \A i \in DOMAIN tasks' : i \in DOMAIN tasks \/ i = Len(tasks) + 1
    BY <1>1, AppendTask DEF Inv
<1>3. /\ Submitted("send")' = Submitted("send")
      /\ \A i \in Submitted("send") : tasks'[i] = tasks[i]
      /\ Submitted("write")' = Submitted("write") \cup {Len(tasks) + 1}
    BY <1>1, <1>2 DEF Submitted
<1>4. CASE closed
    <2>1. WriteInv'
        BY <1>1, <1>4, ClosedWriting
    <2>2. wire' = wire
        BY <1>1, <1>4
    <2> QED
        BY <1>1, <1>2, <2>1, <2>2 DEF Inv, TypeOK, WireInOrder, CloseNotifiedOnce
<1>5. CASE ~closed
    <2>1. Submitted("write") = {} /\ writeQ # << >> /\ writing = writeQ[1]
        BY <1>1, <1>5, HeadTailProperties DEF Inv, TypeOK, WriteInv, OneWriteAtATime, Messages, NoMessage
    <2>2. ~WriteDone /\ Popped = Len(wire)
        BY <2>1 DEF WriteDone, Popped
    <2>3. WriteDone' <=> ok
        BY <1>1, <1>2, <1>3, <2>1 DEF WriteDone
    <2>4. Len(wire) \in Nat /\ writing = Len(wire) + 1
        BY <1>5, <2>1, <2>2 DEF Inv, WriteInv, QueueFollowsWire, TypeOK
    <2>5. /\ wire' \in Seq(Messages)
          /\ Len(wire') = IF ok THEN Len(wire) + 1 ELSE Len(wire)
          /\ WireInOrder'
        <3>1. CASE ok
            <4>1. wire' = Append(wire, writing)
                BY <1>1, <3>1
            <4>2. /\ wire' \in Seq(Messages) /\ Len(wire') = Len(wire) + 1
                  /\ \A i \in 1 .. Len(wire) : wire'[i] = wire[i]
                  /\ wire'[Len(wire) + 1] = writing
                BY <1>1, <4>1, AppendProperties DEF Inv, TypeOK
            <4>3. WireInOrder'
                BY <2>4, <4>2 DEF Inv, WireInOrder
            <4> QED
                BY <3>1, <4>2, <4>3
        <3>2. CASE ~ok
            BY <1>1, <3>2 DEF Inv, TypeOK, WireInOrder
        <3> QED
            BY <3>1, <3>2
    <2>6. Popped' = Popped
        <3>1. CASE ok
            BY <2>2, <2>3, <2>4, <2>5, <3>1 DEF Popped
        <3>2. CASE ~ok
            BY <2>2, <2>3, <2>4, <2>5, <3>2, <1>1 DEF Popped
        <3> QED
            BY <3>1, <3>2
    <2>7. OneWriteAtATime'
        BY <1>1, <1>3, <2>1 DEF Inv, WriteInv, OneWriteAtATime
    <2>8. QueueFollowsWire' /\ SendsFollowQueue'
        BY <1>1, <1>3, <2>6 DEF Inv, WriteInv, QueueFollowsWire, SendsFollowQueue
    <2> QED
        BY <1>1, <1>2, <2>5, <2>7, <2>8 DEF Inv, WriteInv, TypeOK, CloseNotifiedOnce
<1> QED
    BY <1>4, <1>5

\* Start begins to read.
LEMMA RunStartKeepsInv ==
    ASSUME Inv, RunStart
    PROVE  Inv'
<1>1. /\ tasks # << >> /\ Head(tasks).kind \notin {"send", "write"} /\ tasks' = Tail(tasks)
      /\ started' \in BOOLEAN /\ reading' \in BOOLEAN
      /\ UNCHANGED <<closed, notified, writeQ, writing, underflow, sent, closes, reads, wire>>
    BY DEF RunStart, Runs, Inv, TypeOK
<1>2. WriteInv'
    BY <1>1, QuietTake
<1>3. tasks' \in Seq(Tasks)
    BY <1>1, TakeTask DEF Inv
<1> QED
    BY <1>1, <1>2, <1>3 DEF Inv, TypeOK, WireInOrder, CloseNotifiedOnce

\* A close closes.
LEMMA RunCloseKeepsInv ==
    ASSUME Inv, RunClose
    PROVE  Inv'
<1>1. /\ tasks # << >> /\ tasks' = Tail(tasks) /\ DoClose
      /\ UNCHANGED <<started, reading, writing, underflow, sent, closes, reads, wire>>
    BY DEF RunClose, Runs
<1>2. closed' /\ closed' \in BOOLEAN /\ CloseNotifiedOnce' /\ writeQ' \in Seq(Messages)
      /\ notified' \in 0 .. 1
    BY <1>1, DoCloseEffect DEF DoClose
<1>3. tasks' \in Seq(Tasks)
    BY <1>1, TakeTask DEF Inv
<1>4. WriteInv'
    BY <1>2, ClosedWriting
<1> QED
    BY <1>1, <1>2, <1>3, <1>4 DEF Inv, TypeOK, WireInOrder

\* The handler of a read reads on or closes.
LEMMA RunReadKeepsInv ==
    ASSUME Inv, RunRead
    PROVE  Inv'
<1>1. /\ tasks # << >> /\ Head(tasks).kind = "read" /\ tasks' = Tail(tasks)
      /\ UNCHANGED <<started, writing, underflow, sent, closes, reads, wire>>
    BY DEF RunRead, Runs
<1>2. tasks' \in Seq(Tasks)
    BY <1>1, TakeTask DEF Inv
<1>3. CASE Head(tasks).ok
    <2>1. UNCHANGED <<closed, writeQ, notified>> /\ reading' \in BOOLEAN
        BY <1>3 DEF RunRead, Inv, TypeOK
    <2>2. WriteInv'
        BY <1>1, <2>1, QuietTake
    <2> QED
        BY <1>1, <1>2, <2>1, <2>2 DEF Inv, TypeOK, WireInOrder, CloseNotifiedOnce
<1>4. CASE ~Head(tasks).ok
    <2>1. DoClose /\ reading' = reading
        BY <1>4 DEF RunRead
    <2>2. closed' /\ closed' \in BOOLEAN /\ CloseNotifiedOnce' /\ writeQ' \in Seq(Messages)
          /\ notified' \in 0 .. 1
        BY <2>1, DoCloseEffect DEF DoClose
    <2>3. WriteInv'
        BY <2>2, ClosedWriting
    <2> QED
        BY <1>1, <1>2, <2>1, <2>2, <2>3 DEF Inv, TypeOK, WireInOrder
<1> QED
    BY <1>3, <1>4

\* A send of an open connection joins the queue, and is written at once only
\* if the queue was empty: then no write is in progress.
LEMMA RunSendKeepsInv ==
    ASSUME Inv, RunSend
    PROVE  Inv'
<1>1. /\ tasks # << >> /\ Head(tasks).kind = "send" /\ tasks' = Tail(tasks)
      /\ UNCHANGED <<started, closed, notified, reading, underflow, sent, closes, reads, wire>>
    BY DEF RunSend, Runs
<1>2. /\ tasks' \in Seq(Tasks) /\ Head(tasks) = tasks[1] /\ 1 \in DOMAIN tasks
      /\ tasks[1] \in Tasks
      /\ \A i \in DOMAIN tasks' : i \in Nat /\ i + 1 \in DOMAIN tasks /\ tasks'[i] = tasks[i + 1]
      /\ \A i \in DOMAIN tasks :
            i \in Nat /\ (i = 1 \/ (i > 1 /\ i - 1 \in DOMAIN tasks' /\ tasks'[i - 1] = tasks[i]))
    BY <1>1, TakeTask DEF Inv
<1> DEFINE m == tasks[1].msg
<1>3. m \in Messages
    BY <1>1, <1>2, TaskKinds
<1>4. CASE closed
    <2>1. UNCHANGED <<writeQ, writing>>
        BY <1>4 DEF RunSend
    <2>2. WriteInv'
        BY <1>1, <1>4, ClosedWriting
    <2> QED
        BY <1>1, <1>2, <2>1, <2>2 DEF Inv, TypeOK, WireInOrder, CloseNotifiedOnce
<1>5. CASE ~closed
    <2>1. /\ \A i \in Submitted("write")' : i \in Nat /\ i + 1 \in Submitted("write") /\ tasks'[i] = tasks[i + 1]
          /\ \A i \in Submitted("write") : i \in Nat /\ i - 1 \in Submitted("write")' /\ tasks'[i - 1] = tasks[i]
          /\ \A i \in Submitted("send")' : i \in Nat /\ i + 1 \in Submitted("send") /\ tasks'[i] = tasks[i + 1]
          /\ \A i \in Submitted("send") :
                i \in Nat /\ (i = 1 \/ (i > 1 /\ i - 1 \in Submitted("send")' /\ tasks'[i - 1] = tasks[i]))
          /\ 1 \in Submitted("send")
        BY <1>1, <1>2 DEF Submitted
    <2>2. WriteDone' = WriteDone /\ Popped' = Popped
        <3>1. WriteDone' = WriteDone
            BY <2>1 DEF WriteDone
        <3> QED
            BY <3>1, <1>1 DEF Popped
    <2>3. Popped \in Int /\ Len(writeQ) \in Nat /\ sent \in Nat
        BY DEF Inv, TypeOK, Popped
    <2>4. m = Popped + Len(writeQ) + 1 /\ m <= sent
        <3>1. m \in Popped + Len(writeQ) + 1 .. sent
            BY <1>5, <2>1 DEF Inv, WriteInv, SendsFollowQueue
        <3>2. PICK i \in Submitted("send") : tasks[i].msg = Popped + Len(writeQ) + 1
            BY <1>5, <2>3, <3>1 DEF Inv, WriteInv, SendsFollowQueue
        <3>3. i = 1 \/ m < tasks[i].msg
            BY <1>5, <2>1 DEF Inv, WriteInv, SendsFollowQueue
        <3> QED
            BY <2>3, <3>1, <3>2, <3>3
    <2>5. /\ writeQ' = Append(writeQ, m)
          /\ writing' = IF writeQ = << >> THEN Head(Append(writeQ, m)) ELSE writing
        BY <1>2, <1>5, AppendProperties, <1>3 DEF RunSend, DoWrite, Inv, TypeOK
    <2>6. /\ writeQ' \in Seq(Messages) /\ Len(writeQ') = Len(writeQ) + 1 /\ writeQ' # << >>
          /\ \A i \in 1 .. Len(writeQ) : writeQ'[i] = writeQ[i]
          /\ writeQ'[Len(writeQ) + 1] = m
        BY <1>3, <2>5, AppendProperties DEF Inv, TypeOK
    <2>7. Head(writeQ') = IF writeQ = << >> THEN m ELSE Head(writeQ)
        BY <1>3, <2>5, HeadTailAppend DEF Inv, TypeOK
    <2>8. QueueFollowsWire'
        <3>1. DOMAIN writeQ' = 1 .. Len(writeQ) + 1 /\ DOMAIN writeQ = 1 .. Len(writeQ)
            BY <2>3, <2>6 DEF Inv, TypeOK
        <3>2. \A i \in DOMAIN writeQ : writeQ[i] = Popped + i
            BY <1>5 DEF Inv, WriteInv, QueueFollowsWire
        <3>3. ASSUME NEW i \in DOMAIN writeQ' PROVE writeQ'[i] = Popped + i
            <4>1. CASE i \in 1 .. Len(writeQ)
                BY <2>6, <3>1, <3>2, <4>1
            <4>2. CASE i = Len(writeQ) + 1
                BY <2>3, <2>4, <2>6, <4>2
            <4> QED
                BY <2>3, <3>1, <4>1, <4>2
        <3> QED
            BY <2>2, <3>3 DEF QueueFollowsWire
    <2>9. SendsFollowQueue'
        <3>1. \A i \in Submitted("send")' : tasks'[i].msg \in Popped + Len(writeQ) + 2 .. sent
            <4> SUFFICES ASSUME NEW i \in Submitted("send")'
                         PROVE  tasks'[i].msg \in Popped + Len(writeQ) + 2 .. sent
                OBVIOUS
            <4>1. i + 1 \in Submitted("send") /\ 1 < i + 1 /\ tasks'[i] = tasks[i + 1]
                BY <1>2, <2>1 DEF Submitted
            <4>2. m < tasks[i + 1].msg /\ tasks[i + 1].msg \in Popped + Len(writeQ) + 1 .. sent
                BY <1>5, <2>1, <4>1 DEF Inv, WriteInv, SendsFollowQueue
            <4> QED
                BY <2>3, <2>4, <4>1, <4>2
        <3>2. \A k \in Popped + Len(writeQ) + 2 .. sent : \E i \in Submitted("send")' : tasks'[i].msg = k
            <4> SUFFICES ASSUME NEW k \in Popped + Len(writeQ) + 2 .. sent
                         PROVE  \E i \in Submitted("send")' : tasks'[i].msg = k
                OBVIOUS
            <4>1. k \in Popped + Len(writeQ) + 1 .. sent /\ k # m
                BY <2>3, <2>4
            <4>2. PICK i \in Submitted("send") : tasks[i].msg = k
                BY <1>5, <4>1 DEF Inv, WriteInv, SendsFollowQueue
            <4> QED
                BY <2>1, <4>1, <4>2
        <3>3. \A i, j \in Submitted("send")' : i < j => tasks'[i].msg < tasks'[j].msg
            BY <1>5, <2>1 DEF Inv, WriteInv, SendsFollowQueue
        <3>4. Popped' + Len(writeQ') + 1 = Popped + Len(writeQ) + 2 /\ Popped' + Len(writeQ') <= sent'
            BY <1>1, <2>2, <2>3, <2>4, <2>6
        <3> QED
            BY <1>1, <3>1, <3>2, <3>3, <3>4 DEF SendsFollowQueue
    <2>10. OneWriteAtATime'
        <3>1. \A i, j \in Submitted("write")' : i = j
            BY <1>5, <2>1 DEF Inv, WriteInv, OneWriteAtATime
        <3>2. Submitted("write")' = {} <=> Submitted("write") = {}
            BY <2>1
        <3>3. CASE writeQ = << >>
            <4>1. Submitted("write") = {} /\ writing' = Head(writeQ') /\ writing' # NoMessage
                BY <1>3, <1>5, <2>5, <2>7, <3>3 DEF Inv, WriteInv, OneWriteAtATime, Messages, NoMessage
            <4> QED
                BY <1>1, <1>5, <2>6, <3>2, <4>1 DEF Inv, WriteInv, OneWriteAtATime
        <3>4. CASE writeQ # << >>
            BY <1>1, <1>5, <2>5, <2>6, <2>7, <3>1, <3>2, <3>4
            DEF Inv, WriteInv, OneWriteAtATime
        <3> QED
            BY <3>3, <3>4
    <2>11. writing' \in Messages \cup {NoMessage}
        BY <1>3, <2>5, <2>7 DEF Inv, TypeOK
    <2> QED
        BY <1>1, <1>2, <2>6, <2>8, <2>9, <2>10, <2>11
        DEF Inv, WriteInv, TypeOK, WireInOrder, CloseNotifiedOnce
<1> QED
    BY <1>4, <1>5

\* The handler of a write pops its message and writes the next, or closes.
LEMMA RunWriteKeepsInv ==
    ASSUME Inv, RunWrite
    PROVE  Inv'
<1>1. /\ tasks # << >> /\ Head(tasks).kind = "write" /\ tasks' = Tail(tasks)
      /\ UNCHANGED <<started, reading, sent, closes, reads, wire>>
    BY DEF RunWrite, Runs
<1>2. /\ tasks' \in Seq(Tasks) /\ Head(tasks) = tasks[1] /\ 1 \in DOMAIN tasks
      /\ tasks[1] \in Tasks
      /\ \A i \in DOMAIN tasks' : i \in Nat /\ i + 1 \in DOMAIN tasks /\ tasks'[i] = tasks[i + 1]
      /\ \A i \in DOMAIN tasks :
            i \in Nat /\ (i = 1 \/ (i > 1 /\ i - 1 \in DOMAIN tasks' /\ tasks'[i - 1] = tasks[i]))
    BY <1>1, TakeTask DEF Inv
<1>3. CASE ~Head(tasks).ok
    <2>1. DoClose /\ UNCHANGED <<underflow, writing>>
        BY <1>3 DEF RunWrite
    <2>2. closed' /\ closed' \in BOOLEAN /\ CloseNotifiedOnce' /\ writeQ' \in Seq(Messages)
          /\ notified' \in 0 .. 1
        BY <2>1, DoCloseEffect DEF DoClose
    <2>3. WriteInv'
        BY <2>2, ClosedWriting
    <2> QED
        BY <1>1, <1>2, <2>1, <2>2, <2>3 DEF Inv, TypeOK, WireInOrder
<1>4. CASE Head(tasks).ok
    <2>1. /\ writeQ' = IF writeQ = << >> THEN << >> ELSE Tail(writeQ)
          /\ underflow' = (underflow \/ writeQ = << >>)
          /\ writing' = IF closed \/ writeQ' = << >> THEN writing ELSE Head(writeQ')
          /\ UNCHANGED <<closed, notified>>
        BY <1>4 DEF RunWrite, DoWrite
    <2>2. writeQ' \in Seq(Messages)
        BY <2>1, HeadTailProperties DEF Inv, TypeOK
    <2>3. writing' \in Messages \cup {NoMessage}
        BY <2>1, <2>2, HeadTailProperties DEF Inv, TypeOK
    <2>4. TypeOK' /\ WireInOrder' /\ CloseNotifiedOnce'
        BY <1>1, <1>2, <2>1, <2>2, <2>3 DEF Inv, TypeOK, WireInOrder, CloseNotifiedOnce
    <2>5. CASE closed
        <3>1. WriteInv'
            BY <2>1, <2>5, ClosedWriting
        <3> QED
            BY <2>4, <3>1 DEF Inv
    <2>6. CASE ~closed
        <3>1. 1 \in Submitted("write") /\ Submitted("write") = {1}
            BY <1>1, <1>2, <2>6 DEF Submitted, Inv, WriteInv, OneWriteAtATime
        <3>2. writeQ # << >> /\ writing = NoMessage
            BY <2>6, <3>1 DEF Inv, WriteInv, OneWriteAtATime
        <3>3. WriteDone /\ Popped = Len(wire) - 1 /\ Len(wire) \in Nat
            BY <1>2, <1>4, <3>1 DEF WriteDone, Popped, Inv, TypeOK
        <3>4. Submitted("write")' = {}
            <4>1. \A i \in Submitted("write")' : i \in Nat /\ i + 1 \in Submitted("write") /\ i # 0
                BY <1>2 DEF Submitted
            <4> QED
                BY <3>1, <4>1
        <3>5. Popped' = Len(wire)
            BY <1>1, <3>4 DEF WriteDone, Popped
        <3>6. /\ writeQ' = Tail(writeQ) /\ Len(writeQ') = Len(writeQ) - 1
              /\ \A i \in 1 .. Len(writeQ') : writeQ'[i] = writeQ[i + 1]
            BY <2>1, <3>2, HeadTailProperties DEF Inv, TypeOK
        <3>7. QueueFollowsWire'
            <4>1. Len(writeQ) \in Nat /\ DOMAIN writeQ = 1 .. Len(writeQ)
                BY DEF Inv, TypeOK
            <4>2. DOMAIN writeQ' = 1 .. Len(writeQ) - 1
                BY <2>2, <3>6
            <4>3. \A i \in DOMAIN writeQ : writeQ[i] = Popped + i
                BY <2>6 DEF Inv, WriteInv, QueueFollowsWire
            <4>4. ASSUME NEW i \in DOMAIN writeQ' PROVE writeQ'[i] = Len(wire) + i
                <5>1. i + 1 \in DOMAIN writeQ /\ i \in Nat /\ writeQ'[i] = writeQ[i + 1]
                    BY <3>6, <4>1, <4>2
                <5>2. writeQ[i + 1] = Popped + (i + 1)
                    BY <4>3, <5>1
                <5> QED
                    BY <3>3, <5>1, <5>2
            <4> QED
                BY <3>5, <4>4 DEF QueueFollowsWire
        <3>8. SendsFollowQueue'
            <4>1. /\ \A i \in Submitted("send")' : tasks'[i].msg \in Popped + Len(writeQ) + 1 .. sent
                  /\ \A m \in Popped + Len(writeQ) + 1 .. sent :
                        \E i \in Submitted("send")' : tasks'[i].msg = m
                  /\ \A i, j \in Submitted("send")' : i < j => tasks'[i].msg < tasks'[j].msg
                BY <1>1, <2>6, TakeKeepsSends
            <4>2. Popped' + Len(writeQ') = Popped + Len(writeQ)
                <5>1. Len(writeQ) \in Nat
                    BY DEF Inv, TypeOK
                <5> QED
                    BY <3>3, <3>5, <3>6, <5>1
            <4>3. Popped + Len(writeQ) <= sent
                BY <2>6 DEF Inv, WriteInv, SendsFollowQueue
            <4> QED
                BY <1>1, <4>1, <4>2, <4>3 DEF SendsFollowQueue
        <3>9. OneWriteAtATime'
            <4>1. writing' = IF writeQ' = << >> THEN NoMessage ELSE Head(writeQ')
                BY <2>1, <2>6, <3>2
            <4>2. writeQ' # << >> => Head(writeQ') # NoMessage
                <5>1. writeQ' # << >> => Head(writeQ') \in Messages
                    BY <2>2, HeadTailProperties
                <5> QED
                    BY <5>1 DEF Messages, NoMessage
            <4> QED
                BY <2>1, <2>6, <3>2, <3>4, <4>1, <4>2 DEF Inv, WriteInv, OneWriteAtATime
        <3> QED
            BY <2>4, <3>7, <3>8, <3>9 DEF Inv, WriteInv
    <2> QED
        BY <2>5, <2>6
<1> QED
    BY <1>3, <1>4

-----------------------------------------------------------------------------

\* The invariant holds when the connection is made.
LEMMA InitInv == Init => Inv
<1> SUFFICES ASSUME Init PROVE Inv
    OBVIOUS
<1>1. /\ tasks = <<[kind |-> "start"]>> /\ tasks \in Seq(Tasks)
      /\ writeQ = << >> /\ wire = << >> /\ writing = NoMessage /\ sent = 0
    BY DEF Init, Tasks
<1>2. Submitted("write") = {} /\ Submitted("send") = {}
    BY <1>1 DEF Submitted
<1>3. ~WriteDone /\ Popped = 0
    BY <1>1, <1>2 DEF WriteDone, Popped
<1>4. TypeOK
    <2>1. /\ closed = FALSE /\ started = FALSE /\ reading = FALSE /\ underflow = FALSE
          /\ notified = 0 /\ closes = 0 /\ reads = 0
        BY DEF Init
    <2>2. writeQ \in Seq(Messages) /\ wire \in Seq(Messages)
        BY <1>1
    <2>3. sent \in 0 .. SendLimit /\ closes \in 0 .. CloseLimit /\ reads \in 0 .. ReadLimit
        BY <1>1, <2>1, LimitsAssumption
    <2>4. writing \in Messages \cup {NoMessage}
        BY <1>1
    <2>5. tasks \in Seq(Tasks)
        BY <1>1
    <2>6. closed \in BOOLEAN /\ started \in BOOLEAN /\ reading \in BOOLEAN /\ underflow \in BOOLEAN
        BY <2>1, Zenon
    <2>7. notified \in 0 .. 1
        <3>1. notified = 0
            BY DEF Init
        <3> QED
            BY <3>1
    <2> QED
        BY <2>2, <2>3, <2>4, <2>5, <2>6, <2>7 DEF TypeOK
<1>5. WriteInv
    BY <1>1, <1>2, <1>3 DEF Init, WriteInv, OneWriteAtATime, QueueFollowsWire, SendsFollowQueue
<1> QED
    BY <1>1, <1>4, <1>5 DEF Inv, Init, WireInOrder, CloseNotifiedOnce

\* Every step keeps the invariant.
LEMMA NextInv == Inv /\ [Next]_vars => Inv'
<1> SUFFICES ASSUME Inv, [Next]_vars PROVE Inv'
    OBVIOUS
<1>1. CASE Send
    BY <1>1, SendKeepsInv
<1>2. CASE Close
    BY <1>2, CloseKeepsInv
<1>3. CASE \E ok \in BOOLEAN : ReadCompletes(ok)
    BY <1>3, ReadCompletesKeepsInv
<1>4. CASE \E ok \in BOOLEAN : WriteCompletes(ok)
    BY <1>4, WriteCompletesKeepsInv
<1>5. CASE RunStart
    BY <1>5, RunStartKeepsInv
<1>6. CASE RunSend
    BY <1>6, RunSendKeepsInv
<1>7. CASE RunClose
    BY <1>7, RunCloseKeepsInv
<1>8. CASE RunRead
    BY <1>8, RunReadKeepsInv
<1>9. CASE RunWrite
    BY <1>9, RunWriteKeepsInv
<1>10. CASE UNCHANGED vars
    BY <1>10 DEF vars, Inv, TypeOK, WriteInv, OneWriteAtATime, QueueFollowsWire,
                 SendsFollowQueue, WireInOrder, CloseNotifiedOnce, Popped, WriteDone, Submitted
<1> QED
    BY <1>1, <1>2, <1>3, <1>4, <1>5, <1>6, <1>7, <1>8, <1>9, <1>10 DEF Next, Strand

\* The invariant holds throughout.
LEMMA InvHolds == Spec => []Inv
<1> QED
    BY InitInv, NextInv, PTL DEF Spec

\* The variables keep their types, and the manager is told at most once
\* (TcpConnection.cpp: DoClose).
THEOREM TypeCorrect == Spec => []TypeOK
<1>1. Inv => TypeOK
    BY DEF Inv
<1> QED
    BY <1>1, InvHolds, PTL

\* There is never more than one write in progress, and none is forgotten
\* (TcpConnection.cpp: Send, DoWrite and the write's handler).
THEOREM OneWriteHolds == Spec => []OneWriteAtATime
<1>1. Inv => OneWriteAtATime
    BY DEF Inv, WriteInv
<1> QED
    BY <1>1, InvHolds, PTL

\* What is written is the messages in the order of the calls of Send.
THEOREM WireOrderHolds == Spec => []WireInOrder
<1>1. Inv => WireInOrder
    BY DEF Inv
<1> QED
    BY <1>1, InvHolds, PTL

\* The session manager hears of the end of a connection once, and only then.
THEOREM CloseNoticeHolds == Spec => []CloseNotifiedOnce
<1>1. Inv => CloseNotifiedOnce
    BY DEF Inv
<1> QED
    BY <1>1, InvHolds, PTL
=============================================================================
