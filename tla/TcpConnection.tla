--------------------------- MODULE TcpConnection ---------------------------
(***************************************************************************)
(* One socket (src/src/network/session/TcpConnection.cpp).  All its state  *)
(* belongs to an asio strand: calls from other threads (Start, Send, Close)*)
(* and completions of socket operations are tasks that the strand runs one *)
(* at a time in the order they were submitted.  At most one read and one   *)
(* composed write are handed to the socket; they complete on their own,    *)
(* and between a completion and its handler other tasks may run.           *)
(*                                                                         *)
(* Messages are numbered in the order of the calls of Send.                *)
(***************************************************************************)
EXTENDS Integers, Sequences

CONSTANTS
    SendLimit,   \* bound on the number of calls of Send
    CloseLimit,  \* bound on the number of calls of Close
    ReadLimit    \* bound on the number of successful reads

ASSUME LimitsAssumption == SendLimit \in Nat /\ CloseLimit \in Nat /\ ReadLimit \in Nat

Messages == 1 .. SendLimit
NoMessage == 0

\* What the strand may have to run.  "ok" tells a completion from an error.
Tasks == [kind : {"start", "close"}]
         \cup [kind : {"send"}, msg : Messages]
         \cup [kind : {"read", "write"}, ok : BOOLEAN]

VARIABLES
    tasks,       \* the strand's queue
    started,     \* started_
    closed,      \* closed_
    notified,    \* runs of close_callback_ (it is cleared when it is taken)
    writeQ,      \* writeQ_
    reading,     \* an async_read_some is outstanding
    writing,     \* the message of the outstanding async_write, or NoMessage
    underflow,   \* writeQ_.pop() was called on the empty queue
    sent,        \* calls of Send so far
    closes,      \* calls of Close so far
    reads,       \* reads that completed without error
    wire         \* messages the socket wrote completely, in order

vars == <<tasks, started, closed, notified, writeQ, reading, writing, underflow,
          sent, closes, reads, wire>>

\* CreateSession calls Start once, when it has registered the session.
Init ==
    /\ tasks = <<[kind |-> "start"]>>
    /\ started = FALSE
    /\ closed = FALSE
    /\ notified = 0
    /\ writeQ = << >>
    /\ reading = FALSE
    /\ writing = NoMessage
    /\ underflow = FALSE
    /\ sent = 0
    /\ closes = 0
    /\ reads = 0
    /\ wire = << >>

-----------------------------------------------------------------------------
(* Calls from other threads: each submits a task.                           *)

Send ==
    /\ sent < SendLimit
    /\ sent' = sent + 1
    /\ tasks' = Append(tasks, [kind |-> "send", msg |-> sent + 1])
    /\ UNCHANGED <<started, closed, notified, writeQ, reading, writing, underflow,
                   closes, reads, wire>>

Close ==
    /\ closes < CloseLimit
    /\ closes' = closes + 1
    /\ tasks' = Append(tasks, [kind |-> "close"])
    /\ UNCHANGED <<started, closed, notified, writeQ, reading, writing, underflow,
                   sent, reads, wire>>

-----------------------------------------------------------------------------
(* The socket: an operation completes with success only while the socket    *)
(* is open; closing it makes the outstanding operations fail.               *)

ReadCompletes(ok) ==
    /\ reading
    /\ ok => ~closed /\ reads < ReadLimit
    /\ reading' = FALSE
    /\ reads' = IF ok THEN reads + 1 ELSE reads
    /\ tasks' = Append(tasks, [kind |-> "read", ok |-> ok])
    /\ UNCHANGED <<started, closed, notified, writeQ, writing, underflow,
                   sent, closes, wire>>

WriteCompletes(ok) ==
    /\ writing # NoMessage
    /\ ok => ~closed
    /\ writing' = NoMessage
    /\ wire' = IF ok THEN Append(wire, writing) ELSE wire
    /\ tasks' = Append(tasks, [kind |-> "write", ok |-> ok])
    /\ UNCHANGED <<started, closed, notified, writeQ, reading, underflow,
                   sent, closes, reads>>

-----------------------------------------------------------------------------
(* The strand's handlers.                                                   *)

\* Takes the first task if it is of the given kind.
Runs(kind) ==
    /\ tasks # << >>
    /\ Head(tasks).kind = kind
    /\ tasks' = Tail(tasks)

\* Mutant of DoClose: the guard on closed_ is missing.
DoClose_always ==
    /\ closed' = TRUE
    /\ writeQ' = << >>
    /\ notified' = notified + 1

\* DoClose: only the first call closes the socket, drops the queue and tells
\* the session manager.  (The manager calls Close back on this strand; that
\* call finds closed_ set.)
DoClose ==
    /\ closed' = TRUE
    /\ writeQ' = IF closed THEN writeQ ELSE << >>
    /\ notified' = IF closed THEN notified ELSE notified + 1

\* DoWrite on the queue q: hands its front to the socket.
DoWrite(q) == writing' = IF closed \/ q = << >> THEN writing ELSE Head(q)

RunStart ==
    /\ Runs("start")
    /\ IF started \/ closed
       THEN UNCHANGED <<started, reading>>
       ELSE started' = TRUE /\ reading' = TRUE
    /\ UNCHANGED <<closed, notified, writeQ, writing, underflow, sent, closes, reads, wire>>

\* Mutant of RunSend: every message starts a write of its own.
RunSend_alwaysWrites ==
    /\ Runs("send")
    /\ IF closed
       THEN UNCHANGED <<writeQ, writing>>
       ELSE /\ writeQ' = Append(writeQ, Head(tasks).msg)
            /\ DoWrite(Append(writeQ, Head(tasks).msg))
    /\ UNCHANGED <<started, closed, notified, reading, underflow, sent, closes, reads, wire>>

\* A message is queued; it starts a write only if none is in progress.
RunSend ==
    /\ Runs("send")
    /\ IF closed
       THEN UNCHANGED <<writeQ, writing>>
       ELSE /\ writeQ' = Append(writeQ, Head(tasks).msg)
            /\ IF writeQ = << >>
               THEN DoWrite(Append(writeQ, Head(tasks).msg))
               ELSE UNCHANGED writing
    /\ UNCHANGED <<started, closed, notified, reading, underflow, sent, closes, reads, wire>>

RunClose ==
    /\ Runs("close")
    /\ DoClose
    /\ UNCHANGED <<started, reading, writing, underflow, sent, closes, reads, wire>>

\* Mutant of RunRead: an error is not told from success.
RunRead_ignoresErrors ==
    /\ Runs("read")
    /\ reading' = TRUE
    /\ UNCHANGED <<started, closed, writeQ, notified, writing, underflow, sent, closes,
                   reads, wire>>

\* A read hands its bytes to the session and reads on, or closes.
RunRead ==
    /\ Runs("read")
    /\ IF Head(tasks).ok
       THEN /\ reading' = (reading \/ ~closed)
            /\ UNCHANGED <<closed, writeQ, notified>>
       ELSE /\ DoClose
            /\ UNCHANGED reading
    /\ UNCHANGED <<started, writing, underflow, sent, closes, reads, wire>>

\* Mutant of RunWrite: the next message is not written.
RunWrite_stops ==
    /\ Runs("write")
    /\ IF Head(tasks).ok
       THEN /\ writeQ' = IF writeQ = << >> THEN << >> ELSE Tail(writeQ)
            /\ underflow' = (underflow \/ writeQ = << >>)
            /\ UNCHANGED <<closed, notified, writing>>
       ELSE /\ DoClose
            /\ UNCHANGED <<underflow, writing>>
    /\ UNCHANGED <<started, reading, sent, closes, reads, wire>>

\* A successful write pops its message without looking at closed_: if the
\* connection was closed in between the queue is empty, and pop on an empty
\* std::queue is undefined.  Nothing reads the queue of a closed connection
\* for writing again, so the model records the event and goes on.
RunWrite ==
    /\ Runs("write")
    /\ IF Head(tasks).ok
       THEN /\ writeQ' = IF writeQ = << >> THEN << >> ELSE Tail(writeQ)
            /\ underflow' = (underflow \/ writeQ = << >>)
            /\ DoWrite(writeQ')
            /\ UNCHANGED <<closed, notified>>
       ELSE /\ DoClose
            /\ UNCHANGED <<underflow, writing>>
    /\ UNCHANGED <<started, reading, sent, closes, reads, wire>>

Strand == RunStart \/ RunSend \/ RunClose \/ RunRead \/ RunWrite

Next ==
    \/ Send
    \/ Close
    \/ \E ok \in BOOLEAN : ReadCompletes(ok) \/ WriteCompletes(ok)
    \/ Strand

\* The io threads run every task submitted to a strand, and closing a socket
\* cancels what is outstanding on it.  As long as the socket is open neither a
\* read nor a write need ever complete: a peer may stay connected and neither
\* send nor read, and the code sets no timeout on either.
Fairness ==
    /\ WF_vars(Strand)
    /\ WF_vars(closed /\ WriteCompletes(FALSE))
    /\ WF_vars(closed /\ ReadCompletes(FALSE))

Spec == Init /\ [][Next]_vars /\ Fairness

-----------------------------------------------------------------------------
(* Properties. *)

\* Type invariant.
TypeOK ==
    /\ tasks \in Seq(Tasks)
    /\ started \in BOOLEAN /\ closed \in BOOLEAN
    /\ notified \in 0 .. 1
    /\ writeQ \in Seq(Messages)
    /\ reading \in BOOLEAN
    /\ writing \in Messages \cup {NoMessage}
    /\ underflow \in BOOLEAN
    /\ sent \in 0 .. SendLimit /\ closes \in 0 .. CloseLimit /\ reads \in 0 .. ReadLimit
    /\ wire \in Seq(Messages)

\* The places of the submitted tasks of one kind.
Submitted(kind) == {i \in DOMAIN tasks : tasks[i].kind = kind}

\* While the connection is open there is exactly one write in progress -- at
\* the socket or completed and waiting for its handler -- if the queue has a
\* message, and none if it is empty; it is the write of the front.  Two writes
\* at once would interleave the bytes of two messages.  So a handler pops the
\* queue when it is empty only if the connection was closed under its write.
OneWriteAtATime ==
    /\ underflow => closed
    /\ ~closed =>
        /\ writing # NoMessage =>
              Submitted("write") = {} /\ writeQ # << >> /\ writing = Head(writeQ)
        /\ \A i, j \in Submitted("write") : i = j
        /\ Submitted("write") # {} => writeQ # << >>
        /\ writeQ # << >> => writing # NoMessage \/ Submitted("write") # {}

\* Whatever the order of sends, completions and closes, what is written is the
\* messages in the order of the calls of Send: none twice, none skipped.
WireInOrder == \A i \in DOMAIN wire : wire[i] = i

\* The session manager hears of the end of a connection once, and only then.
CloseNotifiedOnce == notified = (IF closed THEN 1 ELSE 0)

\* One write stays at the socket for good: the peer has stopped reading.
WriteStalls == <>[](writing # NoMessage)

\* Each message handed to Send is written or the connection ends, unless the
\* peer stalls a write for ever: no order of sends, completions and closes
\* leaves a message in the queue with nobody about to write it.
SentIsWrittenOrClosed ==
    WriteStalls \/ \A m \in Messages : sent >= m ~> (closed \/ Len(wire) >= m)

\* A closed connection gets rid of its outstanding operations and tasks, the
\* last holders of the connection object: nothing keeps it alive.
ClosedIsReleased ==
    closed /\ sent = SendLimit /\ closes = CloseLimit
        ~> (tasks = << >> /\ ~reading /\ writing = NoMessage)
=============================================================================
