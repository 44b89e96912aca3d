----------------------------- MODULE SessionIO -----------------------------
(***************************************************************************)
(* One websocket session (src/src/Session.cpp): the strand of its socket,  *)
(* its send queue and its chain of asynchronous operations.                *)
(*                                                                         *)
(* run(), send() and close() may be called by any thread and dispatch to   *)
(* the strand, so a call is a job in `mailbox` and a handler is an action. *)
(* The Beast stream is external: at most one write and one close are       *)
(* outstanding, a close waits for the write in flight, and every operation *)
(* completes (the suggested server timeouts break a stream that hangs).    *)
(***************************************************************************)
EXTENDS Naturals, Sequences, SequencesExt

CONSTANTS
    MaxFrames,  \* frames the server sends through this session
    MaxCloses,  \* calls of close(): shutdown, take-over of the account
    NoFrame

ASSUME SessionAssumption ==
    /\ MaxFrames \in Nat
    /\ MaxCloses \in Nat
    /\ NoFrame \notin 1..MaxFrames

Frame == 1..MaxFrames

VARIABLES
    mailbox,    \* dispatched calls the strand has not run yet: frames, or CloseCall
    sendQueue,  \* m_sendQueue
    closed,     \* m_closed
    writing,    \* the buffer of the outstanding async_write, or NoFrame
    closing,    \* an async_close is outstanding
    reader,     \* the accept/read chain: "accepting", "reading" or "ended"
    reported,   \* m_openHandler and m_closeHandler calls: "no", "open", "closed"
    linkUp,     \* the websocket stream still works
    wire,       \* frames whose write completed without error
    frames,     \* number of frames created so far
    closes      \* number of close() calls so far

vars == <<mailbox, sendQueue, closed, writing, closing, reader, reported,
          linkUp, wire, frames, closes>>

stream == <<closing, reader, reported, linkUp, wire>>
callers == <<frames, closes>>

CloseCall == 0

Init ==
    /\ mailbox = <<>>
    /\ sendQueue = <<>>
    /\ closed = FALSE
    /\ writing = NoFrame
    /\ closing = FALSE
    /\ reader = "accepting"
    /\ reported = "no"
    /\ linkUp = TRUE
    /\ wire = <<>>
    /\ frames = 0
    /\ closes = 0

-----------------------------------------------------------------------------
\* Handlers that run inside the strand.

\* Mutant of StartWrite: back() for front().
StartWriteLast(queue) ==
    writing' = IF closed THEN NoFrame ELSE Last(queue)

\* doWrite() for a queue whose head is the next frame.
StartWrite(queue) ==
    writing' = IF closed THEN NoFrame ELSE Head(queue)

\* Mutant of AcceptFrame: the queue is tested before the frame is pushed.
AcceptFrameTestedEarly(f) ==
    IF closed
    THEN UNCHANGED <<sendQueue, writing>>
    ELSE /\ sendQueue' = Append(sendQueue, f)
         /\ IF Len(sendQueue) = 1 THEN StartWrite(sendQueue') ELSE UNCHANGED writing

\* doSend(): only the frame that finds the queue empty starts a write; the
\* dispatch to doWrite() runs inline because the caller is in the strand.
AcceptFrame(f) ==
    IF closed
    THEN UNCHANGED <<sendQueue, writing>>
    ELSE /\ sendQueue' = Append(sendQueue, f)
         /\ IF Len(sendQueue') = 1 THEN StartWrite(sendQueue') ELSE UNCHANGED writing

\* Mutant of DoSend: a close() that overtakes nothing is taken for a frame.
DoSendAnything ==
    /\ mailbox # <<>>
    /\ mailbox' = Tail(mailbox)
    /\ AcceptFrame(Head(mailbox))
    /\ UNCHANGED <<closed, stream, callers>>

DoSend ==
    /\ mailbox # <<>>
    /\ Head(mailbox) # CloseCall
    /\ mailbox' = Tail(mailbox)
    /\ AcceptFrame(Head(mailbox))
    /\ UNCHANGED <<closed, stream, callers>>

\* Mutant of DoClose: the queue is drained at once, not after the close.
DoCloseDraining ==
    /\ mailbox # <<>>
    /\ Head(mailbox) = CloseCall
    /\ mailbox' = Tail(mailbox)
    /\ closed' = TRUE
    /\ closing' = (closing \/ ~closed)
    /\ sendQueue' = <<>>
    /\ UNCHANGED <<writing, reader, reported, linkUp, wire, callers>>

DoClose ==
    /\ mailbox # <<>>
    /\ Head(mailbox) = CloseCall
    /\ mailbox' = Tail(mailbox)
    /\ closed' = TRUE
    /\ closing' = (closing \/ ~closed)
    /\ UNCHANGED <<sendQueue, writing, reader, reported, linkUp, wire, callers>>

OnAccept ==
    /\ reader = "accepting"
    /\ linkUp
    /\ reader' = "reading"
    /\ reported' = "open"
    /\ UNCHANGED <<mailbox, sendQueue, closed, writing, closing, linkUp, wire, callers>>

\* onAccept() with an error: nobody is told, the session is simply dropped.
OnAcceptError ==
    /\ reader = "accepting"
    /\ ~linkUp
    /\ reader' = "ended"
    /\ UNCHANGED <<mailbox, sendQueue, closed, writing, closing, reported, linkUp,
                   wire, callers>>

\* onRead(): the message handler may answer through send(), which dispatches
\* inline; a message without an answer changes nothing here.
OnRead ==
    /\ reader = "reading"
    /\ linkUp
    /\ frames < MaxFrames
    /\ frames' = frames + 1
    /\ AcceptFrame(frames')
    /\ UNCHANGED <<mailbox, closed, stream, closes>>

\* Mutant of OnReadError: a session that was closed by the server ends silently.
OnReadErrorUnlessClosed ==
    /\ reader = "reading"
    /\ ~linkUp
    /\ reader' = "ended"
    /\ reported' = IF closed THEN reported ELSE "closed"
    /\ UNCHANGED <<mailbox, sendQueue, closed, writing, closing, linkUp, wire, callers>>

OnReadError ==
    /\ reader = "reading"
    /\ ~linkUp
    /\ reader' = "ended"
    /\ reported' = "closed"
    /\ UNCHANGED <<mailbox, sendQueue, closed, writing, closing, linkUp, wire, callers>>

\* Mutant of OnWrite: an error ends the chain before the frame is popped.
OnWriteStopsAtError ==
    /\ writing # NoFrame
    /\ wire' = IF linkUp THEN Append(wire, writing) ELSE wire
    /\ sendQueue' = IF linkUp THEN Tail(sendQueue) ELSE sendQueue
    /\ IF linkUp /\ sendQueue' # <<>> THEN StartWrite(sendQueue') ELSE writing' = NoFrame
    /\ UNCHANGED <<mailbox, closed, closing, reader, reported, linkUp, callers>>

\* onWrite(): the frame is popped whether or not it was written.
OnWrite ==
    /\ writing # NoFrame
    /\ wire' = IF linkUp THEN Append(wire, writing) ELSE wire
    /\ sendQueue' = Tail(sendQueue)
    /\ IF sendQueue' # <<>> THEN StartWrite(sendQueue') ELSE writing' = NoFrame
    /\ UNCHANGED <<mailbox, closed, closing, reader, reported, linkUp, callers>>

\* Mutant of OnClose: m_sendQueue is not cleared.
OnCloseKeepingQueue ==
    /\ closing
    /\ writing = NoFrame
    /\ closing' = FALSE
    /\ linkUp' = FALSE
    /\ UNCHANGED <<mailbox, sendQueue, closed, writing, reader, reported, wire, callers>>

\* onClose(): Beast completes a close after the write that was in flight.
OnClose ==
    /\ closing
    /\ writing = NoFrame
    /\ closing' = FALSE
    /\ linkUp' = FALSE
    /\ sendQueue' = <<>>
    /\ UNCHANGED <<mailbox, closed, writing, reader, reported, wire, callers>>

-----------------------------------------------------------------------------
\* The rest of the program and the peer.

\* Sessions are published by the open handler, so nobody calls them earlier.
Send ==
    /\ reported # "no"
    /\ frames < MaxFrames
    /\ frames' = frames + 1
    /\ mailbox' = Append(mailbox, frames')
    /\ UNCHANGED <<sendQueue, closed, writing, stream, closes>>

Close ==
    /\ reported # "no"
    /\ closes < MaxCloses
    /\ closes' = closes + 1
    /\ mailbox' = Append(mailbox, CloseCall)
    /\ UNCHANGED <<sendQueue, closed, writing, stream, frames>>

\* The peer leaves, the network fails or a Beast timeout expires.
LinkLost ==
    /\ linkUp
    /\ linkUp' = FALSE
    /\ UNCHANGED <<mailbox, sendQueue, closed, writing, closing, reader, reported,
                   wire, callers>>

Strand ==
    \/ DoSend
    \/ DoClose
    \/ OnAccept
    \/ OnAcceptError
    \/ OnRead
    \/ OnReadError
    \/ OnWrite
    \/ OnClose

Next ==
    \/ Strand
    \/ Send
    \/ Close
    \/ LinkLost

Spec == Init /\ [][Next]_vars

\* The strand runs what is dispatched to it and Beast completes what was
\* started; nothing obliges a peer to talk or a caller to call.
Fairness ==
    /\ WF_vars(DoSend \/ DoClose)
    /\ WF_vars(OnWrite)
    /\ WF_vars(OnClose)
    /\ WF_vars(OnAccept \/ OnAcceptError)
    /\ WF_vars(OnReadError)

FairSpec == Spec /\ Fairness

-----------------------------------------------------------------------------
TypeOK ==
    /\ mailbox \in Seq(Frame \cup {CloseCall})
    /\ sendQueue \in Seq(Frame)
    /\ closed \in BOOLEAN
    /\ writing \in Frame \cup {NoFrame}
    /\ closing \in BOOLEAN
    /\ reader \in {"accepting", "reading", "ended"}
    /\ reported \in {"no", "open", "closed"}
    /\ linkUp \in BOOLEAN
    /\ wire \in Seq(Frame)
    /\ frames \in 0..MaxFrames
    /\ closes \in 0..MaxCloses

\* The buffer of the write in flight is the head of the send queue: it stays
\* alive until onWrite(), which never pops an empty queue, and onClose() never
\* drains the queue under a write.
WriteOwnsHead ==
    writing # NoFrame => sendQueue # <<>> /\ writing = Head(sendQueue)

\* No wake-up is lost: while the session is open, a queued frame has a write in
\* flight, since doSend() starts one only for the first frame of the queue.
NoLostWakeup ==
    ~closed /\ sendQueue # <<>> => writing # NoFrame

\* A closed session still has its async_close outstanding, or its queue is
\* empty for good.
ClosedIsDrained ==
    closed /\ ~closing => sendQueue = <<>> /\ writing = NoFrame

\* The send queue over an unreliable stream is the channel of SendChannel.
Channel == INSTANCE SendChannel WITH
    pending <- sendQueue, delivered <- wire, broken <- ~linkUp

ImplementsChannel == Channel!Spec

\* A frame that enters the queue leaves it, written or dropped.
QueueDrains ==
    \A f \in Frame : f \in Range(sendQueue) ~> f \notin Range(sendQueue)

\* A session announced to the application is taken back by the close handler
\* once its stream fails or it was closed: Application::m_sessions has no leak.
CloseIsReported ==
    reported = "open" /\ (~linkUp \/ closed) ~> reported = "closed"
=============================================================================
