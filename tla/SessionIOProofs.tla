-------------------------- MODULE SessionIOProofs --------------------------
(***************************************************************************)
(* Proofs about SessionIO, for any number of frames and close() calls: the *)
(* send queue is safe to use, no wake-up is lost, and the session is the   *)
(* channel that SendChannel promises.                                      *)
(***************************************************************************)
EXTENDS SessionIO, SequenceTheorems, TLAPS

\* The conjuncts of the inductive invariant that no run needs on its own: an
\* outstanding close belongs to a closed session.
ClosingIsClosed == closing => closed

IInv ==
    /\ TypeOK
    /\ WriteOwnsHead
    /\ NoLostWakeup
    /\ ClosedIsDrained
    /\ ClosingIsClosed

-----------------------------------------------------------------------------
\* A frame taken in by doSend() keeps the queue and the write in flight in
\* step, whoever called send().
LEMMA AcceptFrameKeepsIInv ==
    ASSUME SessionAssumption, IInv, NEW f \in Frame, AcceptFrame(f),
           closed' = closed, closing' = closing
    PROVE  /\ sendQueue' \in Seq(Frame)
           /\ writing' \in Frame \cup {NoFrame}
           /\ WriteOwnsHead'
           /\ NoLostWakeup'
           /\ ClosedIsDrained'
           /\ ClosingIsClosed'
<1> USE DEF IInv, TypeOK, WriteOwnsHead, NoLostWakeup, ClosedIsDrained, ClosingIsClosed
<1>1. CASE closed
    BY <1>1 DEF AcceptFrame
<1>2. CASE ~closed
    <2>1. sendQueue' = Append(sendQueue, f)
        BY <1>2 DEF AcceptFrame
    <2>2. /\ sendQueue' \in Seq(Frame)
          /\ sendQueue' # <<>>
          /\ Len(sendQueue') = Len(sendQueue) + 1
        BY <2>1, AppendProperties
    <2>3. CASE sendQueue = <<>>
        <3>1. Len(sendQueue') = 1
            BY <2>2, <2>3
        <3>2. Head(sendQueue') = f
            BY <2>1, <2>3
        <3>3. writing' = f
            BY <1>2, <3>1, <3>2 DEF AcceptFrame, StartWrite
        <3> QED
            BY <1>2, <2>2, <3>2, <3>3 DEF Frame
    <2>4. CASE sendQueue # <<>>
        <3>1. Len(sendQueue') # 1
            BY <2>2, <2>4, EmptySeq
        <3>2. Head(sendQueue') = Head(sendQueue)
            BY <2>1, <2>4, AppendProperties
        <3>3. writing' = writing
            BY <1>2, <3>1 DEF AcceptFrame
        <3> QED
            BY <1>2, <2>2, <2>4, <3>2, <3>3
    <2> QED
        BY <2>3, <2>4
<1> QED
    BY <1>1, <1>2

\* A session that was just accepted satisfies the invariant.
LEMMA InitIInv == SessionAssumption /\ Init => IInv
<1> SUFFICES ASSUME SessionAssumption, Init
             PROVE  IInv
    OBVIOUS
<1>1. TypeOK
    <2>1. <<>> \in Seq(Frame) /\ <<>> \in Seq(Frame \cup {CloseCall})
        OBVIOUS
    <2>2. 0 \in 0..MaxFrames /\ 0 \in 0..MaxCloses
        BY DEF SessionAssumption
    <2> QED
        BY <2>1, <2>2 DEF Init, TypeOK
<1> QED
    BY <1>1 DEF Init, IInv, WriteOwnsHead, NoLostWakeup, ClosedIsDrained,
                ClosingIsClosed

\* Every handler and every call keeps the invariant.
LEMMA StepIInv ==
    ASSUME SessionAssumption, IInv, [Next]_vars
    PROVE  IInv'
<1> USE DEF IInv, WriteOwnsHead, NoLostWakeup, ClosedIsDrained, ClosingIsClosed
<1>1. CASE DoSend
    <2>1. /\ Head(mailbox) \in Frame
          /\ mailbox' \in Seq(Frame \cup {CloseCall})
        BY <1>1, HeadTailProperties DEF DoSend, TypeOK
    <2>2. /\ closed' = closed
          /\ closing' = closing
          /\ AcceptFrame(Head(mailbox))
        BY <1>1 DEF DoSend, stream
    <2>3. TypeOK'
        BY <1>1, <2>1, <2>2, AcceptFrameKeepsIInv DEF DoSend, TypeOK, stream, callers
    <2> QED
        BY <2>1, <2>2, <2>3, AcceptFrameKeepsIInv
<1>2. CASE DoClose
    <2>1. TypeOK'
        BY <1>2, HeadTailProperties DEF DoClose, TypeOK, callers
    <2> QED
        BY <1>2, <2>1 DEF DoClose
<1>3. CASE OnAccept
    BY <1>3 DEF OnAccept, TypeOK, callers
<1>4. CASE OnAcceptError
    BY <1>4 DEF OnAcceptError, TypeOK, callers
<1>5. CASE OnRead
    <2>1. frames' \in 0..MaxFrames /\ frames' \in Frame
        BY <1>5 DEF OnRead, TypeOK, Frame, SessionAssumption
    <2>2. /\ closed' = closed
          /\ closing' = closing
          /\ AcceptFrame(frames')
        BY <1>5 DEF OnRead, stream
    <2>3. TypeOK'
        BY <1>5, <2>1, <2>2, AcceptFrameKeepsIInv DEF OnRead, TypeOK, stream
    <2> QED
        BY <2>1, <2>2, <2>3, AcceptFrameKeepsIInv
<1>6. CASE OnReadError
    BY <1>6 DEF OnReadError, TypeOK, callers
<1>7. CASE OnWrite
    <2>1. /\ sendQueue # <<>>
          /\ writing \in Frame
          /\ sendQueue' \in Seq(Frame)
          /\ sendQueue' # <<>> => Head(sendQueue') \in Frame
        BY <1>7, HeadTailProperties DEF OnWrite, TypeOK
    <2>2. wire' \in Seq(Frame)
        BY <1>7, <2>1, AppendProperties DEF OnWrite, TypeOK
    <2>3. TypeOK'
        BY <1>7, <2>1, <2>2 DEF OnWrite, StartWrite, TypeOK, callers
    <2>4. Head(sendQueue') # NoFrame \/ sendQueue' = <<>>
        BY <2>1 DEF SessionAssumption, Frame
    <2> QED
        BY <1>7, <2>3, <2>4 DEF OnWrite, StartWrite
<1>8. CASE OnClose
    BY <1>8, EmptySeq DEF OnClose, TypeOK, callers
<1>9. CASE Send
    <2>1. frames' \in 0..MaxFrames /\ frames' \in Frame
        BY <1>9 DEF Send, TypeOK, Frame, SessionAssumption
    <2>2. mailbox' \in Seq(Frame \cup {CloseCall})
        BY <1>9, <2>1, AppendProperties DEF Send, TypeOK
    <2> QED
        BY <1>9, <2>1, <2>2 DEF Send, TypeOK, stream
<1>10. CASE Close
    <2>1. closes' \in 0..MaxCloses
        BY <1>10 DEF Close, TypeOK, SessionAssumption
    <2>2. mailbox' \in Seq(Frame \cup {CloseCall})
        BY <1>10, AppendProperties DEF Close, TypeOK
    <2> QED
        BY <1>10, <2>1, <2>2 DEF Close, TypeOK, stream
<1>11. CASE LinkLost
    BY <1>11 DEF LinkLost, TypeOK, callers
<1>12. CASE UNCHANGED vars
    BY <1>12 DEF vars, TypeOK
<1> QED
    BY <1>1, <1>2, <1>3, <1>4, <1>5, <1>6, <1>7, <1>8, <1>9, <1>10, <1>11, <1>12
       DEF Next, Strand

-----------------------------------------------------------------------------
\* Every reachable state of a session is well typed, its write in flight owns
\* the head of the queue, no queued frame waits without a write, and a closed
\* session is drained (Session::doSend, doWrite, onWrite, doClose, onClose).
THEOREM SessionSafe ==
    ASSUME SessionAssumption
    PROVE  Spec => [](TypeOK /\ WriteOwnsHead /\ NoLostWakeup /\ ClosedIsDrained)
<1>1. Init => IInv
    BY InitIInv
<1>2. IInv /\ [Next]_vars => IInv'
    BY StepIInv
<1>3. IInv => TypeOK /\ WriteOwnsHead /\ NoLostWakeup /\ ClosedIsDrained
    BY DEF IInv
<1> QED
    BY <1>1, <1>2, <1>3, PTL DEF Spec

\* Types of the queue, the write in flight and the close of a session.
THEOREM SessionTypeOK ==
    ASSUME SessionAssumption
    PROVE  Spec => []TypeOK
BY SessionSafe, PTL

\* doSend() starts a write only for the first frame of the queue and relies on
\* onWrite() for the others: no frame waits while no write is in flight.
THEOREM SessionNoLostWakeup ==
    ASSUME SessionAssumption
    PROVE  Spec => []NoLostWakeup
BY SessionSafe, PTL

\* onClose() empties the queue, and nothing is queued behind it.
THEOREM SessionClosedIsDrained ==
    ASSUME SessionAssumption
    PROVE  Spec => []ClosedIsDrained
BY SessionSafe, PTL

\* The send queue, the completed writes and the broken stream of a session
\* behave as the channel of SendChannel: order is kept, nothing is written
\* twice and what is lost is always a tail.
THEOREM SessionIsAChannel ==
    ASSUME SessionAssumption
    PROVE  Spec => ImplementsChannel
<1> USE DEF Channel!Next, Channel!vars
<1>1. Init => Channel!Init
    BY DEF Init, Channel!Init
<1>2. ASSUME IInv, [Next]_vars
      PROVE  [Channel!Next]_(Channel!vars)
    <2> DEFINE Quiet == UNCHANGED <<sendQueue, wire, linkUp>>
    <2>1. ASSUME NEW f \in Frame, AcceptFrame(f), UNCHANGED <<wire, linkUp>>
          PROVE  [Channel!Next]_(Channel!vars)
        BY <2>1 DEF AcceptFrame, Channel!Accept
    <2>2. CASE DoSend
        <3>1. Head(mailbox) \in Frame
            BY <1>2, <2>2, HeadTailProperties DEF DoSend, IInv, TypeOK
        <3> QED
            BY <2>1, <2>2, <3>1 DEF DoSend, stream
    <2>3. CASE OnRead
        <3>1. frames' \in Frame
            BY <1>2, <2>3 DEF OnRead, IInv, TypeOK, Frame, SessionAssumption
        <3> QED
            BY <2>1, <2>3, <3>1 DEF OnRead, stream
    <2>4. CASE OnWrite
        <3>1. sendQueue # <<>> /\ writing = Head(sendQueue)
            BY <1>2, <2>4 DEF OnWrite, IInv, WriteOwnsHead
        <3>2. CASE linkUp
            BY <2>4, <3>1, <3>2 DEF OnWrite, Channel!Deliver
        <3>3. CASE ~linkUp
            BY <2>4, <3>1, <3>3 DEF OnWrite, Channel!Drop
        <3> QED
            BY <3>2, <3>3
    <2>5. CASE OnClose
        BY <2>5 DEF OnClose, Channel!Close
    <2>6. CASE LinkLost
        BY <2>6 DEF LinkLost, Channel!Break
    <2>7. CASE DoClose \/ OnAccept \/ OnAcceptError \/ OnReadError \/ Send \/ Close
               \/ UNCHANGED vars
        <3>1. Quiet
            BY <2>7 DEF DoClose, OnAccept, OnAcceptError, OnReadError, Send, Close,
                        stream, vars
        <3> QED
            BY <3>1
    <2> QED
        BY <1>2, <2>2, <2>3, <2>4, <2>5, <2>6, <2>7 DEF Next, Strand
<1>3. Spec => []IInv
    <2>1. Init => IInv
        BY InitIInv
    <2>2. IInv /\ [Next]_vars => IInv'
        BY StepIInv
    <2> QED
        BY <2>1, <2>2, PTL DEF Spec
<1> QED
    BY <1>1, <1>2, <1>3, PTL DEF Spec, Channel!Spec, ImplementsChannel
=============================================================================
