---------------------------- MODULE SendChannel ----------------------------
(***************************************************************************)
(* What a websocket session promises to whoever sends through it: frames   *)
(* reach the peer in the order they were accepted, each at most once, and  *)
(* without a gap.  A frame may be lost only together with every frame      *)
(* behind it, because the stream broke or because the session was closed.  *)
(***************************************************************************)
EXTENDS Sequences

CONSTANT Frame

VARIABLES
    pending,    \* accepted frames the peer has not got yet, oldest first
    delivered,  \* frames the peer got, in order
    broken      \* nothing can be delivered any more

vars == <<pending, delivered, broken>>

TypeOK ==
    /\ pending \in Seq(Frame)
    /\ delivered \in Seq(Frame)
    /\ broken \in BOOLEAN

Init ==
    /\ pending = <<>>
    /\ delivered = <<>>
    /\ broken = FALSE

Accept(f) ==
    /\ pending' = Append(pending, f)
    /\ UNCHANGED <<delivered, broken>>

Deliver ==
    /\ ~broken
    /\ pending # <<>>
    /\ delivered' = Append(delivered, Head(pending))
    /\ pending' = Tail(pending)
    /\ UNCHANGED broken

\* The stream broke, with or without a frame on its way.
Break ==
    /\ broken' = TRUE
    /\ UNCHANGED <<pending, delivered>>

\* After the break frames are dropped one by one ...
Drop ==
    /\ broken
    /\ pending # <<>>
    /\ pending' = Tail(pending)
    /\ UNCHANGED <<delivered, broken>>

\* ... and closing the session drops all that is left.
Close ==
    /\ broken' = TRUE
    /\ pending' = <<>>
    /\ UNCHANGED delivered

Next ==
    \/ \E f \in Frame : Accept(f)
    \/ Deliver
    \/ Break
    \/ Drop
    \/ Close

Spec == Init /\ [][Next]_vars
=============================================================================
