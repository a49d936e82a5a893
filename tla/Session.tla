------------------------------- MODULE Session ------------------------------
(***************************************************************************)
(* One direction of a session of the rdma_unreliable protocol: the Context *)
(* of a sending node, the Context of a receiving node and the UD fabric    *)
(* between them.                                                           *)
(*                                                                         *)
(* Context::runStep polls the receive completions, sends acknowledgements, *)
(* sends data and polls the send completions; each phase is an action      *)
(* here.  The two nodes share nothing but the fabric, a poll may find      *)
(* nothing, and an acknowledgement phase does nothing while an             *)
(* acknowledgement is in flight, so every interleaving of the phases is    *)
(* one of repeated runSteps.                                               *)
(*                                                                         *)
(* Clock readings are abstracted.  Whether the retransmission timeout of a *)
(* sent packet has expired is a free choice of SendDataPackets.  The       *)
(* window sizes that congestion control computes are free choices within   *)
(* WindowContract, which CongestionControl shows the code's formulas keep. *)
(***************************************************************************)
EXTENDS SendQueue, ReceiveQueue, WindowContract

CONSTANTS
    MinAckWnd,          \* kMinWindowSize of sendAckPackets (8)
    MaxLag,             \* fabric: a packet is gone once the sender is this far ahead
    EarlyPolling,       \* the receiver's runStep may run before its receive()
    AckPostMayFail      \* postSendRequest of an ACK may find the queue pair full

ASSUME SessionAssumption ==
    /\ MinAckWnd \in Nat \ {0}
    /\ MaxLag \in Nat
    /\ EarlyPolling \in BOOLEAN
    /\ AckPostMayFail \in BOOLEAN

VARIABLES
    cwnd,           \* sender: SessionInfo::cwnd
    ackDue,         \* receiver: SessionInfo::ack_packets < recv_packets
    ackInflight,    \* receiver: ack_handle.inflight
    ackPosted,      \* receiver: an ACK request is on the queue pair
    rFault,         \* receiver: how the process died, or "none"
    dataNet,        \* data packets in the fabric
    ackNet          \* acknowledgements in the fabric

contextVars == <<cwnd, ackDue, ackInflight, ackPosted, rFault>>
vars == <<sendQueueVars, receiveQueueVars, contextVars, dataNet, ackNet>>

Ack == [ack : 0..NumFragments, wnd : 0..Max2(WndSize + 1, MinAckWnd)]

Init ==
    /\ SendQueueInit
    /\ ReceiveQueueInit
    /\ cwnd = 1
    /\ ackDue = FALSE
    /\ ackInflight = FALSE
    /\ ackPosted = FALSE
    /\ rFault = "none"
    /\ dataNet = {}
    /\ ackNet = {}

(***************************************************************************)
(* The fabric.  A message is alive until the send queue is more than       *)
(* MaxLag packets ahead of it.  A message may stay in the fabric when it   *)
(* is received: retransmissions leave several copies of it in flight.      *)
(***************************************************************************)
AliveData(net, head) == {p \in net : p + MaxLag >= head}
AliveAcks(net, head) == {a \in net : a.ack + MaxLag >= head}

Received(net, m) == {net, net \ {m}}

(***************************************************************************)
(* Applications.                                                           *)
(***************************************************************************)

\* Context::send.
AppSend ==
    /\ SendPush
    /\ dataNet' = AliveData(dataNet, sHead')
    /\ ackNet' = AliveAcks(ackNet, sHead')
    /\ UNCHANGED <<receiveQueueVars, contextVars>>

\* Context::receive.
AppReceive ==
    /\ rFault = "none"
    /\ ReceivePush
    /\ UNCHANGED <<sendQueueVars, contextVars, dataNet, ackNet>>

(***************************************************************************)
(* Sender.                                                                 *)
(***************************************************************************)

(***************************************************************************)
(* sendDataPackets: n packets from the tail on are sent.  The loop ends at *)
(* the congestion window or at the first packet whose timeout runs; a      *)
(* packet that was never sent (ts = 0) does not stop it.  The loop works   *)
(* on a copy of the SessionInfo, so of the congestion state it changes     *)
(* only the window of the queue survives.  A packet that does not fit the  *)
(* queue pair is dropped with its ts set, which is a loss in the fabric.   *)
(***************************************************************************)
SendLimit == Min2(sHead, sTail + cwnd)

SendDataPackets ==
    \E n \in 1..(SendLimit - sTail) :
        LET batch  == {SlotOf(i) : i \in sTail..(sTail + n - 1)}
            resent == \E s \in batch : sSlot[s].sent
        IN  /\ sTail + n = SendLimit \/ sSlot[SlotOf(sTail + n)].sent
            /\ dataNet' = dataNet \cup {sSlot[s].frag : s \in batch}
            /\ sSlot' = [s \in Slots |->
                            IF s \in batch THEN [sSlot[s] EXCEPT !.sent = TRUE]
                                           ELSE sSlot[s]]
            /\ IF resent THEN \E w \in BackoffWnds(cwnd) : sWnd' = ClampedWnd(w)
                         ELSE UNCHANGED sWnd
            /\ UNCHANGED <<sPosted, sHead, sTail, receiveQueueVars, contextVars, ackNet>>

\* processReceivedPacket of the acknowledgement a.
ReceiveAck(a) ==
    /\ a \in ackNet
    /\ SendMarkCompleted(SHORT_SN(a.ack))
    /\ cwnd' \in SuccessWnds(cwnd, a.wnd)
    /\ sWnd' = ClampedWnd(cwnd')
    /\ \E net \in Received(ackNet, a) : ackNet' = AliveAcks(net, sHead')
    /\ dataNet' = AliveData(dataNet, sHead')
    /\ UNCHANGED <<receiveQueueVars, ackDue, ackInflight, ackPosted, rFault>>

(***************************************************************************)
(* Receiver.                                                               *)
(***************************************************************************)

\* How processReceivedPacket of a data packet ends: an assert when receive() has
\* not created the session yet, an abort on a length mismatch, or well.
Outcome(p) ==
    CASE rPosted = 0       -> "assert"
      [] LengthMismatch(p) -> "abort"
      [] OTHER             -> "none"

\* processReceivedPacket of the data packet of fragment p.
ReceiveData(p) ==
    /\ rFault = "none"
    /\ rPosted > 0 \/ EarlyPolling
    /\ p \in dataNet
    /\ dataNet' \in Received(dataNet, p)
    /\ rFault' = Outcome(p)
    /\ IF rFault' = "none"
       THEN ReceiveMarkCompleted(p) /\ ackDue' = TRUE
       ELSE UNCHANGED <<receiveQueueVars, ackDue>>
    /\ UNCHANGED <<sendQueueVars, cwnd, ackInflight, ackPosted, ackNet>>

\* sendAckPackets: ack_handle is marked in flight before the post, and stays
\* so when the post fails.
SendAckPackets ==
    /\ rFault = "none"
    /\ ackDue
    /\ ~ackInflight
    /\ ackInflight' = TRUE
    /\ \/ /\ ackNet' = ackNet \cup
                {[ack |-> rTail, wnd |-> Max2(rHead - rTail, MinAckWnd)]}
          /\ ackPosted' = TRUE
          /\ ackDue' = FALSE
       \/ /\ AckPostMayFail
          /\ UNCHANGED <<ackNet, ackPosted, ackDue>>
    /\ UNCHANGED <<sendQueueVars, receiveQueueVars, cwnd, rFault, dataNet>>

\* Variant: inflight is not reset.
AckSentForgotten ==
    /\ rFault = "none"
    /\ ackPosted
    /\ ackPosted' = FALSE
    /\ UNCHANGED <<sendQueueVars, receiveQueueVars, cwnd, ackDue, ackInflight,
                   rFault, dataNet, ackNet>>

\* processReceivedPacket of the send completion of an acknowledgement.
AckSent ==
    /\ rFault = "none"
    /\ ackPosted
    /\ ackPosted' = FALSE
    /\ ackInflight' = FALSE
    /\ UNCHANGED <<sendQueueVars, receiveQueueVars, cwnd, ackDue, rFault, dataNet, ackNet>>

(***************************************************************************)
(* The fabric loses any message.                                           *)
(***************************************************************************)
LoseData ==
    /\ \E p \in dataNet : dataNet' = dataNet \ {p}
    /\ UNCHANGED <<sendQueueVars, receiveQueueVars, contextVars, ackNet>>

LoseAck ==
    /\ \E a \in ackNet : ackNet' = ackNet \ {a}
    /\ UNCHANGED <<sendQueueVars, receiveQueueVars, contextVars, dataNet>>

Next ==
    \/ AppSend
    \/ AppReceive
    \/ SendDataPackets
    \/ \E a \in ackNet : ReceiveAck(a)
    \/ \E p \in dataNet : ReceiveData(p)
    \/ SendAckPackets
    \/ AckSent
    \/ LoseData
    \/ LoseAck

Spec == Init /\ [][Next]_vars

(***************************************************************************)
(* Fairness.  Both applications hand over all their tasks and then poll    *)
(* getStatus, which calls runStep, so every phase of runStep is repeated   *)
(* for ever and the clock passes every timeout.  The fabric may lose any   *)
(* message, but neither every copy of the oldest unacknowledged packet,    *)
(* which is sent again and again, nor every acknowledgement of progress.   *)
(***************************************************************************)
Fairness ==
    /\ WF_vars(AppSend)
    /\ WF_vars(AppReceive)
    /\ WF_vars(SendDataPackets)
    /\ WF_vars(SendAckPackets)
    /\ WF_vars(AckSent)
    /\ SF_vars(ReceiveData(sTail))
    /\ SF_vars(\E a \in ackNet : a.ack > sTail /\ ReceiveAck(a))

FairSpec == Spec /\ Fairness

(***************************************************************************)
(* The constants under which the session is correct.  MaxWnd bounds the    *)
(* window of the send queue; fillPrimaryQueue keeps one packet more than   *)
(* the window in the ring.  Slots are found from short numbers, so the     *)
(* ring must divide the number space, and the fabric must forget a packet  *)
(* before its number can be mistaken for that of a packet in the window.   *)
(***************************************************************************)
MaxWnd == Max2(Max2(WndSize + 1, MinAckWnd), MinSSThresh + ResendValue)

SafeConstants ==
    /\ MaxWnd + 1 <= QueueCapacity
    /\ MaxWnd + 1 < SNSpace
    /\ SNSpace % QueueCapacity = 0
    /\ MaxWnd + 1 <= MaxLag
    /\ MaxLag + WndSize <= SNSpace
    /\ ~EarlyPolling

(***************************************************************************)
(* Properties.                                                             *)
(***************************************************************************)

\* Both queues, the congestion window and the fabric hold values of the right kind.
TypeOK ==
    /\ SendQueueTypeOK
    /\ ReceiveQueueTypeOK
    /\ cwnd \in Nat
    /\ ackDue \in BOOLEAN
    /\ ackInflight \in BOOLEAN
    /\ ackPosted \in BOOLEAN
    /\ rFault \in {"none", "assert", "abort"}
    /\ dataNet \subseteq Fragments
    /\ ackNet \subseteq Ack

\* Whatever is lost, duplicated or reordered, ReceiveQueue::markCompleted
\* copies only fragment i into buffer i, and every buffer behind the tail of
\* the receive queue has been written.
Integrity ==
    /\ \A i \in Fragments : mem[i] \in {NoFragment, i}
    /\ \A i \in 0..(rTail - 1) : mem[i] = i

\* SendQueue::markCompleted never gives up a packet that the receiver does
\* not have: everything behind the tail of the send queue was delivered.
AckedIsDelivered ==
    \A i \in 0..(sTail - 1) : mem[i] = i

\* fillPrimaryQueue never reuses the slot of a packet that is not yet
\* acknowledged, or of a request that is not yet completed.
RingIntact ==
    /\ \A i \in sTail..(sHead - 1) : sSlot[SlotOf(i)].frag = i
    /\ \A i \in rTail..(rHead - 1) : rSlot[SlotOf(i)].buf = i

\* The receiving process is not ended by the length check of markCompleted.
NoAbort == rFault # "abort"

\* The assert of processReceivedPacket: a data packet is processed only after
\* receive() has created the session it belongs to.
SessionActive == rFault # "assert"

\* getStatus reports SUCCESS for a send task only when all its fragments are
\* in the receiver's memory, and for a receive task only when, moreover, no
\* outstanding request can write to its buffers any more.
StatusSound ==
    /\ \A t \in 1..sPosted : SendDone(t) => \A i \in 0..(End[t] - 1) : mem[i] = i
    /\ \A t \in 1..rPosted : ReceiveDone(t) =>
            /\ \A i \in 0..(End[t] - 1) : mem[i] = i
            /\ \A s \in Slots : rSlot[s].inflight => rSlot[s].buf >= End[t]

\* A task that getStatus reported SUCCESS does not become PENDING again.
StatusStable ==
    [][/\ \A t \in 1..sPosted : SendDone(t) => SendDone(t)'
       /\ \A t \in 1..rPosted : ReceiveDone(t) => ReceiveDone(t)']_vars

(***************************************************************************)
(* The inductive invariant.  The queues overlap (sTail <= rTail <= sHead), *)
(* both rings hold what their indices say, every completed request holds   *)
(* its fragment, and the fabric holds no message from outside the          *)
(* sequence-number horizon.                                                *)
(***************************************************************************)
Windows ==
    /\ cwnd <= MaxWnd /\ sWnd <= MaxWnd
    /\ sTail <= rTail /\ rTail <= sHead
    /\ sHead <= sTail + MaxWnd + 1 /\ sHead <= End[sPosted]
    /\ rTail <= rHead
    /\ rHead <= rTail + WndSize + 1 /\ rHead <= End[rPosted]

Requests ==
    /\ \A s \in Slots : rSlot[s].inflight =>
          /\ rSlot[s].buf \in rTail..(rHead - 1)
          /\ SlotOf(rSlot[s].buf) = s
    /\ \A i \in rTail..(rHead - 1) : ~rSlot[SlotOf(i)].inflight =>
          /\ mem[i] = i
          /\ i < sHead

Horizon ==
    /\ \A p \in dataNet : p < sHead /\ sHead <= p + MaxLag
    /\ \A a \in ackNet : a.ack <= rTail /\ sHead <= a.ack + MaxLag

IndInv ==
    /\ TypeOK
    /\ Windows
    /\ RingIntact
    /\ Requests
    /\ Integrity
    /\ Horizon
    /\ rFault = "none"

(***************************************************************************)
(* The session implements ReliableStream.                                  *)
(***************************************************************************)
Stream == INSTANCE ReliableStream WITH
    offered   <- End[sPosted],
    wanted    <- End[rPosted],
    received  <- [i \in 0..(rTail - 1) |-> mem[i]],
    confirmed <- sTail

\* Every behaviour of the session, seen through the tails of its queues and
\* the receiver's memory, is one of the reliable in-order stream.
ImplementsStream == Stream!StreamSafety

\* Under the fairness above the stream is also live: what both applications
\* have posted is delivered, and what is delivered is confirmed.
ImplementsLiveStream == Stream!StreamSpec

\* When both applications have posted all their tasks, getStatus eventually
\* reports every one of them SUCCESS, for good.
AllSucceed ==
    <>[](/\ sPosted = NumTasks /\ rPosted = NumTasks
         /\ \A t \in 1..NumTasks : SendDone(t) /\ ReceiveDone(t))
=============================================================================
