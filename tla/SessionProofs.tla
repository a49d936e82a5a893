---------------------------- MODULE SessionProofs ---------------------------
(***************************************************************************)
(* IndInv is an inductive invariant of Session for all safe constants, and *)
(* the theorems that follow from it.                                       *)
(***************************************************************************)
EXTENDS Session, PacketRingProofs

USE Zenon

\* Types of the constants.
LEMMA ConstantTypes ==
    /\ SNSpace \in Nat \ {0}
    /\ QueueCapacity \in Nat \ {0}
    /\ WndSize \in Nat \ {0}
    /\ PoolPackets \in Nat
    /\ NumTasks \in Nat \ {0}
    /\ NumFragments \in Nat \ {0}
    /\ \A t \in 0..NumTasks : End[t] \in 0..NumFragments
    /\ \A s, t \in 0..NumTasks : s <= t => End[s] <= End[t]
    /\ MinAckWnd \in Nat \ {0}
    /\ MinSSThresh \in Nat \ {0}
    /\ ResendValue \in Nat
    /\ MaxLag \in Nat
    /\ MaxWnd \in Nat
    /\ WndSize + 1 <= MaxWnd
    /\ MinAckWnd <= MaxWnd
    /\ MinSSThresh + ResendValue <= MaxWnd
  BY SMT, RingTypes, PoolAssumption, SessionAssumption, WindowAssumption DEF MaxWnd, Max2

(***************************************************************************)
(* fillPrimaryQueue.                                                       *)
(***************************************************************************)

\* SendQueue::fillPrimaryQueue keeps the unacknowledged packets of its window
\* in slots of their own.
LEMMA SendFillOK ==
    ASSUME SafeConstants, SendQueueTypeOK, Windows, RingIntact,
           rTail \in Nat, cwnd \in Nat,
           NEW posted \in 0..NumTasks, sPosted <= posted,
           NEW tail \in Nat, sTail <= tail, tail <= sHead,
           SendFill(posted, tail)
    PROVE  /\ sHead' \in Nat
           /\ sHead <= sHead'
           /\ sHead' <= tail + MaxWnd + 1
           /\ sHead' <= End[posted]
           /\ sSlot' \in [Slots -> Handle]
           /\ \A i \in tail..(sHead' - 1) : sSlot'[SlotOf(i)].frag = i
  <1> DEFINE h == sHead'
  <1>1. /\ h \in Nat
        /\ sHead <= h
        /\ h <= tail + MaxWnd + 1
        /\ h <= End[posted]
        /\ End[posted] <= NumFragments
    <2>1. h = SendFillHead(posted, tail)
      BY DEF SendFill
    <2>2. End[sPosted] <= End[posted] /\ End[posted] \in 0..NumFragments
      BY ConstantTypes DEF SendQueueTypeOK
    <2>3. PoolLimit \in Nat
      BY ConstantTypes DEF PoolLimit
    <2> HIDE DEF h
    <2> QED
      BY SMT, <2>1, <2>2, <2>3, ConstantTypes
      DEF SendFillHead, Windows, SendQueueTypeOK, Min2, Max2
  <1>2. sHead \in Nat /\ h <= sHead + QueueCapacity
    BY SMT, <1>1, ConstantTypes DEF SafeConstants, SendQueueTypeOK
  <1>3. sSlot' = [s \in Slots |->
                    IF Written(s, sHead, h)
                    THEN [frag |-> LastWrite(s, sHead, h), sent |-> FALSE]
                    ELSE sSlot[s]]
    BY DEF SendFill
  <1> HIDE DEF h
  <1>4. sSlot' \in [Slots -> Handle]
    <2> SUFFICES ASSUME NEW s \in Slots
                 PROVE  sSlot'[s] \in Handle
      BY <1>3
    <2>1. CASE Written(s, sHead, h)
      <3>1. LastWrite(s, sHead, h) \in Fragments
        BY SMT, <2>1, <1>1, <1>2, ConstantTypes, WrittenSlot DEF Fragments
      <3> QED
        BY <3>1, <2>1, <1>3 DEF Handle
    <2>2. CASE ~Written(s, sHead, h)
      BY <2>2, <1>3 DEF SendQueueTypeOK
    <2> QED
      BY <2>1, <2>2
  <1>5. ASSUME NEW i \in tail..(h - 1)
        PROVE  sSlot'[SlotOf(i)].frag = i
    <2>0. h <= tail + QueueCapacity
      BY SMT, <1>1, ConstantTypes DEF SafeConstants
    <2>1. /\ SlotOf(i) \in Slots
          /\ sHead <= i => Written(SlotOf(i), sHead, h) /\ LastWrite(SlotOf(i), sHead, h) = i
          /\ i < sHead => ~Written(SlotOf(i), sHead, h)
      BY <1>1, <1>2, <2>0, FillKeeps
    <2>2. i \in Nat /\ (i < sHead => i \in sTail..(sHead - 1))
      BY SMT, <1>2 DEF SendQueueTypeOK
    <2>3. i < sHead => sSlot[SlotOf(i)].frag = i
      BY <2>2 DEF RingIntact
    <2> QED
      BY SMT, <1>2, <1>3, <2>1, <2>2, <2>3
  <1> QED
    BY <1>1, <1>4, <1>5 DEF h

\* ReceiveQueue::fillPrimaryQueue adds requests in slots of their own; a
\* request that is completed afterwards was completed before.
LEMMA ReceiveFillOK ==
    ASSUME SafeConstants, ReceiveQueueTypeOK,
           NEW posted \in 0..NumTasks, rPosted <= posted,
           NEW tail \in Nat, rTail <= tail, tail <= rHead,
           rHead <= rTail + WndSize + 1, rHead <= End[rPosted],
           NEW slots \in [Slots -> Request],
           \A s \in Slots : slots[s].inflight =>
                slots[s].buf \in tail..(rHead - 1) /\ SlotOf(slots[s].buf) = s,
           \A i \in tail..(rHead - 1) : slots[SlotOf(i)].buf = i,
           ReceiveFill(posted, tail, slots)
    PROVE  /\ rHead' \in Nat
           /\ rHead <= rHead'
           /\ rHead' <= tail + WndSize + 1
           /\ rHead' <= End[posted]
           /\ rSlot' \in [Slots -> Request]
           /\ \A s \in Slots : rSlot'[s].inflight =>
                rSlot'[s].buf \in tail..(rHead' - 1) /\ SlotOf(rSlot'[s].buf) = s
           /\ \A i \in tail..(rHead' - 1) : rSlot'[SlotOf(i)].buf = i
           /\ \A i \in tail..(rHead' - 1) : ~rSlot'[SlotOf(i)].inflight =>
                i \in tail..(rHead - 1) /\ ~slots[SlotOf(i)].inflight
  <1> DEFINE h == rHead'
  <1>1. /\ h \in Nat
        /\ rHead <= h
        /\ h <= tail + WndSize + 1
        /\ h <= End[posted]
        /\ End[posted] <= NumFragments
    <2>1. h = ReceiveFillHead(posted, tail)
      BY DEF ReceiveFill
    <2>2. End[rPosted] <= End[posted] /\ End[posted] \in 0..NumFragments
      BY ConstantTypes DEF ReceiveQueueTypeOK
    <2> HIDE DEF h
    <2> QED
      BY SMT, <2>1, <2>2, ConstantTypes DEF ReceiveFillHead, ReceiveQueueTypeOK, Min2, Max2
  <1>2. rHead \in Nat /\ h <= rHead + QueueCapacity
    BY SMT, <1>1, ConstantTypes DEF SafeConstants, ReceiveQueueTypeOK
  <1>3. rSlot' = [s \in Slots |->
                    IF Written(s, rHead, h)
                    THEN [buf |-> LastWrite(s, rHead, h), inflight |-> TRUE]
                    ELSE slots[s]]
    BY DEF ReceiveFill
  <1> HIDE DEF h
  <1>4. \A s \in Slots : Written(s, rHead, h) =>
            /\ rSlot'[s].buf = LastWrite(s, rHead, h)
            /\ rSlot'[s].inflight
            /\ rSlot'[s] \in Request
            /\ rSlot'[s].buf \in rHead..(h - 1)
            /\ SlotOf(rSlot'[s].buf) = s
    <2> SUFFICES ASSUME NEW s \in Slots, Written(s, rHead, h)
                 PROVE  /\ rSlot'[s].buf = LastWrite(s, rHead, h)
                        /\ rSlot'[s].inflight
                        /\ rSlot'[s] \in Request
                        /\ rSlot'[s].buf \in rHead..(h - 1)
                        /\ SlotOf(rSlot'[s].buf) = s
      OBVIOUS
    <2>1. /\ LastWrite(s, rHead, h) \in rHead..(h - 1)
          /\ SlotOf(LastWrite(s, rHead, h)) = s
      BY SMT, <1>1, <1>2, WrittenSlot
    <2>2. LastWrite(s, rHead, h) \in Fragments
      BY SMT, <2>1, <1>1, <1>2, ConstantTypes DEF Fragments
    <2>3. rSlot'[s] = [buf |-> LastWrite(s, rHead, h), inflight |-> TRUE]
      BY <1>3
    <2> QED
      BY SMT, <2>1, <2>2, <2>3 DEF Request
  <1>5. rSlot' \in [Slots -> Request]
    <2> SUFFICES ASSUME NEW s \in Slots
                 PROVE  rSlot'[s] \in Request
      BY <1>3
    <2>1. CASE Written(s, rHead, h)
      BY <2>1, <1>4
    <2>2. CASE ~Written(s, rHead, h)
      BY <2>2, <1>3
    <2> QED
      BY <2>1, <2>2
  <1>6. ASSUME NEW s \in Slots, rSlot'[s].inflight
        PROVE  rSlot'[s].buf \in tail..(h - 1) /\ SlotOf(rSlot'[s].buf) = s
    <2>1. CASE Written(s, rHead, h)
      BY SMT, <2>1, <1>1, <1>2, <1>4
    <2>2. CASE ~Written(s, rHead, h)
      BY SMT, <2>2, <1>1, <1>2, <1>3, <1>6
    <2> QED
      BY <2>1, <2>2
  <1>7. ASSUME NEW i \in tail..(h - 1)
        PROVE  /\ rSlot'[SlotOf(i)].buf = i
               /\ ~rSlot'[SlotOf(i)].inflight =>
                    i \in tail..(rHead - 1) /\ ~slots[SlotOf(i)].inflight
    <2>0. h <= tail + QueueCapacity
      BY SMT, <1>1, ConstantTypes DEF SafeConstants
    <2>1. /\ SlotOf(i) \in Slots
          /\ rHead <= i => Written(SlotOf(i), rHead, h) /\ LastWrite(SlotOf(i), rHead, h) = i
          /\ i < rHead => ~Written(SlotOf(i), rHead, h)
      BY <1>1, <1>2, <2>0, FillKeeps
    <2>2. i \in Nat /\ (i < rHead => i \in tail..(rHead - 1))
      BY SMT, <1>2
    <2>3. CASE rHead <= i
      BY <2>1, <2>3, <1>4
    <2>4. CASE i < rHead
      BY <2>1, <2>2, <2>4, <1>3
    <2> QED
      BY SMT, <1>2, <2>2, <2>3, <2>4
  <1> QED
    BY <1>1, <1>5, <1>6, <1>7 DEF h

(***************************************************************************)
(* The actions.                                                            *)
(***************************************************************************)

\* Context::send preserves the invariant.
LEMMA AppSendInv == SafeConstants /\ IndInv /\ AppSend => IndInv'
  <1> SUFFICES ASSUME SafeConstants, IndInv, AppSend
               PROVE  IndInv'
    OBVIOUS
  <1>1. /\ sPosted' = sPosted + 1 /\ sPosted' \in 0..NumTasks /\ sPosted <= sPosted'
        /\ SendFill(sPosted', sTail)
        /\ UNCHANGED <<sTail, sWnd, rPosted, rHead, rTail, rSlot, mem,
                       cwnd, ackDue, ackInflight, ackPosted, rFault>>
        /\ dataNet' = AliveData(dataNet, sHead')
        /\ ackNet' = AliveAcks(ackNet, sHead')
    BY SMT, ConstantTypes
    DEF AppSend, SendPush, IndInv, TypeOK, SendQueueTypeOK, receiveQueueVars, contextVars
  <1>2. /\ sHead' \in Nat
        /\ sHead <= sHead'
        /\ sHead' <= sTail + MaxWnd + 1
        /\ sHead' <= End[sPosted']
        /\ sSlot' \in [Slots -> Handle]
        /\ \A i \in sTail..(sHead' - 1) : sSlot'[SlotOf(i)].frag = i
    <2>1. sTail \in Nat /\ sTail <= sHead
      BY SMT DEF IndInv, TypeOK, SendQueueTypeOK, ReceiveQueueTypeOK, Windows
    <2> QED
      BY SMT, <1>1, <2>1, SendFillOK DEF IndInv, TypeOK, ReceiveQueueTypeOK
  <1>3. TypeOK'
    BY <1>1, <1>2
    DEF IndInv, TypeOK, SendQueueTypeOK, ReceiveQueueTypeOK, AliveData, AliveAcks
  <1>4. Windows'
    BY SMT, <1>1, <1>2, ConstantTypes
    DEF IndInv, TypeOK, SendQueueTypeOK, ReceiveQueueTypeOK, Windows
  <1>5. RingIntact'
    BY <1>1, <1>2 DEF IndInv, RingIntact
  <1>6. Requests'
    BY SMT, <1>1, <1>2
    DEF IndInv, TypeOK, SendQueueTypeOK, ReceiveQueueTypeOK, Requests
  <1>7. Integrity'
    BY <1>1 DEF IndInv, Integrity
  <1>8. Horizon'
    BY SMT, <1>1, <1>2, ConstantTypes
    DEF IndInv, TypeOK, SendQueueTypeOK, Horizon, AliveData, AliveAcks, Fragments, Ack
  <1> QED
    BY <1>1, <1>3, <1>4, <1>5, <1>6, <1>7, <1>8 DEF IndInv

\* Context::receive preserves the invariant.
LEMMA AppReceiveInv == SafeConstants /\ IndInv /\ AppReceive => IndInv'
  <1> SUFFICES ASSUME SafeConstants, IndInv, AppReceive
               PROVE  IndInv'
    OBVIOUS
  <1>1. /\ rPosted' = rPosted + 1 /\ rPosted' \in 0..NumTasks /\ rPosted <= rPosted'
        /\ ReceiveFill(rPosted', rTail, rSlot)
        /\ UNCHANGED <<sPosted, sHead, sTail, sWnd, sSlot, rTail, mem,
                       cwnd, ackDue, ackInflight, ackPosted, rFault, dataNet, ackNet>>
    BY SMT, ConstantTypes
    DEF AppReceive, ReceivePush, IndInv, TypeOK, ReceiveQueueTypeOK, sendQueueVars, contextVars
  <1>2. /\ rHead' \in Nat
        /\ rHead <= rHead'
        /\ rHead' <= rTail + WndSize + 1
        /\ rHead' <= End[rPosted']
        /\ rSlot' \in [Slots -> Request]
        /\ \A s \in Slots : rSlot'[s].inflight =>
             rSlot'[s].buf \in rTail..(rHead' - 1) /\ SlotOf(rSlot'[s].buf) = s
        /\ \A i \in rTail..(rHead' - 1) : rSlot'[SlotOf(i)].buf = i
        /\ \A i \in rTail..(rHead' - 1) : ~rSlot'[SlotOf(i)].inflight =>
             i \in rTail..(rHead - 1) /\ ~rSlot[SlotOf(i)].inflight
    <2>1. /\ rTail \in Nat /\ rTail <= rHead
          /\ rHead <= rTail + WndSize + 1 /\ rHead <= End[rPosted]
          /\ rSlot \in [Slots -> Request]
          /\ rTail <= rTail
      BY SMT DEF IndInv, TypeOK, ReceiveQueueTypeOK, Windows
    <2>2. /\ \A s \in Slots : rSlot[s].inflight =>
               rSlot[s].buf \in rTail..(rHead - 1) /\ SlotOf(rSlot[s].buf) = s
          /\ \A i \in rTail..(rHead - 1) : rSlot[SlotOf(i)].buf = i
      BY DEF IndInv, RingIntact, Requests
    <2>3. ReceiveQueueTypeOK
      BY DEF IndInv, TypeOK
    <2> QED
      BY <1>1, <2>1, <2>2, <2>3, ReceiveFillOK
  <1>3. TypeOK'
    BY <1>1, <1>2 DEF IndInv, TypeOK, SendQueueTypeOK, ReceiveQueueTypeOK
  <1>4. Windows'
    BY SMT, <1>1, <1>2 DEF IndInv, TypeOK, ReceiveQueueTypeOK, Windows
  <1>5. RingIntact'
    BY <1>1, <1>2 DEF IndInv, RingIntact
  <1>6. Requests'
    BY <1>1, <1>2 DEF IndInv, Requests
  <1>7. Integrity'
    BY <1>1 DEF IndInv, Integrity
  <1>8. Horizon'
    BY <1>1 DEF IndInv, Horizon
  <1> QED
    BY <1>1, <1>3, <1>4, <1>5, <1>6, <1>7, <1>8 DEF IndInv

\* Context::sendDataPackets preserves the invariant: it sends packets of the
\* window, and the window it leaves in the queue is bounded.
LEMMA SendDataPacketsInv == SafeConstants /\ IndInv /\ SendDataPackets => IndInv'
  <1> SUFFICES ASSUME SafeConstants, IndInv, SendDataPackets
               PROVE  IndInv'
    OBVIOUS
  <1> DEFINE batch(n) == {SlotOf(i) : i \in sTail..(sTail + n - 1)}
  <1>1. PICK n \in 1..(SendLimit - sTail) :
            /\ dataNet' = dataNet \cup {sSlot[s].frag : s \in batch(n)}
            /\ sSlot' = [s \in Slots |->
                            IF s \in batch(n) THEN [sSlot[s] EXCEPT !.sent = TRUE]
                                              ELSE sSlot[s]]
            /\ \/ \E w \in BackoffWnds(cwnd) : sWnd' = ClampedWnd(w)
               \/ UNCHANGED sWnd
    BY DEF SendDataPackets
  <1>2. UNCHANGED <<sPosted, sHead, sTail, rPosted, rHead, rTail, rSlot, mem,
                    cwnd, ackDue, ackInflight, ackPosted, rFault, ackNet>>
    BY DEF SendDataPackets, receiveQueueVars, contextVars
  <1>3. /\ sHead \in Nat /\ sTail \in Nat /\ cwnd \in Nat /\ sWnd \in Nat
        /\ cwnd <= MaxWnd /\ sWnd <= MaxWnd /\ sSlot \in [Slots -> Handle]
        /\ sTail <= sHead /\ sHead <= sTail + MaxWnd + 1 /\ sHead <= NumFragments
    BY SMT, ConstantTypes
    DEF IndInv, TypeOK, SendQueueTypeOK, ReceiveQueueTypeOK, Windows
  <1>4. sTail + n <= sHead /\ n \in Nat
    BY SMT, <1>3 DEF SendLimit, Min2
  <1>5. sWnd' \in Nat /\ sWnd' <= MaxWnd
    BY SMT, <1>1, <1>3, ConstantTypes DEF BackoffWnds, ClampedWnd, Min2, Max2
  <1>6. sSlot' \in [Slots -> Handle] /\ \A s \in Slots : sSlot'[s].frag = sSlot[s].frag
    BY <1>1, <1>3 DEF Handle
  <1>7. \A p \in dataNet' \ dataNet : p \in sTail..(sHead - 1)
    <2> SUFFICES ASSUME NEW i \in sTail..(sTail + n - 1)
                 PROVE  sSlot[SlotOf(i)].frag \in sTail..(sHead - 1)
      BY <1>1
    <2>1. i \in sTail..(sHead - 1)
      BY SMT, <1>3, <1>4
    <2>2. sSlot[SlotOf(i)].frag = i
      BY <2>1 DEF IndInv, RingIntact
    <2> QED
      BY <2>1, <2>2
  <1>8. TypeOK'
    <2>1. dataNet' \subseteq Fragments
      <3> SUFFICES ASSUME NEW p \in dataNet'
                   PROVE  p \in Fragments
        OBVIOUS
      <3>1. CASE p \in dataNet
        BY <3>1 DEF IndInv, TypeOK
      <3>2. CASE p \notin dataNet
        BY SMT, <3>2, <1>3, <1>7, ConstantTypes DEF Fragments
      <3> QED
        BY <3>1, <3>2
    <2> QED
      BY <1>2, <1>5, <1>6, <2>1 DEF IndInv, TypeOK, SendQueueTypeOK, ReceiveQueueTypeOK
  <1>9. Windows'
    BY <1>2, <1>5 DEF IndInv, Windows
  <1>10. RingIntact'
    <2>1. \A i \in sTail..(sHead - 1) : SlotOf(i) \in Slots
      BY SMT, <1>3, SlotType
    <2> QED
      BY <1>2, <1>6, <2>1 DEF IndInv, RingIntact
  <1>11. Requests'
    BY <1>2 DEF IndInv, Requests
  <1>12. Integrity'
    BY <1>2 DEF IndInv, Integrity
  <1>13. Horizon'
    <2>1. \A p \in dataNet' : p < sHead /\ sHead <= p + MaxLag
      BY SMT, <1>3, <1>7, ConstantTypes DEF IndInv, Horizon, SafeConstants
    <2> QED
      BY <1>2, <2>1 DEF IndInv, Horizon
  <1> QED
    BY <1>2, <1>8, <1>9, <1>10, <1>11, <1>12, <1>13 DEF IndInv

\* SendQueue::markCompleted resolves the short number of an acknowledgement of
\* the fabric to the index the receiver meant.
LEMMA AckTailIs ==
    ASSUME SafeConstants, IndInv, NEW a \in ackNet
    PROVE  LET t == AckedTail(sTail, sHead, SHORT_SN(a.ack))
           IN  t \in Nat /\ sTail <= t /\ t <= rTail
  <1>1. /\ sHead \in Nat /\ sTail \in Nat /\ rTail \in Nat
        /\ sTail <= rTail /\ rTail <= sHead /\ sHead <= sTail + MaxWnd + 1
    BY DEF IndInv, TypeOK, SendQueueTypeOK, ReceiveQueueTypeOK, Windows
  <1>2. a.ack \in Nat /\ a.ack <= rTail /\ sHead <= a.ack + MaxLag
    BY SMT, ConstantTypes DEF IndInv, TypeOK, Horizon, Ack
  <1>3. sHead < sTail + SNSpace /\ sHead < a.ack + SNSpace /\ a.ack <= sHead
    BY SMT, <1>1, <1>2, ConstantTypes DEF SafeConstants
  <1>4. AckedTail(sTail, sHead, SHORT_SN(a.ack)) = Max2(sTail, a.ack)
    BY SMT, <1>1, <1>2, <1>3, AckedTailCorrect
  <1> QED
    BY SMT, <1>1, <1>2, <1>4 DEF Max2

\* processReceivedPacket of an acknowledgement preserves the invariant: the
\* tail of the send queue does not pass the receiver's.
LEMMA ReceiveAckInv ==
    ASSUME SafeConstants, IndInv, NEW a \in ackNet, ReceiveAck(a)
    PROVE  IndInv'
  <1>1. /\ sTail' = AckedTail(sTail, sHead, SHORT_SN(a.ack))
        /\ SendFill(sPosted, sTail')
        /\ cwnd' \in SuccessWnds(cwnd, a.wnd)
        /\ sWnd' = ClampedWnd(cwnd')
        /\ ackNet' \subseteq AliveAcks(ackNet, sHead')
        /\ dataNet' = AliveData(dataNet, sHead')
        /\ UNCHANGED <<sPosted, rPosted, rHead, rTail, rSlot, mem,
                       ackDue, ackInflight, ackPosted, rFault>>
    BY DEF ReceiveAck, SendMarkCompleted, Received, AliveAcks, receiveQueueVars
  <1>2. /\ sHead \in Nat /\ sTail \in Nat /\ rTail \in Nat /\ cwnd \in Nat
        /\ sTail <= rTail /\ rTail <= sHead /\ sHead <= sTail + MaxWnd + 1
        /\ cwnd <= MaxWnd
    BY DEF IndInv, TypeOK, SendQueueTypeOK, ReceiveQueueTypeOK, Windows
  <1>3. a.wnd \in Nat /\ a.wnd <= MaxWnd
    <2>1. a \in Ack
      BY DEF IndInv, TypeOK
    <2>2. Max2(WndSize + 1, MinAckWnd) \in Nat /\ Max2(WndSize + 1, MinAckWnd) <= MaxWnd
      BY SMT, ConstantTypes DEF MaxWnd, Max2
    <2> QED
      BY SMT, <2>1, <2>2, ConstantTypes DEF Ack
  <1>4. sTail' \in Nat /\ sTail <= sTail' /\ sTail' <= rTail
    BY <1>1, AckTailIs
  <1>5. /\ sHead' \in Nat
        /\ sHead <= sHead'
        /\ sHead' <= sTail' + MaxWnd + 1
        /\ sHead' <= End[sPosted]
        /\ sSlot' \in [Slots -> Handle]
        /\ \A i \in sTail'..(sHead' - 1) : sSlot'[SlotOf(i)].frag = i
    <2>1. sTail' <= sHead /\ sPosted \in 0..NumTasks /\ sPosted <= sPosted
      BY SMT, <1>2, <1>4 DEF IndInv, TypeOK, SendQueueTypeOK
    <2>2. SendQueueTypeOK /\ Windows /\ RingIntact
      BY DEF IndInv, TypeOK
    <2> QED
      BY <1>1, <1>2, <1>4, <2>1, <2>2, SendFillOK
  <1>6. /\ cwnd' \in Nat /\ cwnd' <= MaxWnd
        /\ sWnd' \in Nat /\ sWnd' <= MaxWnd
    <2>1. cwnd' \in Nat /\ cwnd' <= MaxWnd
      BY SMT, <1>1, <1>2, <1>3, ConstantTypes DEF SuccessWnds, Min2
    <2> QED
      BY SMT, <1>1, <2>1, ConstantTypes DEF ClampedWnd, Min2
  <1>7. TypeOK'
    BY <1>1, <1>4, <1>5, <1>6
    DEF IndInv, TypeOK, SendQueueTypeOK, ReceiveQueueTypeOK, AliveData, AliveAcks
  <1>8. Windows'
    BY SMT, <1>1, <1>2, <1>4, <1>5, <1>6
    DEF IndInv, TypeOK, ReceiveQueueTypeOK, Windows
  <1>9. RingIntact'
    BY <1>1, <1>5 DEF IndInv, RingIntact
  <1>10. Requests'
    BY SMT, <1>1, <1>2, <1>5 DEF IndInv, TypeOK, ReceiveQueueTypeOK, Requests
  <1>11. Integrity'
    BY <1>1 DEF IndInv, Integrity
  <1>12. Horizon'
    BY SMT, <1>1, <1>2, <1>5, ConstantTypes
    DEF IndInv, TypeOK, Horizon, AliveData, AliveAcks, Fragments, Ack
  <1> QED
    BY <1>1, <1>7, <1>8, <1>9, <1>10, <1>11, <1>12 DEF IndInv

\* The loop at the end of ReceiveQueue::markCompleted stops at the first
\* request that is still in flight, or at the head.
LEMMA AdvancedTailIs ==
    ASSUME ReceiveQueueTypeOK, rTail <= rHead, NEW slots
    PROVE  LET t == AdvancedTail(slots)
           IN  /\ t \in Nat
               /\ rTail <= t /\ t <= rHead
               /\ \A i \in rTail..(t - 1) : ~slots[SlotOf(i)].inflight
               /\ t = rHead \/ slots[SlotOf(t)].inflight
  <1> DEFINE P(t) == /\ \A i \in rTail..(t - 1) : ~slots[SlotOf(i)].inflight
                     /\ t = rHead \/ slots[SlotOf(t)].inflight
             S == {i \in rTail..rHead : slots[SlotOf(i)].inflight}
  <1>1. rTail \in Nat /\ rHead \in Nat
    BY DEF ReceiveQueueTypeOK
  <1>2. \E t \in rTail..rHead : (\A i \in rTail..(t - 1) : i \notin S) /\ (t = rHead \/ t \in S)
    <2> HIDE DEF S
    <2> QED
      BY <1>1, FirstStop
  <1>3. \E t \in rTail..rHead : P(t)
    BY SMT, <1>1, <1>2
  <1>4. AdvancedTail(slots) = CHOOSE t \in rTail..rHead : P(t)
    BY DEF AdvancedTail
  <1> HIDE DEF P
  <1>5. AdvancedTail(slots) \in rTail..rHead /\ P(AdvancedTail(slots))
    BY <1>3, <1>4
  <1> QED
    BY SMT, <1>1, <1>5 DEF P

\* The slot found from the short number of an index is the slot of the index.
LEMMA RequestSlotIs ==
    ASSUME SafeConstants
    PROVE  \A i \in Nat : RequestSlot(SHORT_SN(i)) = SlotOf(i)
  BY ShortSlot DEF RequestSlot, SafeConstants

\* What ReceiveQueue::markCompleted finds for a packet of the fabric: it takes
\* exactly the packets of its window, and an outstanding request it meets is
\* the one for this fragment, so the lengths agree.
LEMMA MeetsItsRequest ==
    ASSUME SafeConstants, IndInv, NEW p \in dataNet
    PROVE  /\ p \in Nat
           /\ p < sHead
           /\ p \in Fragments
           /\ Accepts(p) <=> rTail <= p /\ p < rTail + WndSize
           /\ Meets(p) = rSlot[SlotOf(p)]
           /\ Accepts(p) /\ Meets(p).inflight => Meets(p).buf = p
           /\ ~LengthMismatch(p)
  <1>1. /\ p \in Nat /\ p < sHead /\ sHead <= p + MaxLag /\ p \in Fragments
    BY SMT DEF IndInv, TypeOK, Horizon, Fragments
  <1>2. /\ sHead \in Nat /\ sTail \in Nat /\ rTail \in Nat /\ rHead \in Nat
        /\ sTail <= rTail /\ rTail <= sHead /\ sHead <= sTail + MaxWnd + 1
        /\ rHead <= rTail + WndSize + 1
    BY DEF IndInv, TypeOK, SendQueueTypeOK, ReceiveQueueTypeOK, Windows
  <1>3. Accepts(p) <=> rTail <= p /\ p < rTail + WndSize
    <2>1. WndSize < SNSpace /\ p < rTail + SNSpace /\ rTail + WndSize <= p + SNSpace
      BY SMT, <1>1, <1>2, ConstantTypes DEF SafeConstants
    <2> QED
      BY <1>1, <1>2, <2>1, ConstantTypes, ReceiveWindowCorrect DEF Accepts
  <1>4. Meets(p) = rSlot[SlotOf(p)]
    BY <1>1, RequestSlotIs DEF Meets
  <1>5. ASSUME Accepts(p), Meets(p).inflight
        PROVE  Meets(p).buf = p
    <2> DEFINE b == rSlot[SlotOf(p)].buf
    <2>1. SlotOf(p) \in Slots
      BY <1>1, SlotType
    <2>2. b \in rTail..(rHead - 1) /\ SlotOf(b) = SlotOf(p)
      BY <1>4, <1>5, <2>1 DEF IndInv, Requests
    <2> HIDE DEF b
    <2>3. b \in Nat /\ b < p + QueueCapacity /\ p < b + QueueCapacity
      BY SMT, <1>1, <1>2, <1>3, <1>5, <2>2, ConstantTypes DEF SafeConstants
    <2>4. b = p
      BY <1>1, <2>2, <2>3, SlotUnique
    <2> QED
      BY <2>4, <1>4 DEF b
  <1>6. ~LengthMismatch(p)
    BY <1>5 DEF LengthMismatch
  <1> QED
    BY <1>1, <1>3, <1>4, <1>5, <1>6

\* processReceivedPacket of a data packet preserves the invariant.
LEMMA ReceiveDataInv ==
    ASSUME SafeConstants, IndInv, NEW p \in dataNet, ReceiveData(p)
    PROVE  IndInv'
  <1>1. /\ ReceiveMarkCompleted(p)
        /\ ackDue' = TRUE
        /\ dataNet' \subseteq dataNet
        /\ UNCHANGED <<sPosted, sHead, sTail, sWnd, sSlot, cwnd,
                       ackInflight, ackPosted, rFault, ackNet>>
    <2>1. rPosted \in Nat /\ rPosted > 0 /\ ~LengthMismatch(p) /\ rFault = "none"
      BY SMT, MeetsItsRequest, ConstantTypes
      DEF ReceiveData, SafeConstants, IndInv, TypeOK, ReceiveQueueTypeOK
    <2>2. Outcome(p) = "none"
      BY SMT, <2>1 DEF Outcome
    <2> QED
      BY <2>1, <2>2 DEF ReceiveData, Received, sendQueueVars
  <1>2. /\ sHead \in Nat /\ sTail \in Nat /\ rTail \in Nat /\ rHead \in Nat
        /\ rPosted \in 0..NumTasks
        /\ rSlot \in [Slots -> Request]
        /\ mem \in [Fragments -> Fragments \cup {NoFragment}]
        /\ sTail <= rTail /\ rTail <= sHead /\ rTail <= rHead
        /\ rHead <= rTail + WndSize + 1 /\ rHead <= End[rPosted]
    BY DEF IndInv, TypeOK, SendQueueTypeOK, ReceiveQueueTypeOK, Windows
  <1>3. CASE ~Accepts(p)
    <2>1. UNCHANGED <<rPosted, rHead, rTail, rSlot, mem>>
      BY <1>1, <1>3 DEF ReceiveMarkCompleted, receiveQueueVars
    <2>2. TypeOK'
      BY <1>1, <2>1 DEF IndInv, TypeOK, SendQueueTypeOK, ReceiveQueueTypeOK
    <2>3. Windows' /\ RingIntact' /\ Requests' /\ Integrity'
      BY <1>1, <2>1 DEF IndInv, Windows, RingIntact, Requests, Integrity
    <2>4. Horizon'
      BY <1>1, <2>1 DEF IndInv, Horizon
    <2> QED
      BY <1>1, <2>1, <2>2, <2>3, <2>4 DEF IndInv
  <1>4. CASE Accepts(p)
    <2> DEFINE q == SlotOf(p)
               slots == [rSlot EXCEPT ![q].inflight = FALSE]
    <2>1. /\ p \in Nat /\ p < sHead /\ p \in Fragments /\ q \in Slots
          /\ rSlot[q].inflight => rSlot[q].buf = p
      BY <1>4, MeetsItsRequest, SlotType
    <2>2. /\ mem' = IF rSlot[q].inflight THEN [mem EXCEPT ![p] = p] ELSE mem
          /\ rTail' = AdvancedTail(slots)
          /\ ReceiveFill(rPosted, rTail', slots)
          /\ rPosted' = rPosted
      <3>1. RequestSlot(SHORT_SN(p)) = q
        BY <2>1, RequestSlotIs
      <3>2. Meets(p) = rSlot[q] /\ (rSlot[q].inflight => Meets(p).buf = p)
        BY <2>1, MeetsItsRequest
      <3> QED
        BY <1>1, <1>4, <3>1, <3>2 DEF ReceiveMarkCompleted
    <2>3. /\ slots \in [Slots -> Request]
          /\ \A s \in Slots : slots[s].buf = rSlot[s].buf
          /\ \A s \in Slots : slots[s].inflight => s # q /\ rSlot[s].inflight
          /\ \A s \in Slots : ~slots[s].inflight => s = q \/ ~rSlot[s].inflight
      BY <1>2, <2>1 DEF Request
    <2>4. /\ mem' \in [Fragments -> Fragments \cup {NoFragment}]
          /\ \A i \in Fragments : mem'[i] = mem[i] \/ mem'[i] = i
          /\ rSlot[q].inflight => mem'[p] = p
      BY <1>2, <2>1, <2>2
    <2> HIDE DEF q, slots
    <2>5. /\ rTail' \in Nat
          /\ rTail <= rTail' /\ rTail' <= rHead
          /\ \A i \in rTail..(rTail' - 1) : ~slots[SlotOf(i)].inflight
      BY <1>2, <2>2, AdvancedTailIs DEF IndInv, TypeOK
    <2>6. \A i \in rTail..(rHead - 1) :
              i \in Fragments /\ SlotOf(i) \in Slots /\ rSlot[SlotOf(i)].buf = i
      BY SMT, <1>2, ConstantTypes, SlotType DEF IndInv, RingIntact, Fragments
    <2>7. \A i \in rTail..(rHead - 1) : ~slots[SlotOf(i)].inflight =>
              mem'[i] = i /\ i < sHead
      <3> SUFFICES ASSUME NEW i \in rTail..(rHead - 1), ~slots[SlotOf(i)].inflight
                   PROVE  mem'[i] = i /\ i < sHead
        OBVIOUS
      <3>1. CASE rSlot[SlotOf(i)].inflight
        <4>1. SlotOf(i) = q
          BY <3>1, <2>3, <2>6
        <4>2. i = p
          BY <4>1, <3>1, <2>1, <2>6
        <4> QED
          BY <4>1, <4>2, <3>1, <2>1, <2>4
      <3>2. CASE ~rSlot[SlotOf(i)].inflight
        <4>1. mem[i] = i /\ i < sHead
          BY <3>2 DEF IndInv, Requests
        <4> QED
          BY <4>1, <2>4, <2>6
      <3> QED
        BY <3>1, <3>2
    <2>8. /\ rHead' \in Nat
          /\ rHead <= rHead'
          /\ rHead' <= rTail' + WndSize + 1
          /\ rHead' <= End[rPosted]
          /\ rSlot' \in [Slots -> Request]
          /\ \A s \in Slots : rSlot'[s].inflight =>
               rSlot'[s].buf \in rTail'..(rHead' - 1) /\ SlotOf(rSlot'[s].buf) = s
          /\ \A i \in rTail'..(rHead' - 1) : rSlot'[SlotOf(i)].buf = i
          /\ \A i \in rTail'..(rHead' - 1) : ~rSlot'[SlotOf(i)].inflight =>
               i \in rTail'..(rHead - 1) /\ ~slots[SlotOf(i)].inflight
      <3>1. ASSUME NEW s \in Slots, slots[s].inflight
            PROVE  slots[s].buf \in rTail'..(rHead - 1) /\ SlotOf(slots[s].buf) = s
        <4>1. rSlot[s].buf \in rTail..(rHead - 1) /\ SlotOf(rSlot[s].buf) = s
          BY <3>1, <2>3 DEF IndInv, Requests
        <4>2. ~(rSlot[s].buf \in rTail..(rTail' - 1))
          BY <4>1, <3>1, <2>5
        <4> QED
          BY SMT, <4>1, <4>2, <2>3, <2>5, <1>2
      <3>2. \A i \in rTail'..(rHead - 1) : slots[SlotOf(i)].buf = i
        BY SMT, <2>3, <2>5, <2>6, <1>2
      <3>3. ReceiveQueueTypeOK /\ rPosted <= rPosted
        BY SMT, <1>2 DEF IndInv, TypeOK
      <3>4. \A s \in Slots : slots[s].inflight =>
              slots[s].buf \in rTail'..(rHead - 1) /\ SlotOf(slots[s].buf) = s
        BY <3>1
      <3> QED
        BY SMT, <1>2, <2>2, <2>3, <2>5, <3>2, <3>3, <3>4, ReceiveFillOK
    <2>9. rTail' <= sHead
      <3>1. CASE rTail' = rTail
        BY <3>1, <1>2
      <3>2. CASE rTail' # rTail
        <4> DEFINE t == rTail'
        <4>1. t \in Nat /\ rTail <= t /\ t <= rHead /\ t # rTail
          BY <3>2, <2>5
        <4> HIDE DEF t
        <4>2. t - 1 \in rTail..(rHead - 1) /\ t - 1 \in rTail..(t - 1)
          BY SMT, <4>1, <1>2
        <4>3. t - 1 < sHead
          BY <4>2, <2>5, <2>7 DEF t
        <4>4. t <= sHead
          BY SMT, <4>1, <4>3, <1>2
        <4> QED
          BY <4>4 DEF t
      <3> QED
        BY <3>1, <3>2
    <2>10. TypeOK'
      BY <1>1, <2>2, <2>4, <2>5, <2>8
      DEF IndInv, TypeOK, SendQueueTypeOK, ReceiveQueueTypeOK
    <2>11. Windows'
      BY SMT, <1>1, <1>2, <2>2, <2>5, <2>8, <2>9 DEF IndInv, Windows
    <2>12. RingIntact'
      BY <1>1, <2>8 DEF IndInv, RingIntact
    <2>13. Requests'
      <3>1. \A i \in rTail'..(rHead' - 1) : ~rSlot'[SlotOf(i)].inflight =>
                mem'[i] = i /\ i < sHead
        <4> SUFFICES ASSUME NEW i \in rTail'..(rHead' - 1), ~rSlot'[SlotOf(i)].inflight
                     PROVE  mem'[i] = i /\ i < sHead
          OBVIOUS
        <4>1. i \in rTail'..(rHead - 1) /\ ~slots[SlotOf(i)].inflight
          BY <2>8
        <4>2. rTail' \in Nat /\ rTail <= rTail'
          BY <2>5
        <4>3. i \in rTail..(rHead - 1)
          BY SMT, <4>1, <4>2, <1>2
        <4> QED
          BY <4>1, <4>3, <2>7
      <3> QED
        BY <1>1, <2>8, <3>1 DEF Requests
    <2>14. Integrity'
      <3>1. \A i \in Fragments : mem'[i] \in {NoFragment, i}
        BY <2>4 DEF IndInv, Integrity
      <3> DEFINE t == rTail'
      <3>2. t \in Nat /\ rTail <= t /\ t <= rHead /\ rTail \in Nat /\ rHead \in Nat
        BY <1>2, <2>5
      <3> HIDE DEF t
      <3>3. ASSUME NEW i \in 0..(t - 1)
            PROVE  mem'[i] = i
        <4>1. CASE i < rTail
          <5>1. i \in 0..(rTail - 1) /\ i \in Fragments
            BY SMT, <4>1, <1>2, ConstantTypes DEF Fragments
          <5> QED
            BY <5>1, <2>4 DEF IndInv, Integrity
        <4>2. CASE rTail <= i
          <5>1. i \in rTail..(t - 1) /\ i \in rTail..(rHead - 1)
            BY SMT, <3>2, <4>2
          <5> QED
            BY <5>1, <2>5, <2>7 DEF t
        <4> QED
          BY SMT, <4>1, <4>2, <3>2
      <3> QED
        BY <3>1, <3>3 DEF Integrity, t
    <2>15. Horizon'
      BY SMT, <1>1, <1>2, <2>5 DEF IndInv, TypeOK, Horizon, Ack
    <2> QED
      BY <1>1, <2>10, <2>11, <2>12, <2>13, <2>14, <2>15 DEF IndInv
  <1> QED
    BY <1>3, <1>4

\* Context::sendAckPackets preserves the invariant: the acknowledgement it
\* posts is inside the horizon.
LEMMA SendAckPacketsInv == SafeConstants /\ IndInv /\ SendAckPackets => IndInv'
  <1> SUFFICES ASSUME SafeConstants, IndInv, SendAckPackets
               PROVE  IndInv'
    OBVIOUS
  <1> DEFINE m == [ack |-> rTail, wnd |-> Max2(rHead - rTail, MinAckWnd)]
  <1>1. /\ ackNet' \subseteq ackNet \cup {m}
        /\ ackInflight' \in BOOLEAN /\ ackPosted' \in BOOLEAN /\ ackDue' \in BOOLEAN
        /\ UNCHANGED <<sPosted, sHead, sTail, sWnd, sSlot, rPosted, rHead, rTail,
                       rSlot, mem, cwnd, rFault, dataNet>>
    BY DEF SendAckPackets, sendQueueVars, receiveQueueVars, IndInv, TypeOK
  <1>2. /\ rTail \in Nat /\ rHead \in Nat /\ sHead \in Nat /\ sTail \in Nat
        /\ sTail <= rTail /\ rTail <= rHead /\ rTail <= sHead
        /\ sHead <= sTail + MaxWnd + 1
        /\ rHead <= rTail + WndSize + 1 /\ rHead <= NumFragments
    BY SMT, ConstantTypes DEF IndInv, TypeOK, SendQueueTypeOK, ReceiveQueueTypeOK, Windows
  <1>3. m \in Ack
    <2>1. rTail \in 0..NumFragments
      BY SMT, <1>2, ConstantTypes
    <2>2. Max2(rHead - rTail, MinAckWnd) \in 0..Max2(WndSize + 1, MinAckWnd)
      BY SMT, <1>2, ConstantTypes DEF Max2
    <2> QED
      BY <2>1, <2>2 DEF Ack
  <1>4. m.ack = rTail /\ sHead <= rTail + MaxLag
    BY SMT, <1>2, ConstantTypes DEF SafeConstants
  <1> HIDE DEF m
  <1>5. TypeOK'
    BY <1>1, <1>3 DEF IndInv, TypeOK, SendQueueTypeOK, ReceiveQueueTypeOK
  <1>6. Windows' /\ RingIntact' /\ Requests' /\ Integrity'
    BY <1>1 DEF IndInv, Windows, RingIntact, Requests, Integrity
  <1>7. Horizon'
    <2> SUFFICES ASSUME NEW a \in ackNet'
                 PROVE  a.ack <= rTail /\ sHead <= a.ack + MaxLag
      BY <1>1 DEF IndInv, Horizon
    <2>1. CASE a \in ackNet
      BY <2>1 DEF IndInv, Horizon
    <2>2. CASE a = m
      BY SMT, <2>2, <1>2, <1>4
    <2> QED
      BY <2>1, <2>2, <1>1
  <1> QED
    BY <1>1, <1>5, <1>6, <1>7 DEF IndInv

\* The completion of an acknowledgement, the losses of the fabric and steps
\* that change nothing preserve the invariant.
LEMMA MinorStepsInv ==
    IndInv /\ (AckSent \/ LoseData \/ LoseAck \/ UNCHANGED vars) => IndInv'
  <1> SUFFICES ASSUME IndInv, AckSent \/ LoseData \/ LoseAck \/ UNCHANGED vars
               PROVE  IndInv'
    OBVIOUS
  <1>1. /\ ackInflight' \in BOOLEAN /\ ackPosted' \in BOOLEAN
        /\ dataNet' \subseteq dataNet /\ ackNet' \subseteq ackNet
        /\ UNCHANGED <<sPosted, sHead, sTail, sWnd, sSlot, rPosted, rHead, rTail,
                       rSlot, mem, cwnd, ackDue, rFault>>
    BY DEF AckSent, LoseData, LoseAck, vars, contextVars, sendQueueVars,
           receiveQueueVars, IndInv, TypeOK
  <1>2. TypeOK'
    BY <1>1 DEF IndInv, TypeOK, SendQueueTypeOK, ReceiveQueueTypeOK
  <1>3. Windows' /\ RingIntact' /\ Requests' /\ Integrity'
    BY <1>1 DEF IndInv, Windows, RingIntact, Requests, Integrity
  <1>4. Horizon'
    BY <1>1 DEF IndInv, Horizon
  <1> QED
    BY <1>1, <1>2, <1>3, <1>4 DEF IndInv

\* The invariant holds initially.
LEMMA InitInv == Init => IndInv
  <1> SUFFICES ASSUME Init
               PROVE  IndInv
    OBVIOUS
  <1> USE DEF Init, SendQueueInit, ReceiveQueueInit
  <1>1. TypeOK
    <2>1. 0 \in 0..NumTasks /\ WndSize \in Nat
      BY SMT, ConstantTypes
    <2>2. sSlot \in [Slots -> Handle] /\ rSlot \in [Slots -> Request]
      BY DEF Handle, Request
    <2>3. mem \in [Fragments -> Fragments \cup {NoFragment}]
      OBVIOUS
    <2> QED
      BY <2>1, <2>2, <2>3 DEF TypeOK, SendQueueTypeOK, ReceiveQueueTypeOK
  <1>2. Windows
    BY SMT, ConstantTypes, TaskAssumption DEF Windows
  <1>3. RingIntact /\ Requests /\ Integrity
    BY SMT, ConstantTypes DEF RingIntact, Requests, Integrity
  <1>4. Horizon
    BY DEF Horizon
  <1> QED
    BY <1>1, <1>2, <1>3, <1>4 DEF IndInv

\* Every step preserves the invariant.
LEMMA NextInv == SafeConstants /\ IndInv /\ [Next]_vars => IndInv'
  BY AppSendInv, AppReceiveInv, SendDataPacketsInv, ReceiveAckInv, ReceiveDataInv,
     SendAckPacketsInv, MinorStepsInv DEF Next

(***************************************************************************)
(* Theorems.                                                               *)
(***************************************************************************)

\* IndInv holds in every reachable state.
THEOREM InductiveInvariant ==
    ASSUME SafeConstants
    PROVE  Spec => []IndInv
  <1>1. Init => IndInv
    BY InitInv
  <1>2. IndInv /\ [Next]_vars => IndInv'
    BY NextInv
  <1> QED
    BY <1>1, <1>2, PTL DEF Spec

\* Every variable keeps its type, whatever the fabric does.
THEOREM TypeCorrect ==
    ASSUME SafeConstants
    PROVE  Spec => []TypeOK
  <1>1. IndInv => TypeOK
    BY DEF IndInv
  <1> QED
    BY <1>1, InductiveInvariant, PTL

\* No data is corrupted, misplaced or missing behind the receiver's tail.
THEOREM DataIntegrity ==
    ASSUME SafeConstants
    PROVE  Spec => []Integrity
  <1>1. IndInv => Integrity
    BY DEF IndInv
  <1> QED
    BY <1>1, InductiveInvariant, PTL

\* The sender gives up only packets whose fragment is in the receiver's memory.
THEOREM AcknowledgedIsDelivered ==
    ASSUME SafeConstants
    PROVE  Spec => []AckedIsDelivered
  <1>1. IndInv => AckedIsDelivered
    BY SMT DEF IndInv, TypeOK, SendQueueTypeOK, ReceiveQueueTypeOK, Windows, Integrity,
           AckedIsDelivered
  <1> QED
    BY <1>1, InductiveInvariant, PTL

\* No slot of either ring is reused while its packet or request is pending.
THEOREM RingsIntact ==
    ASSUME SafeConstants
    PROVE  Spec => []RingIntact
  <1>1. IndInv => RingIntact
    BY DEF IndInv
  <1> QED
    BY <1>1, InductiveInvariant, PTL

\* The length check of ReceiveQueue::markCompleted never ends the process.
THEOREM NeverAborts ==
    ASSUME SafeConstants
    PROVE  Spec => []NoAbort
  <1>1. IndInv => NoAbort
    BY DEF IndInv, NoAbort
  <1> QED
    BY <1>1, InductiveInvariant, PTL

(***************************************************************************)
(* getStatus, when the sequence numbers of the transfer do not wrap.       *)
(***************************************************************************)

\* The ranges of the indices that getStatus compares.
LEMMA IndexRanges ==
    ASSUME IndInv
    PROVE  /\ sTail \in 0..NumFragments /\ sHead \in 0..NumFragments /\ sTail <= sHead
           /\ rTail \in 0..NumFragments /\ rHead \in 0..NumFragments /\ rTail <= rHead
  BY SMT, ConstantTypes DEF IndInv, TypeOK, SendQueueTypeOK, ReceiveQueueTypeOK, Windows

\* The same for the status of the tasks of a session.
LEMMA StatusIsTail ==
    ASSUME SafeConstants, IndInv, NumFragments < SNSpace
    PROVE  \A t \in 0..NumTasks : /\ SendDone(t) <=> End[t] <= sTail
                                  /\ ReceiveDone(t) <=> End[t] <= rTail
  BY ConstantTypes, IndexRanges, SuccessIsTail DEF SendDone, ReceiveDone

\* A transfer of fewer than SNSpace fragments: getStatus reports SUCCESS only
\* for tasks that are delivered, and whose buffers no request refers to.
THEOREM StatusIsSound ==
    ASSUME SafeConstants, NumFragments < SNSpace
    PROVE  Spec => []StatusSound
  <1>1. IndInv => StatusSound
    <2> SUFFICES ASSUME IndInv
                 PROVE  StatusSound
      OBVIOUS
    <2>1. /\ sTail \in Nat /\ rTail \in Nat /\ sTail <= rTail /\ rHead \in Nat
          /\ sPosted \in 0..NumTasks /\ rPosted \in 0..NumTasks
      BY DEF IndInv, TypeOK, SendQueueTypeOK, ReceiveQueueTypeOK, Windows
    <2>2. \A t \in 0..NumTasks : End[t] \in Nat
      BY SMT, ConstantTypes
    <2>3. \A t \in 0..NumTasks : End[t] <= rTail => \A i \in 0..(End[t] - 1) : mem[i] = i
      BY SMT, <2>1, <2>2 DEF IndInv, Integrity
    <2>4. \A t \in 1..sPosted : SendDone(t) => \A i \in 0..(End[t] - 1) : mem[i] = i
      <3> TAKE t \in 1..sPosted
      <3> HAVE SendDone(t)
      <3>1. t \in 0..NumTasks
        BY SMT, <2>1, ConstantTypes
      <3>2. End[t] <= sTail
        BY <3>1, StatusIsTail
      <3>3. End[t] <= rTail
        BY SMT, <2>1, <2>2, <3>1, <3>2
      <3> QED
        BY <2>3, <3>1, <3>3
    <2>5. ASSUME NEW t \in 1..rPosted, ReceiveDone(t)
          PROVE  /\ \A i \in 0..(End[t] - 1) : mem[i] = i
                 /\ \A s \in Slots : rSlot[s].inflight => rSlot[s].buf >= End[t]
      <3>1. t \in 0..NumTasks
        BY SMT, <2>1, ConstantTypes
      <3>2. End[t] <= rTail
        BY <2>5, <3>1, StatusIsTail
      <3>3. \A s \in Slots : rSlot[s].inflight => rSlot[s].buf \in rTail..(rHead - 1)
        BY DEF IndInv, Requests
      <3> QED
        BY SMT, <2>1, <2>2, <2>3, <3>1, <3>2, <3>3
    <2> QED
      BY <2>4, <2>5 DEF StatusSound
  <1> QED
    BY <1>1, InductiveInvariant, PTL

(***************************************************************************)
(* What a step does to the tails of the queues.                            *)
(***************************************************************************)

\* A step posts a task, or advances one of the tails, or does none of these.
LEMMA StepEffect ==
    ASSUME SafeConstants, IndInv, [Next]_vars
    PROVE  \/ UNCHANGED <<sPosted, rPosted, sTail, rTail>>
           \/ /\ sPosted < NumTasks /\ sPosted' = sPosted + 1
              /\ UNCHANGED <<rPosted, sTail, rTail, mem>>
           \/ /\ rPosted < NumTasks /\ rPosted' = rPosted + 1
              /\ UNCHANGED <<sPosted, sTail, rTail, mem>>
           \/ /\ rTail < rTail'
              /\ UNCHANGED <<sPosted, rPosted, sTail>>
           \/ /\ sTail < sTail'
              /\ UNCHANGED <<sPosted, rPosted, rTail, mem>>
  <1> DEFINE G == \/ UNCHANGED <<sPosted, rPosted, sTail, rTail>>
                  \/ /\ sPosted < NumTasks /\ sPosted' = sPosted + 1
                     /\ UNCHANGED <<rPosted, sTail, rTail, mem>>
                  \/ /\ rPosted < NumTasks /\ rPosted' = rPosted + 1
                     /\ UNCHANGED <<sPosted, sTail, rTail, mem>>
                  \/ /\ rTail < rTail'
                     /\ UNCHANGED <<sPosted, rPosted, sTail>>
                  \/ /\ sTail < sTail'
                     /\ UNCHANGED <<sPosted, rPosted, rTail, mem>>
  <1>1. CASE AppSend
    BY <1>1 DEF AppSend, SendPush, receiveQueueVars
  <1>2. CASE AppReceive
    BY <1>2 DEF AppReceive, ReceivePush, sendQueueVars
  <1>3. ASSUME NEW a \in ackNet, ReceiveAck(a)
        PROVE  G
    <2>1. /\ sTail' = AckedTail(sTail, sHead, SHORT_SN(a.ack))
          /\ UNCHANGED <<sPosted, rPosted, rTail, mem>>
      BY <1>3 DEF ReceiveAck, SendMarkCompleted, receiveQueueVars
    <2>2. sTail' \in Nat /\ sTail <= sTail'
      BY <2>1, AckTailIs
    <2>3. sTail \in Nat
      BY DEF IndInv, TypeOK, SendQueueTypeOK
    <2>4. sTail' = sTail \/ sTail < sTail'
      BY SMT, <2>2, <2>3
    <2> QED
      BY <2>1, <2>4
  <1>4. ASSUME NEW p \in dataNet, ReceiveData(p)
        PROVE  G
    <2>1. UNCHANGED <<sPosted, sTail>>
      BY <1>4 DEF ReceiveData, sendQueueVars
    <2>2. rTail \in Nat /\ rTail <= rHead /\ ReceiveQueueTypeOK
      BY DEF IndInv, TypeOK, ReceiveQueueTypeOK, Windows
    <2>3. CASE UNCHANGED receiveQueueVars
      BY <2>1, <2>3 DEF receiveQueueVars
    <2>4. CASE \E slots : rTail' = AdvancedTail(slots) /\ UNCHANGED rPosted
      <3>1. PICK slots : rTail' = AdvancedTail(slots) /\ UNCHANGED rPosted
        BY <2>4
      <3>2. rTail' \in Nat /\ rTail <= rTail'
        BY <2>2, <3>1, AdvancedTailIs
      <3>3. rTail' = rTail \/ rTail < rTail'
        BY SMT, <2>2, <3>2
      <3> QED
        BY <2>1, <3>1, <3>3
    <2> QED
      BY <1>4, <2>3, <2>4 DEF ReceiveData, ReceiveMarkCompleted
  <1>5. CASE SendDataPackets \/ SendAckPackets \/ AckSent \/ LoseData \/ LoseAck
    BY <1>5 DEF SendDataPackets, SendAckPackets, AckSent, LoseData, LoseAck,
                sendQueueVars, receiveQueueVars
  <1>6. CASE UNCHANGED vars
    BY <1>6 DEF vars, sendQueueVars, receiveQueueVars
  <1> QED
    BY <1>1, <1>2, <1>3, <1>4, <1>5, <1>6 DEF Next

\* A task reported SUCCESS by getStatus stays so, when numbers do not wrap.
THEOREM StatusIsStable ==
    ASSUME SafeConstants, NumFragments < SNSpace
    PROVE  Spec => StatusStable
  <1> DEFINE Stable == /\ \A t \in 1..sPosted : SendDone(t) => SendDone(t)'
                       /\ \A t \in 1..rPosted : ReceiveDone(t) => ReceiveDone(t)'
  <1>1. IndInv /\ IndInv' /\ [Next]_vars => [Stable]_vars
    <2> SUFFICES ASSUME IndInv, IndInv', [Next]_vars
                 PROVE  Stable
      OBVIOUS
    <2>1. /\ sTail \in Nat /\ rTail \in Nat /\ sTail' \in Nat /\ rTail' \in Nat
          /\ sPosted \in 0..NumTasks /\ rPosted \in 0..NumTasks
      BY DEF IndInv, TypeOK, SendQueueTypeOK, ReceiveQueueTypeOK
    <2>2. sTail <= sTail' /\ rTail <= rTail'
      BY SMT, <2>1, StepEffect
    <2>3. \A t \in 0..NumTasks : /\ SendDone(t) <=> End[t] <= sTail
                                 /\ ReceiveDone(t) <=> End[t] <= rTail
      BY StatusIsTail
    <2>4. \A t \in 0..NumTasks : /\ SendDone(t)' <=> End[t] <= sTail'
                                 /\ ReceiveDone(t)' <=> End[t] <= rTail'
      <3>1. /\ sTail' \in 0..NumFragments /\ sHead' \in 0..NumFragments /\ sTail' <= sHead'
            /\ rTail' \in 0..NumFragments /\ rHead' \in 0..NumFragments /\ rTail' <= rHead'
        BY SMT, ConstantTypes DEF IndInv, TypeOK, SendQueueTypeOK, ReceiveQueueTypeOK, Windows
      <3>2. \A t \in 0..NumTasks : End[t] \in 0..NumFragments
        BY ConstantTypes
      <3> QED
        BY <3>1, <3>2, SuccessIsTail DEF SendDone, ReceiveDone
    <2>5. \A t \in 0..NumTasks : End[t] \in Nat
      BY SMT, ConstantTypes
    <2> QED
      BY SMT, <2>1, <2>2, <2>3, <2>4, <2>5, ConstantTypes
  <1> QED
    BY <1>1, InductiveInvariant, PTL DEF Spec, StatusStable

(***************************************************************************)
(* Refinement.                                                             *)
(***************************************************************************)

\* The session implements the reliable stream: its initial states map to the
\* empty stream, and every step to a step of the stream or to a stutter.
THEOREM SessionImplementsStream ==
    ASSUME SafeConstants
    PROVE  Spec => ImplementsStream
  <1> DEFINE got == [i \in 0..(rTail - 1) |-> mem[i]]
  <1>1. Init => Stream!StreamInit
    BY SMT, TaskAssumption
    DEF Init, SendQueueInit, ReceiveQueueInit, Stream!StreamInit, Stream!Prefix
  <1>2. IndInv => got = Stream!Prefix(rTail)
    BY DEF IndInv, Integrity, Stream!Prefix
  <1>3. IndInv' => got' = Stream!Prefix(rTail')
    BY DEF IndInv, Integrity, Stream!Prefix
  <1>4. IndInv /\ IndInv' /\ [Next]_vars => [Stream!StreamNext]_(Stream!streamVars)
    <2> SUFFICES ASSUME IndInv, IndInv', [Next]_vars
                 PROVE  [Stream!StreamNext]_(Stream!streamVars)
      OBVIOUS
    <2>1. /\ sTail \in 0..NumFragments /\ rTail \in 0..NumFragments
          /\ sTail' \in 0..NumFragments /\ rTail' \in 0..NumFragments
          /\ rTail' <= End[sPosted'] /\ rTail' <= End[rPosted']
          /\ sTail' <= rTail'
          /\ sPosted \in 0..NumTasks /\ rPosted \in 0..NumTasks
          /\ sPosted' \in 0..NumTasks /\ rPosted' \in 0..NumTasks
      BY SMT, ConstantTypes
      DEF IndInv, TypeOK, SendQueueTypeOK, ReceiveQueueTypeOK, Windows
    <2>2. got = Stream!Prefix(rTail) /\ got' = Stream!Prefix(rTail')
      BY <1>2, <1>3
    <2>3. CASE UNCHANGED <<sPosted, rPosted, sTail, rTail>>
      BY <2>2, <2>3 DEF Stream!streamVars
    <2>4. CASE /\ sPosted < NumTasks /\ sPosted' = sPosted + 1
               /\ UNCHANGED <<rPosted, sTail, rTail, mem>>
      <3>1. End[sPosted'] \in (End[sPosted] + 1)..NumFragments
        BY SMT, <2>1, <2>4, ConstantTypes, TaskAssumption
      <3>2. Stream!Offer
        BY <2>4, <3>1 DEF Stream!Offer
      <3> QED
        BY <3>2 DEF Stream!StreamNext
    <2>5. CASE /\ rPosted < NumTasks /\ rPosted' = rPosted + 1
               /\ UNCHANGED <<sPosted, sTail, rTail, mem>>
      <3>1. End[rPosted'] \in (End[rPosted] + 1)..NumFragments
        BY SMT, <2>1, <2>5, ConstantTypes, TaskAssumption
      <3>2. Stream!Want
        BY <2>5, <3>1 DEF Stream!Want
      <3> QED
        BY <3>2 DEF Stream!StreamNext
    <2>6. CASE /\ rTail < rTail'
               /\ UNCHANGED <<sPosted, rPosted, sTail>>
      <3> DEFINE n == rTail'
      <3>1. /\ n \in 1..NumFragments
            /\ n <= End[sPosted] /\ n <= End[rPosted]
            /\ n - 1 \notin 0..(rTail - 1)
        <4>1. /\ n \in 0..NumFragments /\ rTail \in Nat /\ rTail < n
              /\ n <= End[sPosted] /\ n <= End[rPosted]
          BY SMT, <2>1, <2>6
        <4> HIDE DEF n
        <4> QED
          BY SMT, <4>1, ConstantTypes
      <3>2. got' = Stream!Prefix(n) /\ DOMAIN got = 0..(rTail - 1)
        BY <2>2
      <3>3. Stream!Deliver
        BY <2>6, <3>1, <3>2 DEF Stream!Deliver
      <3> QED
        BY <3>3 DEF Stream!StreamNext
    <2>7. CASE /\ sTail < sTail'
               /\ UNCHANGED <<sPosted, rPosted, rTail, mem>>
      <3> DEFINE n == sTail'
      <3>1. n \in (sTail + 1)..NumFragments /\ n - 1 \in 0..(rTail - 1)
        <4>1. /\ n \in 0..NumFragments /\ sTail \in Nat /\ sTail < n
              /\ rTail \in Nat /\ n <= rTail
          BY SMT, <2>1, <2>7
        <4> HIDE DEF n
        <4> QED
          BY SMT, <4>1, ConstantTypes
      <3>2. DOMAIN got = 0..(rTail - 1)
        OBVIOUS
      <3>3. Stream!Confirm
        BY <2>7, <3>1, <3>2 DEF Stream!Confirm
      <3> QED
        BY <3>3 DEF Stream!StreamNext
    <2> QED
      BY <2>3, <2>4, <2>5, <2>6, <2>7, StepEffect
  <1> QED
    BY <1>1, <1>4, InductiveInvariant, PTL DEF Spec, ImplementsStream, Stream!StreamSafety
=============================================================================
