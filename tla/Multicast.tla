------------------------------ MODULE Multicast -----------------------------
(***************************************************************************)
(* The rdma_unreliable_mcast protocol: the ContextMcast of a sender with   *)
(* one McastSendQueue, the ContextMcast of every replica of the group with *)
(* its ReceiveQueue, and the fabric.  The sender tracks one tail per       *)
(* replica; a packet leaves the queue when the slowest replica has         *)
(* acknowledged it.                                                        *)
(*                                                                         *)
(* As in Session, timeouts are free choices and the congestion window is   *)
(* any that WindowContract allows.  Differences to the unicast Context are *)
(* in the source: every acknowledgement advertises the whole receive       *)
(* window, a retransmission sets the window of the queue to one packet,    *)
(* the congestion window does not limit a pass of sendDataPackets, and a   *)
(* replica with no outstanding request ignores data packets.               *)
(***************************************************************************)
EXTENDS PacketRing, WindowContract, FiniteSetsExt

CONSTANTS
    Replicas,           \* the peers given to setMulticastReplicas
    MaxLag,             \* fabric: a packet is gone once the sender is this far ahead
    EarlyPolling,       \* a replica's runStep may run before its receive()
    AckPostMayFail,     \* postSendRequest of an ACK may find the queue pair full
    MayLose             \* the fabric may lose messages

ASSUME MulticastAssumption ==
    /\ IsFiniteSet(Replicas) /\ Replicas # {}
    /\ MaxLag \in Nat
    /\ EarlyPolling \in BOOLEAN
    /\ AckPostMayFail \in BOOLEAN
    /\ MayLose \in BOOLEAN

VARIABLES
    posted,     \* sender: tasks pushed so far
    head,       \* McastSendQueue::head_
    tails,      \* McastSendQueue::tail_list_
    wnd,        \* McastSendQueue::wnd_size_
    slot,       \* McastSendQueue::handle_: the packet in each slot, and whether its ts is set
    cwnd,       \* sender: SessionInfo::cwnd
    rq,         \* the receive queue of each replica
    mem,        \* the user memory of each replica
    ackDue,     \* replica: SessionInfo::ack_packets < recv_packets
    ackState,   \* replica: ack_handle is "idle", "posted", or "stuck" in flight
    fault,      \* replica: how the process died, or "none"
    dataNet,    \* data packets on the way to each replica
    ackNet      \* acknowledgements on the way from each replica

senderVars == <<posted, head, tails, wnd, slot, cwnd>>
replicaVars == <<rq, mem, ackDue, ackState, fault>>
vars == <<senderVars, replicaVars, dataNet, ackNet>>

EmptyQueue ==
    [posted |-> 0, head |-> 0, tail |-> 0,
     slot |-> [s \in Slots |-> [buf |-> NoFragment, inflight |-> FALSE]]]

Init ==
    /\ posted = 0
    /\ head = 0
    /\ tails = [r \in Replicas |-> 0]
    /\ wnd = WndSize
    /\ slot = [s \in Slots |-> [frag |-> NoFragment, sent |-> FALSE]]
    /\ cwnd = 1
    /\ rq = [r \in Replicas |-> EmptyQueue]
    /\ mem = [r \in Replicas |-> [i \in Fragments |-> NoFragment]]
    /\ ackDue = [r \in Replicas |-> FALSE]
    /\ ackState = [r \in Replicas |-> "idle"]
    /\ fault = [r \in Replicas |-> "none"]
    /\ dataNet = [r \in Replicas |-> {}]
    /\ ackNet = [r \in Replicas |-> {}]

(***************************************************************************)
(* The fabric.  A received message stays, for it may have copies on the    *)
(* way; it is gone when it is lost or when the sender is more than MaxLag  *)
(* packets ahead of it.  A message that is never received is as good as    *)
(* lost: MayLose adds no behaviour of the nodes, but it decides whether    *)
(* fairness may count on a message.                                        *)
(***************************************************************************)
Alive(net, h) == {i \in net : i + MaxLag >= h}

(***************************************************************************)
(* McastSendQueue.                                                         *)
(***************************************************************************)
\* Variant: the fastest replica decides.
MinTailIndexOfFastest(ts) == Max({ts[r] : r \in Replicas})

MinTailIndex(ts) == Min({ts[r] : r \in Replicas})

FillHead(n, ts) == Max2(head, Min2(End[n], MinTailIndex(ts) + wnd + 1))

\* fillPrimaryQueue with n tasks pushed and the tails ts, and its effect on what
\* the fabric still holds.
Fill(n, ts) ==
    /\ head' = FillHead(n, ts)
    /\ slot' = [s \in Slots |->
                   IF Written(s, head, head')
                   THEN [frag |-> LastWrite(s, head, head'), sent |-> FALSE]
                   ELSE slot[s]]
    /\ dataNet' = [r \in Replicas |-> Alive(dataNet[r], head')]

\* ContextMcast::send of the next task.
Send ==
    /\ posted < NumTasks
    /\ posted' = posted + 1
    /\ Fill(posted + 1, tails)
    /\ ackNet' = [r \in Replicas |-> Alive(ackNet[r], head')]
    /\ UNCHANGED <<tails, wnd, cwnd, replicaVars>>

(***************************************************************************)
(* sendDataPackets: forEach visits all packets of the queue and sends the  *)
(* ones that were never sent and those of `expired`, whose timers ran out. *)
(* Its back-off changes a copy of the SessionInfo, so that only the window *)
(* of the queue survives.                                                  *)
(***************************************************************************)
Queued == MinTailIndex(tails)..(head - 1)
Sent == {i \in Queued : slot[SlotOf(i)].sent}

SendDataPackets(expired) ==
    LET batch == {SlotOf(i) : i \in (Queued \ Sent) \cup expired}
    IN  /\ batch # {}
        /\ slot' = [s \in Slots |->
                       IF s \in batch THEN [slot[s] EXCEPT !.sent = TRUE] ELSE slot[s]]
        /\ dataNet' = [r \in Replicas |-> dataNet[r] \cup {slot[s].frag : s \in batch}]
        /\ wnd' = IF expired = {} THEN wnd ELSE Min2(1, QueueCapacity)
        /\ UNCHANGED <<posted, head, tails, cwnd, replicaVars, ackNet>>

\* processReceivedPacket of an acknowledgement, which redirectMulticast has traced
\* to replica r: its tail moves, the queue is filled, and then the window changes.
ReceiveAck(r, a) ==
    /\ a \in ackNet[r]
    /\ tails' = [tails EXCEPT ![r] = AckedTail(tails[r], head, SHORT_SN(a))]
    /\ Fill(posted, tails')
    /\ cwnd' \in SuccessWnds(cwnd, WndSize)
    /\ wnd' = Min2(cwnd', QueueCapacity)
    /\ ackNet' = [q \in Replicas |-> Alive(ackNet[q], head')]
    /\ UNCHANGED <<posted, replicaVars>>

(***************************************************************************)
(* The replicas.                                                           *)
(***************************************************************************)

\* ReceiveQueue::fillPrimaryQueue.
Filled(q) ==
    LET h == Max2(q.head, Min2(End[q.posted], q.tail + WndSize + 1))
    IN  [q EXCEPT !.head = h,
                  !.slot = [s \in Slots |->
                               IF Written(s, q.head, h)
                               THEN [buf |-> LastWrite(s, q.head, h), inflight |-> TRUE]
                               ELSE q.slot[s]]]

\* ContextMcast::receive of the next task.
Receive(r) ==
    /\ fault[r] = "none"
    /\ rq[r].posted < NumTasks
    /\ rq' = [rq EXCEPT ![r] = Filled([rq[r] EXCEPT !.posted = @ + 1])]
    /\ UNCHANGED <<senderVars, mem, ackDue, ackState, fault, dataNet, ackNet>>

\* ReceiveQueue::markCompleted of a packet in the request it meets, up to the refill.
AdvancedTail(q) ==
    CHOOSE t \in q.tail..q.head :
        /\ \A i \in q.tail..(t - 1) : ~q.slot[SlotOf(i)].inflight
        /\ t = q.head \/ q.slot[SlotOf(t)].inflight

Completed(q, s) ==
    LET done == [q EXCEPT !.slot[s].inflight = FALSE]
    IN  Filled([done EXCEPT !.tail = AdvancedTail(done)])

\* Variant: duplicates are not told from new packets.
AcceptsAll(r, p) == TRUE

Accepts(r, p) == InReceiveWindow(rq[r].tail, WndSize, SHORT_SN(p))

\* The outcome of a data packet that meets request m.
Outcome(r, p, m) ==
    CASE rq[r].posted = 0 -> "assert"
      [] /\ rq[r].head # rq[r].tail
         /\ Accepts(r, p) /\ m.inflight
         /\ FragmentLength(p) # FragmentLength(m.buf) -> "abort"
      [] OTHER -> "none"

\* processReceivedPacket of a data packet.  A replica whose queue is empty drops
\* it without noting that an acknowledgement is due.
ReceiveData(r, p) ==
    LET s == SHORT_SN(p) % QueueCapacity
        m == rq[r].slot[s]
    IN  /\ fault[r] = "none"
        /\ rq[r].posted > 0 \/ EarlyPolling
        /\ p \in dataNet[r]
        /\ fault' = [fault EXCEPT ![r] = Outcome(r, p, m)]
        /\ IF fault'[r] = "none" /\ rq[r].head # rq[r].tail
           THEN /\ ackDue' = [ackDue EXCEPT ![r] = TRUE]
                /\ IF Accepts(r, p)
                   THEN /\ rq' = [rq EXCEPT ![r] = Completed(rq[r], s)]
                        /\ mem' = IF m.inflight THEN [mem EXCEPT ![r][m.buf] = p] ELSE mem
                   ELSE UNCHANGED <<rq, mem>>
           ELSE UNCHANGED <<rq, mem, ackDue>>
        /\ UNCHANGED <<senderVars, ackState, dataNet, ackNet>>

\* sendAckPackets: the handle is in flight before the post, and stays so if it fails.
SendAckPackets(r) ==
    /\ fault[r] = "none"
    /\ ackDue[r]
    /\ ackState[r] = "idle"
    /\ \/ /\ ackNet' = [ackNet EXCEPT ![r] = @ \cup {rq[r].tail}]
          /\ ackState' = [ackState EXCEPT ![r] = "posted"]
          /\ ackDue' = [ackDue EXCEPT ![r] = FALSE]
       \/ /\ AckPostMayFail
          /\ ackState' = [ackState EXCEPT ![r] = "stuck"]
          /\ UNCHANGED <<ackNet, ackDue>>
    /\ UNCHANGED <<senderVars, rq, mem, fault, dataNet>>

\* processReceivedPacket of the send completion of an acknowledgement.
AckSent(r) ==
    /\ fault[r] = "none"
    /\ ackState[r] = "posted"
    /\ ackState' = [ackState EXCEPT ![r] = "idle"]
    /\ UNCHANGED <<senderVars, rq, mem, ackDue, fault, dataNet, ackNet>>

\* The fabric loses what is on the way to, or from, one replica.
LoseData(r) ==
    /\ MayLose
    /\ dataNet[r] # {}
    /\ dataNet' = [dataNet EXCEPT ![r] = {}]
    /\ UNCHANGED <<senderVars, replicaVars, ackNet>>

LoseAck(r) ==
    /\ MayLose
    /\ ackNet[r] # {}
    /\ ackNet' = [ackNet EXCEPT ![r] = {}]
    /\ UNCHANGED <<senderVars, replicaVars, dataNet>>

ReplicaNext(r) ==
    \/ Receive(r)
    \/ \E p \in dataNet[r] : ReceiveData(r, p)
    \/ SendAckPackets(r)
    \/ AckSent(r)
    \/ LoseData(r)
    \/ LoseAck(r)

Next ==
    \/ Send
    \/ \E expired \in SUBSET Sent : SendDataPackets(expired)
    \/ \E r \in Replicas : (\E a \in ackNet[r] : ReceiveAck(r, a)) \/ ReplicaNext(r)

Spec == Init /\ [][Next]_vars

\* A pass that sends packet p, for the first time or again.
Resend(p) ==
    \E expired \in SUBSET Sent :
        p \in (Queued \ Sent) \cup expired /\ SendDataPackets(expired)

(***************************************************************************)
(* Fairness.  The applications post all tasks and poll; every phase of     *)
(* runStep is repeated; each queued packet is sent again when its timer    *)
(* runs out; and the fabric does not lose every copy of the packet that a  *)
(* replica has to acknowledge next, nor every acknowledgement of progress. *)
(***************************************************************************)
Fairness ==
    /\ WF_vars(Send)
    /\ \A r \in Replicas :
          /\ WF_vars(Receive(r))
          /\ WF_vars(SendAckPackets(r) \/ AckSent(r))
          /\ WF_vars(Resend(tails[r]))
          /\ SF_vars(ReceiveData(r, tails[r]))
          /\ SF_vars(\E a \in ackNet[r] : a > tails[r] /\ ReceiveAck(r, a))

FairSpec == Spec /\ Fairness

(***************************************************************************)
(* Properties.                                                             *)
(***************************************************************************)

Queue == [posted : 0..NumTasks, head : Nat, tail : Nat,
          slot : [Slots -> [buf : Fragments \cup {NoFragment}, inflight : BOOLEAN]]]

\* The queues of the sender and of each replica, and the fabric, hold indices and
\* slots of the right kind.
TypeOK ==
    /\ posted \in 0..NumTasks
    /\ head \in 0..NumFragments
    /\ tails \in [Replicas -> 0..head]
    /\ wnd \in 0..QueueCapacity
    /\ slot \in [Slots -> [frag : Fragments \cup {NoFragment}, sent : BOOLEAN]]
    /\ cwnd \in 0..Max2(1, WndSize)
    /\ rq \in [Replicas -> Queue]
    /\ mem \in [Replicas -> [Fragments -> Fragments \cup {NoFragment}]]
    /\ ackDue \in [Replicas -> BOOLEAN]
    /\ ackState \in [Replicas -> {"idle", "posted", "stuck"}]
    /\ fault \in [Replicas -> {"none", "assert", "abort"}]
    /\ dataNet \in [Replicas -> SUBSET Fragments]
    /\ ackNet \in [Replicas -> SUBSET (0..NumFragments)]

SendDone(t) ==
    IsSuccess(SHORT_SN(End[t]), SHORT_SN(MinTailIndex(tails)), SHORT_SN(head))
ReceiveDone(r, t) == IsSuccess(SHORT_SN(End[t]), SHORT_SN(rq[r].tail), SHORT_SN(rq[r].head))

\* getStatus reports a multicast send SUCCESS only when every replica of the group
\* has all of its data, and a receive only when this replica has.
GroupStatusSound ==
    /\ \A t \in 1..posted : SendDone(t) =>
          \A r \in Replicas, i \in 0..(End[t] - 1) : mem[r][i] = i
    /\ \A r \in Replicas : \A t \in 1..rq[r].posted : ReceiveDone(r, t) =>
          \A i \in 0..(End[t] - 1) : mem[r][i] = i

\* fillPrimaryQueue keeps the packets that the slowest replica still needs, and no
\* replica's request is replaced before it is complete.
GroupRingIntact ==
    /\ \A i \in Queued : slot[SlotOf(i)].frag = i
    /\ \A r \in Replicas : \A i \in rq[r].tail..(rq[r].head - 1) : rq[r].slot[SlotOf(i)].buf = i

\* No replica is ended by the length check of ReceiveQueue::markCompleted.
NoReplicaAborts == \A r \in Replicas : fault[r] # "abort"

(***************************************************************************)
(* The constants under which a group is correct.  The windows of the       *)
(* sender never exceed WndSize, and its queue holds one packet more than   *)
(* its window; the rest is as in Session.                                  *)
(***************************************************************************)
SafeConstants ==
    /\ WndSize + 1 <= QueueCapacity
    /\ SNSpace % QueueCapacity = 0
    /\ WndSize + 1 <= MaxLag
    /\ MaxLag + WndSize <= SNSpace

(***************************************************************************)
(* The inductive invariant: every replica's tail is between the sender's   *)
(* tail for it and the sender's head, its ring holds what its indices say, *)
(* its completed requests hold their fragments, and the fabric holds no    *)
(* message from outside the sequence-number horizon.                       *)
(***************************************************************************)
RequestsOK(q) ==
    /\ q.tail <= q.head /\ q.head <= q.tail + WndSize + 1 /\ q.head <= End[q.posted]
    /\ \A s \in Slots : q.slot[s].inflight =>
          q.slot[s].buf \in q.tail..(q.head - 1) /\ SlotOf(q.slot[s].buf) = s
    /\ \A i \in q.tail..(q.head - 1) : q.slot[SlotOf(i)].buf = i

Contents(q, m, h) ==
    /\ q.tail <= h
    /\ \A i \in Fragments : m[i] \in {NoFragment, i}
    /\ \A i \in 0..(q.tail - 1) : m[i] = i
    /\ \A i \in q.tail..(q.head - 1) : ~q.slot[SlotOf(i)].inflight => m[i] = i /\ i < h

Sender ==
    /\ wnd <= WndSize /\ cwnd <= WndSize
    /\ head <= End[posted]
    /\ \A i \in Queued : slot[SlotOf(i)].frag = i

Replica(r) ==
    /\ head <= tails[r] + WndSize + 1
    /\ tails[r] <= rq[r].tail
    /\ RequestsOK(rq[r])
    /\ Contents(rq[r], mem[r], head)
    /\ \A p \in dataNet[r] : p < head /\ head <= p + MaxLag
    /\ \A a \in ackNet[r] : a <= rq[r].tail /\ head <= a + MaxLag
    /\ fault[r] # "abort"

GroupInv == TypeOK /\ Sender /\ \A r \in Replicas : Replica(r)

Stream(r) == INSTANCE ReliableStream WITH
    offered   <- End[posted],
    wanted    <- End[rq[r].posted],
    received  <- [i \in 0..(rq[r].tail - 1) |-> mem[r][i]],
    confirmed <- tails[r]

\* Each replica gets a reliable stream of its own, however far the others lag.
ImplementsStreams ==
    /\ \A r \in Replicas : Stream(r)!StreamInit
    /\ [][\A r \in Replicas : Stream(r)!StreamNext \/ UNCHANGED Stream(r)!streamVars]_vars

\* Every replica that posts its buffers gets all the data.
AllDelivered == <>[](\A r \in Replicas : rq[r].tail = NumFragments)

\* The sender's getStatus reports every multicast task SUCCESS in the end.
AllSendsSucceed == <>[](posted = NumTasks /\ \A t \in 1..NumTasks : SendDone(t))
=============================================================================
